------------------------ MODULE DeliveryRecordProofs ------------------------
(* The record that a delivery leaves behind: it is on disk before the       *)
(* device is touched, and final when its run has ended; and what it says of *)
(* the outcome is true, for every set of runs, approvals, faults and        *)
(* timeouts.                                                                *)
EXTENDS DeliveryProofs

(* Stages that only a run with a claim reaches, and those between the first *)
(* file of the claim and the installation.                                  *)
OwnerStages ==
    {"write_claim", "write_evidence", "fin_receipt_write", "fin_reclaim"}
        \cup SnapshotStages \cup InstallStages \cup AcceptStages \cup RecoverStages
PreparedStages == SnapshotStages \cup {"install"}

(* What a run in a stage, with a memory m, has in its claim directory d.    *)
(* From the installation on it does not depend on the stage: a run that has *)
(* touched the device may fail into rollback() and finish() from anywhere.  *)
Recorded(stage, m, d) ==
    /\ stage \in OwnerStages \/ m.touched => m.holds
    /\ stage \in {"write_claim", "write_evidence"} \cup PreparedStages \/ m.touched =>
          m.claim # "none" /\ d.receipt # NoReceipt
    /\ stage \in {"write_evidence"} \cup PreparedStages \/ m.touched =>
          d.claim.state # "none"
    /\ stage = "install" \/ m.touched => m.evidence.prior /\ d.evidence.prior

RecordInv == \A r \in Runs : Recorded(pc[r], run[r], disk[Mine(r)])

(* A step leaves the files of an ended run alone.                           *)
EndedKept ==
    \A r \in Runs :
        Owns(r) /\ Ended(r) => disk'[ApprovalOf[r]] = disk[ApprovalOf[r]]
-----------------------------------------------------------------------------
(* A step of one run that changes at most its own directory, which is its   *)
(* own by the claim or was not there yet.                                   *)
LEMMA StepRecords ==
    ASSUME TypeOK, ClaimInv, RecordInv,
           NEW r \in Runs, NEW m, NEW s, NEW d, Step(r, m, s),
           disk' = [disk EXCEPT ![Mine(r)] = d],
           d = disk[Mine(r)] \/ Owns(r) \/ ~disk[Mine(r)].dir,
           pc[r] \notin EndStages,
           Recorded(s, m, d)
    PROVE  RecordInv' /\ EndedKept
<1>1. pc' = [pc EXCEPT ![r] = s] /\ run' = [run EXCEPT ![r] = m]
  BY DEF Step
<1>2. \A q \in Runs : Mine(q) \in Approvals /\ Mine(q) = ApprovalOf[q]
  BY RunsAssumption DEF Mine
<1>3. pc'[r] = s /\ run'[r] = m /\ disk'[Mine(r)] = d
  BY <1>1, <1>2 DEF TypeOK
<1>4. ASSUME NEW q \in Runs, q # r
      PROVE  /\ pc'[q] = pc[q] /\ run'[q] = run[q]
             /\ Owns(q) => disk'[Mine(q)] = disk[Mine(q)]
  <2>1. pc'[q] = pc[q] /\ run'[q] = run[q]
    BY <1>1, <1>4 DEF TypeOK
  <2>2. ASSUME Owns(q), Mine(q) # Mine(r)
        PROVE  disk'[Mine(q)] = disk[Mine(q)]
    BY <1>2, <2>2 DEF TypeOK
  <2>3. ASSUME Owns(q), Mine(q) = Mine(r)
        PROVE  disk'[Mine(q)] = disk[Mine(q)]
    <3>1. ~Owns(r) /\ disk[Mine(r)].dir
      BY <1>2, <1>4, <2>3 DEF ClaimInv, OneExecutorPerApproval
    <3> QED BY <1>3, <2>3, <3>1
  <2> QED BY <2>1, <2>2, <2>3
<1>5. ASSUME NEW q \in Runs
      PROVE  Recorded(pc'[q], run'[q], disk'[Mine(q)])
  <2>1. CASE q = r
    BY <1>3, <2>1
  <2>2. CASE q # r /\ Owns(q)
    BY <1>4, <2>2 DEF RecordInv
  <2>3. CASE q # r /\ ~Owns(q)
    <3>1. Recorded(pc[q], run[q], disk[Mine(q)]) /\ ~run[q].holds
      BY <2>3 DEF RecordInv, Owns
    <3>2. pc[q] \notin OwnerStages /\ ~run[q].touched
      BY <3>1 DEF Recorded
    <3>3. {"write_claim", "write_evidence", "install"} \cup PreparedStages \subseteq OwnerStages
      BY DEF OwnerStages, PreparedStages, InstallStages
    <3>4. Recorded(pc[q], run[q], disk'[Mine(q)])
      BY <3>2, <3>3 DEF Recorded
    <3> QED BY <1>4, <2>3, <3>4
  <2> QED BY <2>1, <2>2, <2>3
<1>6. RecordInv'
  BY <1>5 DEF RecordInv, Mine
<1>7. EndedKept
  <2> SUFFICES ASSUME NEW q \in Runs, Owns(q), Ended(q)
               PROVE  disk'[ApprovalOf[q]] = disk[ApprovalOf[q]]
    BY DEF EndedKept
  <2>1. q # r
    BY DEF Ended
  <2> QED BY <1>2, <1>4, <2>1
<1> QED BY <1>6, <1>7

(* The same for a step that leaves the directories alone.                   *)
LEMMA QuietStepRecords ==
    ASSUME TypeOK, ClaimInv, RecordInv,
           NEW r \in Runs, NEW m, NEW s, Step(r, m, s), UNCHANGED disk,
           pc[r] \notin EndStages,
           Recorded(s, m, disk[Mine(r)])
    PROVE  RecordInv' /\ EndedKept
<1>1. disk' = [disk EXCEPT ![Mine(r)] = disk[Mine(r)]]
  BY DEF TypeOK
<1> QED BY <1>1, StepRecords

(* An exception: what it leads to asks no more than the touched device does.*)
LEMMA FailRecords ==
    ASSUME TypeOK, ClaimInv, RecordInv,
           NEW r \in Runs, NEW m \in Memories, NEW f \in Failures, Fail(r, m, f),
           UNCHANGED disk, pc[r] \notin EndStages,
           NEW s, Recorded(s, m, disk[Mine(r)])
    PROVE  RecordInv' /\ EndedKept
<1> DEFINE n == [m EXCEPT !.failure = f]
<1>1. /\ n.touched = m.touched /\ n.holds = m.holds /\ n.claim = m.claim
      /\ n.evidence = m.evidence /\ n \in Memories
  BY DEF Memories
<1> HIDE DEF n
<1>2. CASE m.touched
  <2>1. Step(r, Recovering(n), "rb_apk")
    BY <1>2 DEF Fail, n
  <2>2. /\ Recovering(n).touched = m.touched /\ Recovering(n).holds = m.holds
        /\ Recovering(n).claim = m.claim /\ Recovering(n).evidence = m.evidence
    BY <1>1 DEF Recovering, Memories
  <2>3. Recorded("rb_apk", Recovering(n), disk[Mine(r)])
    BY <1>2, <2>2 DEF Recorded
  <2> QED BY <2>1, <2>3, QuietStepRecords
<1>3. CASE ~m.touched
  <2>1. Step(r, n, "fin_receipt")
    BY <1>3 DEF Fail, n
  <2>2. "fin_receipt" \notin OwnerStages \cup PreparedStages \cup {"write_claim"}
    BY DEF OwnerStages, PreparedStages, SnapshotStages, InstallStages, AcceptStages,
           RecoverStages
  <2>3. Recorded("fin_receipt", n, disk[Mine(r)])
    BY <1>1, <1>3, <2>2 DEF Recorded
  <2> QED BY <2>1, <2>3, QuietStepRecords
<1> QED BY <1>2, <1>3

(* Time that passes changes nothing of it.                                  *)
LEMMA ElapseRecords ==
    ASSUME NEW m0 \in Memories, NEW k \in Nat, NEW m \in Elapse(m0, k), NEW s, NEW d,
           Recorded(s, m0, d)
    PROVE  m \in Memories /\ Recorded(s, m, d)
<1>1. m \in Memories /\ m = [m0 EXCEPT !.left = m.left]
  BY ElapseTyped
<1>2. /\ m.touched = m0.touched /\ m.holds = m0.holds /\ m.claim = m0.claim
      /\ m.evidence = m0.evidence
  BY <1>1 DEF Memories
<1> QED BY <1>1, <1>2 DEF Recorded

LEMMA CommandRecords ==
    ASSUME TypeOK, ClaimInv, RecordInv,
           NEW r \in Runs, NEW m0 \in Memories, NEW effect, NEW partial, NEW accepted,
           NEW s, Command(r, m0, CommandTicks, effect, partial, accepted, s),
           pc[r] \notin EndStages,
           Recorded(s, m0, disk[Mine(r)])
    PROVE  RecordInv' /\ EndedKept
<1>1. PICK m \in Elapse(m0, CommandTicks) : Step(r, m, s) \/ Fail(r, m, "failed")
  BY DEF Command
<1>2. m \in Memories /\ Recorded(s, m, disk[Mine(r)])
  BY <1>1, ElapseRecords, TicksAssumption
<1>3. UNCHANGED disk /\ "failed" \in Failures
  BY DEF Command, Failures
<1> QED BY <1>1, <1>2, <1>3, QuietStepRecords, FailRecords

LEMMA WriteFailsRecords ==
    ASSUME TypeOK, ClaimInv, RecordInv,
           NEW r \in Runs, NEW m \in Memories, NEW f \in Failures, WriteFails(r, m, f),
           pc[r] \notin EndStages,
           NEW s, Recorded(s, m, disk[Mine(r)])
    PROVE  RecordInv' /\ EndedKept
BY FailRecords DEF WriteFails

LEMMA ValidateRecords ==
    ASSUME TypeOK, ClaimInv, RecordInv,
           NEW r \in Runs, NEW m \in Memories, NEW s, Validate(r, m, s), UNCHANGED disk,
           pc[r] \notin EndStages,
           Recorded(s, m, disk[Mine(r)])
    PROVE  RecordInv' /\ EndedKept
<1>1. Step(r, m, s) \/ Fail(r, m, "failed")
  BY DEF Validate
<1>2. "failed" \in Failures
  BY DEF Failures
<1> QED BY <1>1, <1>2, QuietStepRecords, FailRecords
-----------------------------------------------------------------------------
(* What holds of one run before a step, as each operation below needs it.   *)
LEMMA Before ==
    ASSUME TypeOK, ReceiptInv, RecordInv, NEW r \in Runs
    PROVE  /\ run[r] \in Memories /\ Mine(r) \in Approvals
           /\ disk[Mine(r)] \in Directories
           /\ Recorded(pc[r], run[r], disk[Mine(r)])
           /\ pc[r] \in ValidatedStages => run[r].doc # NoReceipt
<1>1. pc[r] \in ValidatedStages => Len(run[r].doc.history) > 0
  BY DEF ReceiptInv, ValidReceipt
<1>2. Len(NoReceipt.history) = 0
  BY DEF NoReceipt
<1> QED BY <1>1, <1>2, RunsAssumption DEF TypeOK, RecordInv, Mine

(* The stages up to the claim.                                              *)
LEMMA ClaimsRecord ==
    ASSUME TypeOK, ClaimInv, ReceiptInv, RecordInv, NEW r \in Runs, Claims(r)
    PROVE  RecordInv' /\ EndedKept
<1> DEFINE m0 == run[r]
           d0 == disk[Mine(r)]
<1>1. /\ m0 \in Memories /\ d0 \in Directories /\ Mine(r) \in Approvals
      /\ Recorded(pc[r], m0, d0)
      /\ pc[r] \in ValidatedStages => m0.doc # NoReceipt
  BY Before
<1>2. {"failed", "usage", "replay"} \subseteq Failures /\ CommandTicks \in Nat
  BY TicksAssumption DEF Failures
<1>3. /\ \A s \in {"inputs", "release", "preflight", "check", "mkdir", "write_receipt"} :
            s \notin OwnerStages \cup PreparedStages \cup EndStages
      /\ \A s \in {"write_claim", "write_evidence", "snapshot_apk"} :
            s \in OwnerStages /\ s \notin EndStages \cup {"install"}
      /\ PreparedStages \subseteq OwnerStages
      /\ {"write_claim", "write_evidence"} \cap PreparedStages = {}
      /\ "snapshot_apk" \in PreparedStages
  BY DEF OwnerStages, PreparedStages, EndStages, SnapshotStages, InstallStages,
         AcceptStages, RecoverStages
<1>4. \A s, t \in {"inputs", "release", "preflight", "check", "mkdir", "write_receipt"} :
         \A m, d : Recorded(s, m, d) => Recorded(t, m, d)
  BY <1>3 DEF Recorded
<1>5. CASE StaticInputs(r)
  <2>1. PICK m \in Elapse(m0, CommandTicks) :
            IF Fresh(Mine(r))
            THEN Step(r, [m EXCEPT !.doc = PublishedReceipt(m.started)], "release")
            ELSE Fail(r, m, "failed")
    BY <1>5 DEF StaticInputs
  <2>2. m \in Memories /\ Recorded("release", m, d0)
    BY <1>1, <1>2, <1>4, <1>5, <2>1, ElapseRecords DEF StaticInputs
  <2>3. Recorded("release", [m EXCEPT !.doc = PublishedReceipt(m.started)], d0)
    BY <2>2 DEF Recorded, Memories
  <2>4. UNCHANGED disk /\ pc[r] \notin EndStages
    BY <1>3, <1>5 DEF StaticInputs
  <2> QED BY <1>2, <2>1, <2>2, <2>3, <2>4, QuietStepRecords, FailRecords
<1>6. CASE AcquireRelease(r) \/ Preflight(r)
  <2>1. PICK m \in Elapse(m0, CommandTicks), s \in {"preflight", "check"} : Step(r, m, s)
    BY <1>6 DEF AcquireRelease, Preflight
  <2>2. pc[r] \in {"release", "preflight"} /\ UNCHANGED disk
    BY <1>6 DEF AcquireRelease, Preflight
  <2>3. Recorded(s, m0, d0)
    BY <1>1, <1>4, <2>2
  <2>4. Recorded(s, m, d0)
    BY <1>1, <1>2, <2>1, <2>3, ElapseRecords
  <2> QED BY <1>3, <2>1, <2>2, <2>4, QuietStepRecords
<1>7. CASE CheckClaim(r)
  <2>1. pc[r] = "check" /\ UNCHANGED disk
        /\ (Validate(r, m0, "mkdir") \/ Fail(r, m0, "failed"))
    BY <1>7 DEF CheckClaim
  <2>2. Recorded("mkdir", m0, d0)
    BY <1>1, <1>4, <2>1
  <2> QED BY <1>1, <1>2, <1>3, <2>1, <2>2, ValidateRecords, FailRecords
<1>8. CASE MakeClaimDirectory(r)
  <2>1. pc[r] = "mkdir"
    BY <1>8 DEF MakeClaimDirectory
  <2>2. CASE ~d0.dir /\ disk' = [disk EXCEPT ![Mine(r)].dir = TRUE]
             /\ Step(r, m0, "write_receipt")
    <3> DEFINE d == [d0 EXCEPT !.dir = TRUE]
    <3>1. disk' = [disk EXCEPT ![Mine(r)] = d]
      BY <2>2
    <3>2. d.receipt = d0.receipt /\ d.claim = d0.claim /\ d.evidence = d0.evidence
      BY <1>1 DEF Directories
    <3> HIDE DEF d
    <3>3. Recorded("write_receipt", m0, d)
      BY <1>1, <1>3, <2>1, <3>2 DEF Recorded
    <3> QED BY <1>3, <2>1, <2>2, <3>1, <3>3, StepRecords
  <2>3. CASE UNCHANGED disk /\ \E f \in {"replay", "usage"} : Fail(r, m0, f)
    BY <1>1, <1>2, <1>3, <2>1, <2>3, FailRecords
  <2> QED BY <1>8, <2>2, <2>3 DEF MakeClaimDirectory
<1>9. CASE WriteReceipt(r)
  <2> DEFINE m == [m0 EXCEPT !.holds = TRUE, !.claim = "executing"]
  <2>1. pc[r] = "write_receipt" /\ Owns(r) /\ m0.doc # NoReceipt
    BY <1>1, <1>9 DEF WriteReceipt, Owns, ValidatedStages
  <2>2. /\ m \in Memories /\ m.holds = TRUE /\ m.claim = "executing" /\ m.doc = m0.doc
        /\ m.touched = m0.touched /\ m.evidence = m0.evidence
    BY <1>1 DEF Memories, ClaimStates
  <2>3. \/ disk' = [disk EXCEPT ![Mine(r)].receipt = m.doc] /\ Step(r, m, "write_claim")
        \/ WriteFails(r, m, "usage")
    BY <1>9 DEF WriteReceipt
  <2> HIDE DEF m
  <2>4. CASE disk' = [disk EXCEPT ![Mine(r)].receipt = m.doc] /\ Step(r, m, "write_claim")
    <3> DEFINE d == [d0 EXCEPT !.receipt = m.doc]
    <3>1. disk' = [disk EXCEPT ![Mine(r)] = d]
      BY <2>4
    <3>2. d.receipt # NoReceipt /\ d.claim = d0.claim /\ d.evidence = d0.evidence
      BY <1>1, <2>1, <2>2 DEF Directories
    <3> HIDE DEF d
    <3>3. Recorded("write_claim", m, d)
      BY <1>1, <1>3, <2>2, <3>2 DEF Recorded
    <3> QED BY <1>3, <2>1, <2>4, <3>1, <3>3, StepRecords
  <2>5. CASE WriteFails(r, m, "usage")
    <3>1. Recorded("write_receipt", m, d0)
      BY <1>1, <1>3, <2>1, <2>2 DEF Recorded
    <3> QED BY <1>2, <1>3, <2>1, <2>2, <2>5, <3>1, WriteFailsRecords
  <2> QED BY <2>3, <2>4, <2>5
<1>10. CASE WriteClaim(r)
  <2>1. pc[r] = "write_claim" /\ Owns(r)
    BY <1>1, <1>3, <1>10 DEF WriteClaim, Recorded, Owns
  <2>2. CASE WriteFails(r, m0, "usage")
    BY <1>1, <1>2, <1>3, <2>1, <2>2, WriteFailsRecords
  <2>3. CASE disk' = [disk EXCEPT ![Mine(r)].claim = [state |-> "executing", ok |-> FALSE]]
             /\ Step(r, m0, "write_evidence")
    <3> DEFINE d == [d0 EXCEPT !.claim = [state |-> "executing", ok |-> FALSE]]
    <3>1. disk' = [disk EXCEPT ![Mine(r)] = d]
      BY <2>3
    <3>2. /\ d.receipt = d0.receipt /\ d.evidence = d0.evidence
          /\ d.claim.state = "executing"
      BY <1>1 DEF Directories
    <3> HIDE DEF d
    <3>3. Recorded("write_evidence", m0, d)
      BY <1>1, <1>3, <2>1, <3>2 DEF Recorded
    <3> QED BY <1>3, <2>1, <2>3, <3>1, <3>3, StepRecords
  <2> QED BY <1>10, <2>2, <2>3 DEF WriteClaim
<1>11. CASE WriteEvidence(r)
  <2>1. pc[r] = "write_evidence" /\ Owns(r)
    BY <1>1, <1>3, <1>11 DEF WriteEvidence, Recorded, Owns
  <2>2. CASE WriteFails(r, m0, "failed")
    BY <1>1, <1>2, <1>3, <2>1, <2>2, WriteFailsRecords
  <2>3. CASE disk' = [disk EXCEPT ![Mine(r)].evidence = m0.evidence]
             /\ Step(r, m0, "snapshot_apk")
    <3> DEFINE d == [d0 EXCEPT !.evidence = m0.evidence]
    <3>1. disk' = [disk EXCEPT ![Mine(r)] = d]
      BY <2>3
    <3>2. d.receipt = d0.receipt /\ d.claim = d0.claim /\ d.evidence = m0.evidence
      BY <1>1 DEF Directories
    <3> HIDE DEF d
    <3>3. Recorded("snapshot_apk", m0, d)
      BY <1>1, <1>3, <2>1, <3>2 DEF Recorded
    <3> QED BY <1>3, <2>1, <2>3, <3>1, <3>3, StepRecords
  <2> QED BY <1>11, <2>2, <2>3 DEF WriteEvidence
<1> QED BY <1>5, <1>6, <1>7, <1>8, <1>9, <1>10, <1>11 DEF Claims

(* The stages of a run with a claim, none of which is an end.               *)
LEMMA OwnersRun ==
    ASSUME TypeOK, RecordInv, NEW r \in Runs, pc[r] \in OwnerStages
    PROVE  Owns(r) /\ pc[r] \notin EndStages
BY DEF RecordInv, Recorded, Owns, OwnerStages, EndStages, SnapshotStages,
       InstallStages, AcceptStages, RecoverStages

(* The owner writes its private evidence.                                   *)
LEMMA EvidenceRecords ==
    ASSUME TypeOK, ClaimInv, RecordInv,
           NEW r \in Runs, NEW m, NEW s, NEW e, Step(r, m, s), Owns(r),
           pc[r] \notin EndStages,
           disk' = [disk EXCEPT ![Mine(r)].evidence = e],
           Recorded(s, m, [disk[Mine(r)] EXCEPT !.evidence = e])
    PROVE  RecordInv' /\ EndedKept
<1>1. disk' = [disk EXCEPT ![Mine(r)] = [disk[Mine(r)] EXCEPT !.evidence = e]]
  OBVIOUS
<1> QED BY <1>1, StepRecords

(* The owner persists the receipt it holds in memory.                       *)
LEMMA PersistRecords ==
    ASSUME TypeOK, ClaimInv, ReceiptInv, RecordInv,
           NEW r \in Runs, NEW s, disk' = [disk EXCEPT ![Mine(r)].receipt = run[r].doc],
           Step(r, run[r], s), Owns(r), pc[r] \in ValidatedStages,
           Recorded(s, run[r], disk[Mine(r)])
    PROVE  RecordInv' /\ EndedKept
<1> DEFINE d == [disk[Mine(r)] EXCEPT !.receipt = run[r].doc]
<1>1. disk' = [disk EXCEPT ![Mine(r)] = d]
  OBVIOUS
<1>2. d.receipt # NoReceipt /\ d.claim = disk[Mine(r)].claim
      /\ d.evidence = disk[Mine(r)].evidence
  BY Before DEF Directories
<1> HIDE DEF d
<1>3. Recorded(s, run[r], d)
  BY <1>2 DEF Recorded
<1>4. pc[r] \notin EndStages
  BY DEF ValidatedStages, EndStages
<1> QED BY <1>1, <1>3, <1>4, StepRecords

(* The snapshot and the installation.                                       *)
LEMMA WorksRecord ==
    ASSUME TypeOK, ClaimInv, ReceiptInv, RecordInv, NEW r \in Runs, Works(r)
    PROVE  RecordInv' /\ EndedKept
<1> DEFINE m0 == run[r]
           d0 == disk[Mine(r)]
<1>1. /\ m0 \in Memories /\ d0 \in Directories /\ Mine(r) \in Approvals
      /\ Recorded(pc[r], m0, d0)
  BY Before
<1>2. "failed" \in Failures /\ CommandTicks \in Nat
  BY TicksAssumption DEF Failures
<1>3. /\ PreparedStages \cup InstallStages \cup {"identity"} \subseteq OwnerStages
      /\ {"snapshot_apk", "snapshot_config", "snapshot_write", "install"}
            \subseteq PreparedStages
      /\ \A s \in {"deliver", "deliver_write", "push", "publish", "identity"} :
            /\ s \in OwnerStages
            /\ s \notin {"write_claim", "write_evidence"} \cup PreparedStages
  BY DEF OwnerStages, PreparedStages, SnapshotStages, InstallStages, AcceptStages
<1>4. pc[r] \in SnapshotStages \cup InstallStages
  BY DEF Works, SnapshotPackage, SnapshotConfig, SnapshotWrite, Install, MarkDelivered,
         PersistDelivered, PersistReceipt, PushConfig, PublishConfig, SnapshotStages,
         InstallStages
<1>5. Owns(r) /\ pc[r] \notin EndStages /\ m0.holds
  <2>1. pc[r] \in OwnerStages
    BY <1>4 DEF OwnerStages
  <2> QED BY <1>1, <2>1, OwnersRun DEF Recorded
<1>6. \A s, t \in {"deliver", "deliver_write", "push", "publish", "identity"} : \A m, d :
         Recorded(s, m, d) => Recorded(t, m, d)
  BY <1>3 DEF Recorded
<1>7. CASE SnapshotPackage(r)
  <2>1. PICK m \in Elapse(m0, CommandTicks) :
            Step(r, [m EXCEPT !.prior.apk = device.apk, !.prior.fg = device.fg],
                 "snapshot_config")
    BY <1>7 DEF SnapshotPackage
  <2>2. pc[r] = "snapshot_apk" /\ UNCHANGED disk
    BY <1>7 DEF SnapshotPackage
  <2>3. Recorded("snapshot_config", m0, d0)
    BY <1>1, <1>3, <2>2 DEF Recorded
  <2>4. m \in Memories /\ Recorded("snapshot_config", m, d0)
    BY <1>1, <1>2, <2>1, <2>3, ElapseRecords
  <2>5. Recorded("snapshot_config",
                 [m EXCEPT !.prior.apk = device.apk, !.prior.fg = device.fg], d0)
    BY <2>4 DEF Recorded, Memories
  <2> QED BY <1>5, <2>1, <2>2, <2>5, QuietStepRecords
<1>8. CASE SnapshotConfig(r)
  <2>1. PICK m \in Elapse(m0, CommandTicks), c \in {device.config, "absent"} :
            Step(r, [m EXCEPT !.prior.config = c], "snapshot_write")
    BY <1>8 DEF SnapshotConfig
  <2>2. pc[r] = "snapshot_config" /\ UNCHANGED disk
    BY <1>8 DEF SnapshotConfig
  <2>3. Recorded("snapshot_write", m0, d0)
    BY <1>1, <1>3, <2>2 DEF Recorded
  <2>4. m \in Memories /\ Recorded("snapshot_write", m, d0)
    BY <1>1, <1>2, <2>1, <2>3, ElapseRecords
  <2>5. Recorded("snapshot_write", [m EXCEPT !.prior.config = c], d0)
    BY <2>4 DEF Recorded, Memories
  <2> QED BY <1>5, <2>1, <2>2, <2>5, QuietStepRecords
<1>9. CASE SnapshotWrite(r)
  <2> DEFINE m == [m0 EXCEPT !.evidence.prior = TRUE]
  <2>1. /\ m \in Memories /\ m.evidence.prior = TRUE /\ m.holds = m0.holds
        /\ m.claim = m0.claim /\ m.touched = m0.touched
    BY <1>1 DEF Memories, EvidenceFiles
  <2>2. \/ disk' = [disk EXCEPT ![Mine(r)].evidence = m.evidence] /\ Step(r, m, "install")
        \/ WriteFails(r, m, "failed")
    BY <1>9 DEF SnapshotWrite
  <2>3. pc[r] = "snapshot_write"
    BY <1>9 DEF SnapshotWrite
  <2> HIDE DEF m
  <2>4. CASE disk' = [disk EXCEPT ![Mine(r)].evidence = m.evidence] /\ Step(r, m, "install")
    <3> DEFINE d == [d0 EXCEPT !.evidence = m.evidence]
    <3>1. d.receipt = d0.receipt /\ d.claim = d0.claim /\ d.evidence = m.evidence
      BY <1>1 DEF Directories
    <3>2. Recorded("install", m, d)
      <4> HIDE DEF d
      <4> QED BY <1>1, <1>3, <2>1, <2>3, <3>1 DEF Recorded
    <3> QED BY <1>5, <2>4, <3>2, EvidenceRecords
  <2>5. CASE WriteFails(r, m, "failed")
    <3>1. Recorded("snapshot_write", m, d0)
      BY <1>1, <1>3, <2>1, <2>3 DEF Recorded
    <3> QED BY <1>2, <1>5, <2>1, <2>5, <3>1, WriteFailsRecords
  <2> QED BY <2>2, <2>4, <2>5
<1>10. CASE Install(r)
  <2> DEFINE m == [m0 EXCEPT !.touched = TRUE]
  <2>1. /\ m \in Memories /\ m.holds = m0.holds /\ m.claim = m0.claim
        /\ m.evidence = m0.evidence /\ m.touched = TRUE
    BY <1>1 DEF Memories
  <2>2. pc[r] = "install"
        /\ Command(r, m, CommandTicks, [device EXCEPT !.apk = "release"], {}, TRUE,
                   "deliver")
    BY <1>10 DEF Install
  <2> HIDE DEF m
  <2>3. Recorded("deliver", m, d0)
    BY <1>1, <1>3, <2>1, <2>2 DEF Recorded
  <2> QED BY <1>5, <2>1, <2>2, <2>3, CommandRecords
<1>11. CASE MarkDelivered(r)
  <2> DEFINE m == [m0 EXCEPT !.doc = Delivered(@)]
  <2>1. /\ m \in Memories /\ m.holds = m0.holds /\ m.claim = m0.claim
        /\ m.evidence = m0.evidence /\ m.touched = m0.touched
    BY <1>1, DeliveredTyped DEF Memories
  <2>2. pc[r] = "deliver" /\ Validate(r, m, "deliver_write") /\ UNCHANGED disk
    BY <1>11 DEF MarkDelivered
  <2> HIDE DEF m
  <2>3. Recorded("deliver_write", m, d0)
    BY <1>1, <1>3, <2>1, <2>2 DEF Recorded
  <2> QED BY <1>5, <2>1, <2>2, <2>3, ValidateRecords
<1>12. CASE PersistDelivered(r)
  <2>1. pc[r] = "deliver_write" /\ pc[r] \in ValidatedStages
    BY <1>12 DEF PersistDelivered, PersistReceipt, ValidatedStages
  <2>2. CASE WriteFails(r, m0, "failed")
    BY <1>1, <1>2, <1>5, <2>2, WriteFailsRecords
  <2>3. CASE disk' = [disk EXCEPT ![Mine(r)].receipt = m0.doc] /\ Step(r, m0, "push")
    <3>1. Recorded("push", m0, d0)
      BY <1>1, <1>6, <2>1
    <3> QED BY <1>5, <2>1, <2>3, <3>1, PersistRecords
  <2> QED BY <1>12, <2>2, <2>3 DEF PersistDelivered, PersistReceipt
<1>13. CASE PushConfig(r)
  <2>1. pc[r] = "push" /\ Command(r, m0, CommandTicks, device, {}, TRUE, "publish")
    BY <1>13 DEF PushConfig
  <2>2. Recorded("publish", m0, d0)
    BY <1>1, <1>6, <2>1
  <2> QED BY <1>1, <1>5, <2>1, <2>2, CommandRecords
<1>14. CASE PublishConfig(r)
  <2>1. pc[r] = "publish"
        /\ Command(r, m0, CommandTicks, [device EXCEPT !.config = Mine(r)], {}, TRUE,
                   "identity")
    BY <1>14 DEF PublishConfig
  <2>2. Recorded("identity", m0, d0)
    BY <1>1, <1>6, <2>1
  <2> QED BY <1>1, <1>5, <2>1, <2>2, CommandRecords
<1> QED BY <1>7, <1>8, <1>9, <1>10, <1>11, <1>12, <1>13, <1>14 DEF Works

(* The acceptance.                                                          *)
LEMMA AcceptsRecord ==
    ASSUME TypeOK, ClaimInv, ReceiptInv, RecordInv, NEW r \in Runs, Accepts(r)
    PROVE  RecordInv' /\ EndedKept
<1> DEFINE m0 == run[r]
           d0 == disk[Mine(r)]
<1>1. /\ m0 \in Memories /\ d0 \in Directories
      /\ Recorded(pc[r], m0, d0)
  BY Before
<1>2. "failed" \in Failures
  BY DEF Failures
<1>3. pc[r] \in AcceptStages
  BY DEF Accepts, VerifyIdentity, Launch, PressHome, Restart, PressBack, Reboot,
         VerifyBoot, Soak, CompleteReceipt, PersistCompleted, PersistReceipt, AcceptStages
<1>4. Owns(r) /\ pc[r] \notin EndStages
  BY <1>3, OwnersRun DEF OwnerStages
<1>5. \A s \in AcceptStages :
         s \in OwnerStages /\ s \notin {"write_claim", "write_evidence"} \cup PreparedStages
  BY DEF OwnerStages, PreparedStages, SnapshotStages, AcceptStages
<1>6. \A s \in AcceptStages : \A m : Recorded(pc[r], m, d0) => Recorded(s, m, d0)
  BY <1>3, <1>5 DEF Recorded, PreparedStages
<1>7. ASSUME NEW effect, NEW partial, NEW accepted, NEW s \in AcceptStages,
             Command(r, m0, CommandTicks, effect, partial, accepted, s)
      PROVE  RecordInv' /\ EndedKept
  BY <1>1, <1>4, <1>6, <1>7, CommandRecords
<1>8. CASE VerifyIdentity(r) \/ Launch(r) \/ PressHome(r) \/ PressBack(r)
           \/ Restart(r, "restart_home", "back") \/ Restart(r, "restart_back", "reboot")
           \/ Reboot(r) \/ VerifyBoot(r) \/ Soak(r)
  <2>1. CASE VerifyIdentity(r)
    BY <1>7, <2>1 DEF VerifyIdentity, AcceptStages
  <2>2. CASE Launch(r)
    BY <1>7, <2>2 DEF Launch, AcceptStages
  <2>3. CASE PressHome(r)
    BY <1>7, <2>3 DEF PressHome, AcceptStages
  <2>4. CASE PressBack(r)
    BY <1>7, <2>4 DEF PressBack, AcceptStages
  <2>5. CASE Restart(r, "restart_home", "back")
    BY <1>7, <2>5 DEF Restart, AcceptStages
  <2>6. CASE Restart(r, "restart_back", "reboot")
    BY <1>7, <2>6 DEF Restart, AcceptStages
  <2>7. CASE Reboot(r)
    BY <1>7, <2>7 DEF Reboot, AcceptStages
  <2>8. CASE VerifyBoot(r)
    BY <1>7, <2>8 DEF VerifyBoot, AcceptStages
  <2>9. CASE Soak(r)
    BY <1>7, <2>9 DEF Soak, AcceptStages
  <2> QED BY <1>8, <2>1, <2>2, <2>3, <2>4, <2>5, <2>6, <2>7, <2>8, <2>9
<1>9. CASE CompleteReceipt(r)
  <2> DEFINE m == [m0 EXCEPT !.doc.verification = "passed", !.doc.verifiedAt = wall]
  <2>1. /\ m \in Memories /\ m.holds = m0.holds /\ m.claim = m0.claim
        /\ m.evidence = m0.evidence /\ m.touched = m0.touched
    BY <1>1 DEF Memories, Receipts, VerificationStates, TypeOK
  <2>2. Validate(r, m, "complete_write") /\ UNCHANGED disk
    BY <1>9 DEF CompleteReceipt
  <2> HIDE DEF m
  <2>3. Recorded(pc[r], m, d0)
    BY <1>1, <2>1 DEF Recorded
  <2>4. Recorded("complete_write", m, d0)
    BY <1>6, <2>3 DEF AcceptStages
  <2> QED BY <1>4, <2>1, <2>2, <2>4, ValidateRecords
<1>10. CASE PersistCompleted(r)
  <2>1. pc[r] = "complete_write" /\ pc[r] \in ValidatedStages
    BY <1>10 DEF PersistCompleted, PersistReceipt, ValidatedStages
  <2>2. CASE WriteFails(r, m0, "failed")
    BY <1>1, <1>2, <1>4, <2>2, WriteFailsRecords
  <2>3. CASE disk' = [disk EXCEPT ![Mine(r)].receipt = m0.doc] /\ Step(r, m0, "fin_claim")
    <3>1. "fin_claim" \notin OwnerStages \cup PreparedStages
      BY DEF OwnerStages, PreparedStages, SnapshotStages, InstallStages, AcceptStages,
             RecoverStages
    <3>2. Recorded("fin_claim", m0, d0)
      BY <1>1, <1>3, <1>5, <3>1 DEF Recorded, PreparedStages
    <3> QED BY <1>4, <2>1, <2>3, <3>2, PersistRecords
  <2> QED BY <1>10, <2>2, <2>3 DEF PersistCompleted, PersistReceipt
<1> QED BY <1>8, <1>9, <1>10 DEF Accepts

(* The fields of a memory that Recorded looks at are the same in both.      *)
SameRecord(m, n) ==
    m.holds = n.holds /\ m.touched = n.touched /\ m.claim = n.claim
        /\ m.evidence = n.evidence

(* A stage of the rollback or of finish() that writes nothing.              *)
LEMMA LateStepRecords ==
    ASSUME TypeOK, ClaimInv, RecordInv,
           NEW r \in Runs, NEW m, NEW s, Step(r, m, s), UNCHANGED disk,
           pc[r] \notin EndStages,
           SameRecord(m, run[r]),
           s \notin {"write_claim", "write_evidence"} \cup PreparedStages,
           s \in OwnerStages => run[r].holds
    PROVE  RecordInv' /\ EndedKept
<1>1. Recorded(pc[r], run[r], disk[Mine(r)])
  BY DEF RecordInv
<1>2. Recorded(s, m, disk[Mine(r)])
  BY <1>1 DEF Recorded, SameRecord, PreparedStages
<1> QED BY <1>2, QuietStepRecords

(* rollback(): its stages write nothing but the evidence at the end.        *)
LEMMA RecoversRecord ==
    ASSUME TypeOK, ClaimInv, ReceiptInv, RecordInv, NEW r \in Runs, Recovers(r)
    PROVE  RecordInv' /\ EndedKept
<1> DEFINE m0 == run[r]
           d0 == disk[Mine(r)]
<1>1. m0 \in Memories /\ d0 \in Directories /\ Recorded(pc[r], m0, d0)
  BY Before
<1>2. pc[r] \in RecoverStages
  BY DEF Recovers, RestorePackage, PushPrior, MovePrior, RestoreForeground,
         RecordRollback, RecoverStages
<1>3. Owns(r) /\ pc[r] \notin EndStages /\ m0.holds
  BY <1>1, <1>2, OwnersRun DEF OwnerStages, Recorded
<1>4. \A s \in RecoverStages \cup {"fin_receipt"} :
         s \notin {"write_claim", "write_evidence"} \cup PreparedStages
  BY DEF RecoverStages, PreparedStages, SnapshotStages
<1>5. ASSUME NEW s \in RecoverStages, NEW m, Step(r, m, s), UNCHANGED disk,
             SameRecord(m, m0)
      PROVE  RecordInv' /\ EndedKept
  BY <1>3, <1>4, <1>5, LateStepRecords
<1>6. \A n \in Nat : \A m \in Elapse(m0, n) : m \in Memories /\ SameRecord(m, m0)
  <2> SUFFICES ASSUME NEW n \in Nat, NEW m \in Elapse(m0, n)
               PROVE  m \in Memories /\ SameRecord(m, m0)
    OBVIOUS
  <2>1. m \in Memories /\ m = [m0 EXCEPT !.left = m.left]
    BY <1>1, ElapseTyped
  <2> QED BY <1>1, <2>1 DEF SameRecord, Memories
<1>7. \A m \in Memories : SameRecord(m, m0) =>
         /\ \A v : /\ SameRecord([m EXCEPT !.rb.apk = v], m0)
                   /\ SameRecord([m EXCEPT !.rb.config = v], m0)
                   /\ SameRecord([m EXCEPT !.rb.fg = v], m0)
                   /\ SameRecord([m EXCEPT !.staged = v], m0)
         /\ \A v, w : SameRecord([m EXCEPT !.staged = v, !.pushed = w], m0)
  BY DEF Memories, SameRecord
<1>8. SameRecord(m0, m0) /\ {InstallTicks, QuickTicks} \subseteq Nat
  BY TicksAssumption DEF SameRecord
<1>9. CASE RestorePackage(r)
  <2>1. PICK m \in Elapse(m0, InstallTicks) \cup {m0} :
            \E v : Step(r, [m EXCEPT !.rb.apk = v], "rb_push")
    BY <1>9 DEF RestorePackage
  <2>2. m \in Memories /\ SameRecord(m, m0)
    BY <1>1, <1>6, <1>8, <2>1
  <2>3. UNCHANGED disk
    BY <1>9 DEF RestorePackage
  <2> QED BY <1>5, <1>7, <2>1, <2>2, <2>3 DEF RecoverStages
<1>10. CASE PushPrior(r)
  <2>1. UNCHANGED disk
    BY <1>10 DEF PushPrior
  <2>2. \E m \in Elapse(m0, QuickTicks) \cup {m0} :
           \/ \E v : Step(r, [m EXCEPT !.rb.config = v], "rb_start")
           \/ \E v : Step(r, [m EXCEPT !.staged = v], "rb_move")
           \/ \E v, w : Step(r, [m EXCEPT !.staged = v, !.pushed = w], "rb_move")
    BY <1>10 DEF PushPrior
  <2>3. PICK m \in Elapse(m0, QuickTicks) \cup {m0} :
           \/ \E v : Step(r, [m EXCEPT !.rb.config = v], "rb_start")
           \/ \E v : Step(r, [m EXCEPT !.staged = v], "rb_move")
           \/ \E v, w : Step(r, [m EXCEPT !.staged = v, !.pushed = w], "rb_move")
    BY <2>2
  <2>4. m \in Memories /\ SameRecord(m, m0)
    BY <1>1, <1>6, <1>8, <2>3
  <2> QED BY <1>5, <1>7, <2>1, <2>3, <2>4 DEF RecoverStages
<1>11. CASE MovePrior(r)
  <2>1. PICK m \in Elapse(m0, QuickTicks) :
            \E v : Step(r, [m EXCEPT !.rb.config = v], "rb_start")
    BY <1>11 DEF MovePrior
  <2>2. m \in Memories /\ SameRecord(m, m0)
    BY <1>6, <1>8, <2>1
  <2>3. UNCHANGED disk
    BY <1>11 DEF MovePrior
  <2> QED BY <1>5, <1>7, <2>1, <2>2, <2>3 DEF RecoverStages
<1>12. CASE RestoreForeground(r)
  <2>1. PICK v : Step(r, [m0 EXCEPT !.rb.fg = v], "rb_write")
    BY <1>12 DEF RestoreForeground
  <2>2. UNCHANGED disk
    BY <1>12 DEF RestoreForeground
  <2> QED BY <1>1, <1>5, <1>7, <1>8, <2>1, <2>2 DEF RecoverStages
<1>13. CASE RecordRollback(r)
  <2>1. Step(r, m0, "fin_receipt")
    BY <1>13 DEF RecordRollback
  <2>2. "fin_receipt" \notin OwnerStages
    BY DEF OwnerStages, SnapshotStages, InstallStages, AcceptStages, RecoverStages
  <2>3. CASE UNCHANGED disk
    BY <1>3, <1>4, <1>8, <2>1, <2>2, <2>3, LateStepRecords
  <2>4. CASE disk' = [disk EXCEPT ![Mine(r)].evidence = m0.evidence]
    <3> DEFINE d == [d0 EXCEPT !.evidence = m0.evidence]
    <3>1. d.receipt = d0.receipt /\ d.claim = d0.claim /\ d.evidence = m0.evidence
      BY <1>1 DEF Directories
    <3>2. Recorded("fin_receipt", m0, d)
      <4> HIDE DEF d
      <4> QED BY <1>1, <1>4, <2>2, <3>1 DEF Recorded, PreparedStages
    <3> QED BY <1>3, <2>1, <2>4, <3>2, EvidenceRecords
  <2> QED BY <1>13, <2>3, <2>4 DEF RecordRollback
<1> QED BY <1>9, <1>10, <1>11, <1>12, <1>13 DEF Recovers

(* finish(): what it writes is written by an owner, and keeps the record of *)
(* a run that touched the device.                                           *)
LEMMA FinishesRecord ==
    ASSUME TypeOK, ClaimInv, ReceiptInv, RecordInv, NEW r \in Runs, Finishes(r)
    PROVE  RecordInv' /\ EndedKept
<1> DEFINE m0 == run[r]
           d0 == disk[Mine(r)]
<1>1. m0 \in Memories /\ d0 \in Directories /\ Recorded(pc[r], m0, d0)
  BY Before
<1>2. pc[r] \in FinishStages \cup {"cleanup"} /\ pc[r] \notin EndStages
  BY DEF Finishes, FinalizeReceipt, PersistFinalized, FinishClaim, FinishEvidence,
         FinishReclaim, Report, Cleanup, FinishStages, EndStages
<1>3. /\ \A s \in FinishStages \cup {"cleanup", "done"} :
            s \notin {"write_claim", "write_evidence"} \cup PreparedStages
      /\ \A s \in FinishStages \cup {"cleanup", "done"} :
            s \in OwnerStages => s \in {"fin_receipt_write", "fin_reclaim"}
      /\ {"fin_receipt_write", "fin_claim", "fin_evidence", "fin_reclaim", "fin_out"}
            \subseteq FinishStages
      /\ {"fin_receipt_write", "fin_reclaim"} \subseteq OwnerStages
  BY DEF FinishStages, OwnerStages, PreparedStages, SnapshotStages, InstallStages,
         AcceptStages, RecoverStages
<1>4. ASSUME NEW s \in FinishStages \cup {"cleanup", "done"}, NEW m, Step(r, m, s),
             UNCHANGED disk, SameRecord(m, m0),
             s \in {"fin_receipt_write", "fin_reclaim"} => m0.holds
      PROVE  RecordInv' /\ EndedKept
  BY <1>2, <1>3, <1>4, LateStepRecords
<1>5. SameRecord(m0, m0)
  BY DEF SameRecord
(* What a memory and a directory with a record need to stay one.            *)
<1>6. ASSUME NEW m, NEW d, NEW s \in FinishStages \cup {"cleanup", "done"},
             m.holds = m0.holds, m.touched = m0.touched,
             m0.touched => m.claim # "none" /\ m.evidence.prior,
             m0.touched => d.receipt # NoReceipt /\ d.claim.state # "none"
                           /\ d.evidence.prior,
             s \in {"fin_receipt_write", "fin_reclaim"} => m0.holds
      PROVE  Recorded(s, m, d)
  BY <1>1, <1>3, <1>6 DEF Recorded, PreparedStages
<1>7. CASE FinalizeReceipt(r)
  <2> DEFINE m == [m0 EXCEPT !.doc = FailedReceipt(m0)]
  <2>1. SameRecord(m, m0)
    BY <1>1 DEF SameRecord, Memories
  <2>2. \/ Step(r, m0, "fin_claim")
        \/ Step(r, m, "fin_claim")
        \/ Settleable(m0) /\ Step(r, m, "fin_receipt_write")
    BY <1>7 DEF FinalizeReceipt
  <2>3. UNCHANGED disk /\ (Settleable(m0) => m0.holds)
    BY <1>7 DEF FinalizeReceipt, Settleable
  <2> HIDE DEF m
  <2> QED BY <1>3, <1>4, <1>5, <2>1, <2>2, <2>3
<1>8. CASE PersistFinalized(r)
  <2>1. pc[r] = "fin_receipt_write" /\ Step(r, m0, "fin_claim")
    BY <1>8 DEF PersistFinalized
  <2>2. CASE UNCHANGED disk
    BY <1>3, <1>4, <1>5, <2>1, <2>2
  <2>3. CASE disk' = [disk EXCEPT ![Mine(r)].receipt = m0.doc]
    <3>1. Owns(r) /\ pc[r] \in ValidatedStages
      BY <1>3, <2>1, OwnersRun DEF ValidatedStages
    <3>2. m0.touched =>
             /\ m0.claim # "none" /\ m0.evidence.prior
             /\ d0.receipt # NoReceipt /\ d0.claim.state # "none" /\ d0.evidence.prior
      BY <1>1 DEF Recorded
    <3>3. Recorded("fin_claim", m0, d0)
      BY <1>3, <1>6, <3>2
    <3> QED BY <2>1, <2>3, <3>1, <3>3, PersistRecords
  <2> QED BY <1>8, <2>2, <2>3 DEF PersistFinalized
<1>9. CASE FinishClaim(r)
  <2> DEFINE ok == m0.failure = "none"
             claimed == m0.claim # "none"
             m == [m0 EXCEPT
                      !.ok = ok,
                      !.claim = IF ~claimed THEN @
                                ELSE IF ok THEN "completed" ELSE "failed",
                      !.evidence.result = IF ~claimed THEN @
                                          ELSE IF ok THEN "passed" ELSE "failed"]
             d == [d0 EXCEPT !.claim = [state |-> m.claim, ok |-> m.ok]]
  <2>1. m.evidence.prior = m0.evidence.prior /\ m \in Memories
    BY <1>1 DEF Memories, EvidenceFiles, Results, ClaimStates
  <2>2. m.holds = m0.holds /\ m.touched = m0.touched /\ m.failure = m0.failure
    BY <1>1 DEF Memories
  <2>3. m0.claim # "none" => m.claim # "none"
    BY <1>1 DEF Memories
  <2>4. \/ Step(r, m, "fin_evidence") /\ UNCHANGED disk
        \/ Step(r, Unwritten(m), "fin_evidence") /\ UNCHANGED disk
        \/ m0.holds /\ Step(r, m, "fin_evidence")
             /\ disk' = [disk EXCEPT ![Mine(r)].claim = [state |-> m.claim, ok |-> m.ok]]
    BY <1>9, <2>2 DEF FinishClaim
  <2>5. d.receipt = d0.receipt /\ d.evidence = d0.evidence /\ d.claim.state = m.claim
    <3> HIDE DEF m
    <3> QED BY <1>1 DEF Directories
  <2>6. disk' = [disk EXCEPT ![Mine(r)].claim = [state |-> m.claim, ok |-> m.ok]]
          => disk' = [disk EXCEPT ![Mine(r)] = d]
    <3> HIDE DEF m
    <3> QED OBVIOUS
  <2> HIDE DEF m, d
  <2>7. /\ Unwritten(m).evidence.prior = m.evidence.prior
        /\ Unwritten(m).holds = m.holds /\ Unwritten(m).touched = m.touched
        /\ Unwritten(m).claim = m.claim
    BY <2>1 DEF Unwritten, Memories, EvidenceFiles
  <2>8. m0.touched =>
           /\ m0.claim # "none" /\ m0.evidence.prior
           /\ d0.receipt # NoReceipt /\ d0.claim.state # "none" /\ d0.evidence.prior
    BY <1>1 DEF Recorded
  <2>9. /\ Recorded("fin_evidence", m, d0)
        /\ Recorded("fin_evidence", Unwritten(m), d0)
        /\ Recorded("fin_evidence", m, d)
    BY <1>3, <1>6, <2>1, <2>2, <2>3, <2>5, <2>7, <2>8
  <2>10. CASE UNCHANGED disk
    BY <1>2, <2>4, <2>6, <2>9, <2>10, QuietStepRecords, StepRecords DEF Owns
  <2>11. CASE m0.holds /\ Step(r, m, "fin_evidence")
              /\ disk' = [disk EXCEPT ![Mine(r)].claim = [state |-> m.claim, ok |-> m.ok]]
    BY <1>2, <2>6, <2>9, <2>11, StepRecords DEF Owns
  <2> QED BY <2>4, <2>10, <2>11
<1>10. CASE FinishEvidence(r)
  <2>1. /\ Unwritten(m0).evidence.prior = m0.evidence.prior
        /\ Unwritten(m0).holds = m0.holds /\ Unwritten(m0).touched = m0.touched
        /\ Unwritten(m0).claim = m0.claim
    BY <1>1 DEF Unwritten, Memories, EvidenceFiles
  <2>2. m0.touched =>
           /\ m0.claim # "none" /\ m0.evidence.prior
           /\ d0.receipt # NoReceipt /\ d0.claim.state # "none" /\ d0.evidence.prior
    BY <1>1 DEF Recorded
  <2>3. /\ Recorded("fin_out", m0, d0)
        /\ \A s \in {"fin_out", "fin_reclaim"} :
              m0.holds => Recorded(s, Unwritten(m0), d0)
    BY <1>3, <1>6, <2>1, <2>2
  <2>4. CASE Step(r, m0, "fin_out") /\ UNCHANGED disk
    BY <1>2, <2>3, <2>4, QuietStepRecords
  <2>5. CASE m0.holds /\ Step(r, m0, "fin_out")
             /\ disk' = [disk EXCEPT ![Mine(r)].evidence = m0.evidence]
    <3> DEFINE d == [d0 EXCEPT !.evidence = m0.evidence]
    <3>1. d.receipt = d0.receipt /\ d.claim = d0.claim /\ d.evidence = m0.evidence
      BY <1>1 DEF Directories
    <3>2. Recorded("fin_out", m0, d)
      <4> HIDE DEF d
      <4> QED BY <1>3, <1>6, <2>2, <3>1
    <3> QED BY <1>2, <2>5, <3>2, EvidenceRecords DEF Owns
  <2>6. CASE m0.holds /\ UNCHANGED disk
             /\ Step(r, Unwritten(m0),
                     IF m0.failure = "none" THEN "fin_reclaim" ELSE "fin_out")
    BY <1>2, <2>3, <2>6, QuietStepRecords
  <2> QED BY <1>10, <2>4, <2>5, <2>6 DEF FinishEvidence
<1>11. CASE FinishReclaim(r)
  <2>1. pc[r] = "fin_reclaim" /\ Step(r, m0, "fin_out")
    BY <1>11 DEF FinishReclaim
  <2>2. CASE UNCHANGED disk
    BY <1>3, <1>4, <1>5, <2>1, <2>2
  <2>3. CASE disk' = [disk EXCEPT ![Mine(r)].claim = [state |-> m0.claim, ok |-> m0.ok]]
    <3> DEFINE d == [d0 EXCEPT !.claim = [state |-> m0.claim, ok |-> m0.ok]]
    <3>1. disk' = [disk EXCEPT ![Mine(r)] = d]
      BY <2>3
    <3>2. d.receipt = d0.receipt /\ d.evidence = d0.evidence /\ d.claim.state = m0.claim
      BY <1>1 DEF Directories
    <3> HIDE DEF d
    <3>3. m0.touched =>
             /\ m0.claim # "none" /\ m0.evidence.prior
             /\ d0.receipt # NoReceipt /\ d0.evidence.prior
      BY <1>1 DEF Recorded
    <3>4. Recorded("fin_out", m0, d)
      BY <1>3, <1>6, <3>2, <3>3
    <3>5. Owns(r)
      BY <1>3, <2>1, OwnersRun
    <3> QED BY <1>2, <2>1, <3>1, <3>4, <3>5, StepRecords
  <2> QED BY <1>11, <2>2, <2>3 DEF FinishReclaim
<1>12. CASE Report(r) \/ Cleanup(r)
  <2>1. /\ UNCHANGED disk
        /\ \/ \E s \in {"cleanup", "done"} :
                  (\E v : Step(r, [m0 EXCEPT !.exit = v], s)) \/ Step(r, m0, s)
           \/ Fail(r, m0, "failed")
           \/ Step(r, [m0 EXCEPT !.exit = "failed"], "escaped")
    BY <1>12 DEF Report, Cleanup, Escape
  <2>2. \A v : SameRecord([m0 EXCEPT !.exit = v], m0)
    BY <1>1 DEF SameRecord, Memories
  <2>3. CASE \E s \in {"cleanup", "done"} :
                (\E v : Step(r, [m0 EXCEPT !.exit = v], s)) \/ Step(r, m0, s)
    BY <1>4, <1>5, <2>1, <2>2, <2>3
  <2>4. CASE Fail(r, m0, "failed")
    <3>1. "failed" \in Failures
      BY DEF Failures
    <3> QED BY <1>1, <1>2, <2>1, <2>4, <3>1, FailRecords
  <2>5. CASE Step(r, [m0 EXCEPT !.exit = "failed"], "escaped")
    <3>1. "escaped" \notin {"write_claim", "write_evidence"} \cup PreparedStages \cup OwnerStages
      BY DEF OwnerStages, PreparedStages, SnapshotStages, InstallStages, AcceptStages,
             RecoverStages
    <3> QED BY <1>2, <2>1, <2>2, <2>5, <3>1, LateStepRecords
  <2> QED BY <2>1, <2>3, <2>4, <2>5
<1> QED BY <1>7, <1>8, <1>9, <1>10, <1>11, <1>12 DEF Finishes

(* A start, a reading command that fails, a signal, a kill, a deadline.     *)
LEMMA EnvironmentRecords ==
    ASSUME TypeOK, ClaimInv, ReceiptInv, RecordInv, NEW r \in Runs,
           Start(r) \/ DeadlineExpires(r) \/ ReadFails(r) \/ Signal(r) \/ Kill(r)
    PROVE  RecordInv' /\ EndedKept
<1> DEFINE m0 == run[r]
           d0 == disk[Mine(r)]
<1>1. m0 \in Memories /\ d0 \in Directories /\ Recorded(pc[r], m0, d0)
  BY Before
<1>2. {"failed", "usage"} \subseteq Failures /\ CommandTicks \in Nat
  BY TicksAssumption DEF Failures
<1>3. UNCHANGED disk
  BY DEF Start, DeadlineExpires, ReadFails, Signal, Kill
<1>4. /\ {"inputs", "fin_claim", "escaped", "dead"} \cap OwnerStages = {}
      /\ RecoverStages \subseteq OwnerStages
      /\ \A s \in RecoverStages \cup {"inputs", "fin_claim", "escaped", "dead"} :
            s \notin {"write_claim", "write_evidence"} \cup PreparedStages
  BY DEF OwnerStages, PreparedStages, SnapshotStages, InstallStages, AcceptStages,
         RecoverStages
<1>5. SameRecord(m0, m0)
  BY DEF SameRecord
<1>6. CASE Start(r)
  <2>1. SameRecord([m0 EXCEPT !.started = wall], m0)
    BY <1>1 DEF SameRecord, Memories
  <2>2. Step(r, [m0 EXCEPT !.started = wall], "inputs") /\ pc[r] \notin EndStages
    BY <1>6 DEF Start, EndStages
  <2> QED BY <1>3, <1>4, <2>1, <2>2, LateStepRecords
<1>7. CASE DeadlineExpires(r)
  <2>1. Fail(r, m0, "failed") /\ pc[r] \notin EndStages
    BY <1>7 DEF DeadlineExpires, CommandStages, ReadStages, EndStages
  <2> QED BY <1>1, <1>2, <1>3, <2>1, FailRecords
<1>8. CASE ReadFails(r)
  <2>1. PICK m \in Elapse(m0, CommandTicks), f \in {"failed", "usage"} : Fail(r, m, f)
    BY <1>8 DEF ReadFails
  <2>2. m \in Memories /\ Recorded(pc[r], m, d0) /\ pc[r] \notin EndStages
    BY <1>1, <1>2, <1>8, <2>1, ElapseRecords DEF ReadFails, ReadStages, EndStages
  <2> QED BY <1>2, <1>3, <2>1, <2>2, FailRecords
<1>9. CASE Signal(r)
  <2>1. pc[r] \notin EndStages
    BY <1>9 DEF Signal, EndStages, TryStages, ClaimStages, SnapshotStages, InstallStages,
                AcceptStages, RecoverStages, FinishStages
  <2>2. CASE Fail(r, m0, "failed")
    BY <1>1, <1>2, <1>3, <2>1, <2>2, FailRecords
  <2>3. CASE /\ pc[r] \in RecoverStages
             /\ \/ Step(r, [m0 EXCEPT !.rb.apk = "failed"], "rb_push")
                \/ Step(r, [m0 EXCEPT !.rb.config = "failed"], "rb_start")
                \/ Step(r, [m0 EXCEPT !.rb.fg = "failed"], "rb_write")
    <3>1. /\ SameRecord([m0 EXCEPT !.rb.apk = "failed"], m0)
          /\ SameRecord([m0 EXCEPT !.rb.config = "failed"], m0)
          /\ SameRecord([m0 EXCEPT !.rb.fg = "failed"], m0)
      BY <1>1 DEF SameRecord, Memories
    <3>2. m0.holds
      BY <1>1, <1>4, <2>3 DEF Recorded
    <3>3. {"rb_push", "rb_start", "rb_write"} \subseteq RecoverStages
      BY DEF RecoverStages
    <3> QED BY <1>3, <1>4, <2>1, <2>3, <3>1, <3>2, <3>3, LateStepRecords
  <2>4. CASE Step(r, m0, "fin_claim") \/ Escape(r)
    <3>1. SameRecord([m0 EXCEPT !.exit = "failed"], m0)
      BY <1>1 DEF SameRecord, Memories
    <3> QED BY <1>3, <1>4, <1>5, <2>1, <2>4, <3>1, LateStepRecords DEF Escape
  <2> QED BY <1>9, <2>2, <2>3, <2>4 DEF Signal, RecoverStages
<1>10. CASE Kill(r)
  <2>1. Step(r, m0, "dead") /\ pc[r] \notin EndStages
    BY <1>10 DEF Kill
  <2> QED BY <1>3, <1>4, <1>5, <2>1, LateStepRecords
<1> QED BY <1>6, <1>7, <1>8, <1>9, <1>10
-----------------------------------------------------------------------------
LEMMA InitRecords == Init => RecordInv
<1> SUFFICES ASSUME Init, NEW r \in Runs
             PROVE  Recorded(pc[r], run[r], disk[Mine(r)])
  BY DEF RecordInv
<1>1. pc[r] = "idle" /\ ~run[r].touched
  BY DEF Init, NewRun
<1>2. "idle" \notin {"write_claim", "write_evidence"} \cup OwnerStages \cup PreparedStages
  BY DEF OwnerStages, PreparedStages, SnapshotStages, InstallStages, AcceptStages,
         RecoverStages
<1> QED BY <1>1, <1>2 DEF Recorded, PreparedStages

LEMMA NextRecords ==
    TypeOK /\ ClaimInv /\ ReceiptInv /\ RecordInv /\ [Next]_vars => RecordInv' /\ EndedKept
<1> SUFFICES ASSUME TypeOK, ClaimInv, ReceiptInv, RecordInv, [Next]_vars
             PROVE  RecordInv' /\ EndedKept
  OBVIOUS
<1>1. ASSUME NEW r \in Runs, Start(r) \/ Proceed(r) \/ ReadFails(r) \/ Signal(r) \/ Kill(r)
      PROVE  RecordInv' /\ EndedKept
  BY <1>1, ClaimsRecord, WorksRecord, AcceptsRecord, RecoversRecord, FinishesRecord,
     EnvironmentRecords DEF Proceed
<1>2. CASE UNCHANGED <<pc, run, disk>>
  BY <1>2 DEF RecordInv, Recorded, EndedKept, Mine
<1>3. Tick \/ ClockStep \/ UNCHANGED vars => UNCHANGED <<pc, run, disk>>
  BY DEF Tick, ClockStep, vars
<1> QED BY <1>1, <1>2, <1>3 DEF Next

(* The record of every run keeps up with its stage.                         *)
THEOREM RecordHolds == Spec => []RecordInv
BY InitRecords, NextRecords, TypeCorrect, InvariantHolds, PTL DEF Spec, IInv

(* Before the first command that may change the device, the claim, its      *)
(* receipt and the record of the prior state are on disk, and they stay     *)
(* there whatever fails afterwards.                                         *)
THEOREM RecordedFirst == Spec => []RecordedBeforeTouched
<1>1. ClaimInv /\ RecordInv => RecordedBeforeTouched
  BY DEF ClaimInv, RecordInv, Recorded, RecordedBeforeTouched, Owns
<1> QED BY <1>1, RecordHolds, InvariantHolds, PTL DEF IInv

(* The record of a run that has ended, however it ended, is never written   *)
(* again: no replay of the approval reaches it.                             *)
THEOREM EndedRecordStays == Spec => EndedRecordIsFinal
<1>1. TypeOK /\ ClaimInv /\ ReceiptInv /\ RecordInv /\ [Next]_vars => EndedKept
  BY NextRecords
<1> QED BY <1>1, RecordHolds, TypeCorrect, InvariantHolds, PTL
        DEF Spec, IInv, EndedRecordIsFinal, EndedKept
-----------------------------------------------------------------------------
(* What a run decided: whether it restored what it found, whether it was    *)
(* accepted, and what its files say of either.                              *)

(* Stages that only a run reaches that has started the installation.        *)
TouchedStages ==
    {"deliver", "deliver_write", "push", "publish"} \cup AcceptStages \cup RecoverStages

(* Nothing was restored yet, in this run's rollback or because there was    *)
(* none.                                                                    *)
Unrestored(m) ==
    /\ m.rb.apk # "restored" /\ m.rb.config # "restored"
    /\ ~m.pushed
    /\ m.doc.state # "rolled_back"

(* receipt.json says neither that the run was accepted nor that it was      *)
(* rolled back.                                                             *)
Open(d) == d.receipt.verification # "passed" /\ d.receipt.state # "rolled_back"

CompletedClaim == [state |-> "completed", ok |-> TRUE]
FailedClaim == [state |-> "failed", ok |-> FALSE]

(* The three files of an accepted run.                                      *)
AcceptedFiles(d) ==
    /\ d.receipt.verification = "passed"
    /\ d.claim = CompletedClaim
    /\ d.evidence.result = "passed"

(* What a run in a stage, with a memory m, has decided, and what its claim  *)
(* directory d says of it: a restore is believed only after its own command *)
(* succeeded, and a success only after each file of it was written.         *)
Trying(stage, m, d) ==
    stage \in TryStages \cup {"idle"} =>
        /\ m.failure = "none" /\ m.exit = "running"
        /\ m.holds => Open(d)
        /\ (m.doc.verification = "passed") <=> (stage = "complete_write")
        /\ stage = "write_receipt" => d.receipt = NoReceipt

Restoring(stage, m) ==
    /\ stage \in RecoverStages \cup {"fin_receipt", "fin_receipt_write"} =>
          m.failure # "none" /\ m.exit = "running"
    /\ stage \in RecoverStages \cup {"fin_receipt"} => m.doc.state # "rolled_back"
    /\ stage = "rb_apk" \/ m.failure = "none" => Unrestored(m)
    /\ stage \in {"rb_push", "rb_move"} => m.rb.config # "restored"
    /\ stage = "rb_push" => ~m.pushed
    /\ m.pushed => m.staged = m.prior.config
    /\ m.doc.state = "rolled_back" => RestoreCompleted(m)

Settling(stage, m, d) ==
    /\ stage \in FinishStages => m.exit = "running"
    /\ stage = "fin_claim" /\ m.failure = "none" =>
          m.holds /\ d.receipt.verification = "passed"
    /\ stage = "fin_evidence" /\ m.failure = "none" /\ m.ok =>
          /\ m.holds /\ d.receipt.verification = "passed" /\ d.claim = CompletedClaim
          /\ m.evidence.result = "passed"
    /\ stage = "fin_reclaim" => m.holds /\ m.failure = "none" /\ ~m.ok
    /\ stage = "fin_out" /\ m.failure = "none" /\ m.ok => m.holds /\ AcceptedFiles(d)
    /\ m.exit = "ok" =>
          /\ stage \in {"cleanup", "done", "dead"} /\ m.failure = "none"
          /\ m.holds /\ AcceptedFiles(d)

Decided(stage, m, d) ==
    /\ stage \in TouchedStages => m.touched
    /\ m.holds => m.claim # "none"
    /\ m.holds /\ d.receipt.state = "rolled_back" => m.doc.state = "rolled_back"
    /\ Trying(stage, m, d)
    /\ Restoring(stage, m)
    /\ Settling(stage, m, d)

(* A directory that was not claimed has no receipt.                         *)
Unclaimed(d) == ~d.dir => d.receipt = NoReceipt

(* The device as the run left it.                                           *)
Shown(stage, m) ==
    \/ stage \in {"complete", "complete_write"}
    \/ stage \in FinishStages /\ m.failure = "none"
    \/ m.exit = "ok"

OnDevice(r, stage, m, d) ==
    /\ m.rb.apk = "restored" => d.apk = m.prior.apk
    /\ m.rb.config = "restored" => d.config = m.prior.config
    /\ Shown(stage, m) => Shows(d, Mine(r), TRUE)

(* The faults under which the files agree, and whether the one signal came. *)
TameKinds == {"command", "signal"}
Tame == OnlyFaults(TameKinds) /\ AtMostOne("signal")
Signalled == \E i \in 1..Len(faults) : faults[i] = "signal"

ReceiptAgrees(d, ok) == (d.receipt.verification = "passed") <=> ok
ClaimAgrees(d, ok) == d.claim = IF ok THEN CompletedClaim ELSE FailedClaim
ResultOf(ok) == IF ok THEN "passed" ELSE "failed"

(* What the files of a holder say as long as the faults are tame.  Where an *)
(* exception finds an accepted receipt it is the signal, so that no second  *)
(* one keeps fin_receipt from revising that receipt.                        *)
Agrees(stage, m, d, signalled) ==
    /\ stage \in RecoverStages \cup {"fin_receipt"} /\ d.receipt.verification = "passed" =>
          signalled /\ m.doc = d.receipt
    /\ stage = "fin_receipt_write" =>
          /\ m.doc.verification # "passed"
          /\ d.receipt.verification = "passed" => signalled
    /\ stage \in {"fin_claim", "fin_evidence", "fin_out"} =>
          /\ ReceiptAgrees(d, m.failure = "none")
          /\ m.failure = "none" => m.doc = d.receipt
    /\ stage # "fin_reclaim"
    /\ stage \in {"fin_evidence", "fin_out"} =>
          m.ok = (m.failure = "none") /\ ClaimAgrees(d, m.ok)
    /\ stage = "fin_evidence" => m.evidence.result = ResultOf(m.ok)
    /\ stage = "fin_out" => d.evidence.result = ResultOf(m.ok)
    /\ stage \in {"cleanup", "done"} =>
          /\ ReceiptAgrees(d, m.exit = "ok") /\ ClaimAgrees(d, m.exit = "ok")
          /\ d.evidence.result = ResultOf(m.exit = "ok")

(* Nothing in a memory is dated after now.                                  *)
Dated(m, now) ==
    /\ m.started <= now
    /\ \A i \in 1..Len(m.doc.history) : m.doc.history[i].at <= now

(* The inductive invariant of the outcomes.                                 *)
DecidedInv ==
    /\ \A a \in Approvals : Unclaimed(disk[a])
    /\ \A r \in Runs : Decided(pc[r], run[r], disk[Mine(r)])
DeviceInv == \A r \in Runs : Alone(r) => OnDevice(r, pc[r], run[r], device)
AgreeInv ==
    Tame => \A r \in Runs :
        run[r].holds => Agrees(pc[r], run[r], disk[Mine(r)], Signalled)
DatedInv ==
    /\ wall > 0
    /\ OnlyFaults(TameKinds) => \A r \in Runs : Dated(run[r], wall)

OutcomeInv == DecidedInv /\ DeviceInv /\ AgreeInv /\ DatedInv
-----------------------------------------------------------------------------
(* The faults only grow.                                                    *)
Grows == faults' = faults \/ \E kind \in FaultKinds : faults' = Append(faults, kind)

LEMMA FaultsGrow ==
    ASSUME TypeOK, Grows
    PROVE  /\ \A kinds : OnlyFaults(kinds)' => OnlyFaults(kinds)
           /\ Tame' => Tame
           /\ Signalled => Signalled'
<1>1. faults \in Seq(FaultKinds)
  BY DEF TypeOK
<1>2. CASE faults' = faults
  BY <1>2 DEF OnlyFaults, AtMostOne, Tame, Signalled
<1>3. CASE \E kind \in FaultKinds : faults' = Append(faults, kind)
  <2>1. /\ Len(faults) \in Nat /\ Len(faults') \in Nat /\ Len(faults) <= Len(faults')
        /\ \A i \in 1..Len(faults) : i \in 1..Len(faults') /\ faults'[i] = faults[i]
    BY <1>1, <1>3
  <2>2. \A kinds : OnlyFaults(kinds)' => OnlyFaults(kinds)
    BY <2>1 DEF OnlyFaults
  <2>3. AtMostOne("signal")' => AtMostOne("signal")
    BY <2>1 DEF AtMostOne
  <2>4. Signalled => Signalled'
    BY <2>1 DEF Signalled
  <2> QED BY <2>2, <2>3, <2>4 DEF Tame
<1> QED BY <1>2, <1>3 DEF Grows

(* A fault of another kind is not tame, nor is a second signal.             *)
LEMMA FaultTames ==
    ASSUME TypeOK, NEW kind, Fault(kind), Tame'
    PROVE  /\ kind \in TameKinds
           /\ kind = "signal" => ~Signalled
<1>1. faults \in Seq(FaultKinds) /\ faults' = Append(faults, kind) /\ kind \in FaultKinds
  BY FaultsAssumption DEF TypeOK, Fault
<1>2. /\ Len(faults) \in Nat /\ Len(faults') = Len(faults) + 1
      /\ faults'[Len(faults')] = kind /\ Len(faults') \in 1..Len(faults')
      /\ \A i \in 1..Len(faults) :
            i \in 1..Len(faults') /\ faults'[i] = faults[i] /\ i # Len(faults')
  BY <1>1
<1>3. kind \in TameKinds
  BY <1>2 DEF Tame, OnlyFaults
<1>4. kind = "signal" => ~Signalled
  BY <1>2 DEF Tame, AtMostOne, Signalled
<1> QED BY <1>3, <1>4

(* A step of one run: the clock stands still, and at most one fault is new. *)
LEMMA StepGrows ==
    ASSUME TypeOK, NEW r \in Runs,
           Start(r) \/ Proceed(r) \/ ReadFails(r) \/ Signal(r) \/ Kill(r)
    PROVE  Grows /\ UNCHANGED wall
<1>1. \A kind : Fault(kind) => Grows
  BY FaultsAssumption DEF Fault, Grows
<1>2. UNCHANGED faults => Grows
  BY DEF Grows
<1>3. CASE Start(r) \/ ReadFails(r) \/ Signal(r) \/ Kill(r) \/ DeadlineExpires(r)
  BY <1>1, <1>2, <1>3 DEF Start, ReadFails, Signal, Kill, DeadlineExpires
<1>4. CASE Claims(r)
  BY <1>1, <1>2, <1>4 DEF Claims, StaticInputs, AcquireRelease, Preflight, CheckClaim,
     Validate, MakeClaimDirectory, WriteReceipt, WriteClaim, WriteEvidence, WriteFails
<1>5. CASE Works(r)
  BY <1>1, <1>2, <1>5 DEF Works, SnapshotPackage, SnapshotConfig, SnapshotWrite, Install,
     Command, MarkDelivered, Validate, PersistDelivered, PersistReceipt, PushConfig,
     PublishConfig, WriteFails
<1>6. CASE Accepts(r)
  BY <1>1, <1>2, <1>6 DEF Accepts, VerifyIdentity, Launch, PressHome, PressBack, Restart,
     Reboot, VerifyBoot, Soak, CompleteReceipt, PersistCompleted, Command, Validate,
     PersistReceipt, WriteFails
<1>7. CASE Recovers(r)
  BY <1>1, <1>2, <1>7 DEF Recovers, RestorePackage, PushPrior, MovePrior,
     RestoreForeground, RecordRollback
<1>8. CASE Finishes(r)
  BY <1>1, <1>2, <1>8 DEF Finishes, FinalizeReceipt, PersistFinalized, FinishClaim,
     FinishEvidence, FinishReclaim, Report, Cleanup
<1> QED BY <1>3, <1>4, <1>5, <1>6, <1>7, <1>8 DEF Proceed
-----------------------------------------------------------------------------
(* A run without a claim decides nothing from the directory of another.     *)
LEMMA DecidedWithout ==
    ASSUME NEW s, s # "write_receipt", NEW m, ~m.holds, NEW d, Decided(s, m, d), NEW e
    PROVE  Decided(s, m, e)
<1>1. Trying(s, m, e)
  BY DEF Decided, Trying
<1>2. Settling(s, m, e)
  BY DEF Decided, Settling
<1> QED BY <1>1, <1>2 DEF Decided

(* A step of one run r to a memory m and a stage s, which may change the    *)
(* device once r has touched it, and r's own directory.                     *)
LEMMA StepOutcome ==
    ASSUME TypeOK, ClaimInv, OutcomeInv,
           NEW r \in Runs, NEW m, NEW s, NEW d, Step(r, m, s),
           disk' = [disk EXCEPT ![Mine(r)] = d],
           d = disk[Mine(r)] \/ Owns(r) \/ ~disk[Mine(r)].dir,
           Unclaimed(d),
           device' = device \/ m.touched, run[r].touched => m.touched,
           Grows, UNCHANGED wall,
           Decided(s, m, d),
           Alone(r) => OnDevice(r, s, m, device'),
           Tame' /\ m.holds => Agrees(s, m, d, Signalled'),
           OnlyFaults(TameKinds) => Dated(m, wall)
    PROVE  OutcomeInv'
<1>1. pc' = [pc EXCEPT ![r] = s] /\ run' = [run EXCEPT ![r] = m]
  BY DEF Step
<1>2. \A q \in Runs : Mine(q) \in Approvals /\ Mine(q) = ApprovalOf[q]
  BY RunsAssumption DEF Mine
<1>3. pc'[r] = s /\ run'[r] = m /\ disk'[Mine(r)] = d
  BY <1>1, <1>2 DEF TypeOK
<1>4. ASSUME NEW q \in Runs, q # r
      PROVE  /\ pc'[q] = pc[q] /\ run'[q] = run[q]
             /\ Owns(q) => disk'[Mine(q)] = disk[Mine(q)]
  <2>1. pc'[q] = pc[q] /\ run'[q] = run[q]
    BY <1>1, <1>4 DEF TypeOK
  <2>2. ASSUME Owns(q), Mine(q) # Mine(r)
        PROVE  disk'[Mine(q)] = disk[Mine(q)]
    BY <1>2, <2>2 DEF TypeOK
  <2>3. ASSUME Owns(q), Mine(q) = Mine(r)
        PROVE  disk'[Mine(q)] = disk[Mine(q)]
    <3>1. ~Owns(r) /\ disk[Mine(r)].dir
      BY <1>2, <1>4, <2>3 DEF ClaimInv, OneExecutorPerApproval
    <3> QED BY <1>3, <2>3, <3>1
  <2> QED BY <2>1, <2>2, <2>3
<1>5. /\ OnlyFaults(TameKinds)' => OnlyFaults(TameKinds)
      /\ Tame' => Tame
      /\ Signalled => Signalled'
  BY FaultsGrow
<1>6. DecidedInv'
  <2>1. ASSUME NEW a \in Approvals PROVE Unclaimed(disk'[a])
    BY <1>2 DEF TypeOK, OutcomeInv, DecidedInv
  <2>2. ASSUME NEW q \in Runs PROVE Decided(pc'[q], run'[q], disk'[Mine(q)])
    <3>1. CASE q = r
      BY <1>3, <3>1
    <3>2. CASE q # r /\ Owns(q)
      BY <1>4, <3>2 DEF OutcomeInv, DecidedInv
    <3>3. CASE q # r /\ ~Owns(q)
      <4>1. Decided(pc[q], run[q], disk[Mine(q)]) /\ ~run[q].holds /\ pc[q] # "write_receipt"
        BY <3>3 DEF OutcomeInv, DecidedInv, Owns
      <4>2. Decided(pc[q], run[q], disk'[Mine(q)])
        BY <4>1, DecidedWithout
      <4> QED BY <1>4, <3>3, <4>2
    <3> QED BY <3>1, <3>2, <3>3
  <2> QED BY <2>1, <2>2 DEF DecidedInv, Mine
<1>7. DeviceInv'
  <2> SUFFICES ASSUME NEW q \in Runs, Alone(q)'
               PROVE  OnDevice(q, pc'[q], run'[q], device')
    BY DEF DeviceInv, OnDevice, Mine
  <2>1. CASE q = r
    <3>1. Alone(r)
      BY <1>4, <2>1 DEF Alone
    <3> QED BY <1>3, <2>1, <3>1
  <2>2. CASE q # r
    <3>1. ~m.touched
      BY <1>3, <2>2 DEF Alone
    <3>2. Alone(q)
      BY <1>4, <2>2, <3>1 DEF Alone
    <3>3. OnDevice(q, pc[q], run[q], device) /\ device' = device
      BY <3>1, <3>2 DEF OutcomeInv, DeviceInv
    <3> QED BY <1>4, <2>2, <3>3
  <2> QED BY <2>1, <2>2
<1>8. AgreeInv'
  <2> SUFFICES ASSUME Tame', NEW q \in Runs, run'[q].holds
               PROVE  Agrees(pc'[q], run'[q], disk'[Mine(q)], Signalled')
    BY DEF AgreeInv, Mine
  <2>1. CASE q = r
    BY <1>3, <2>1
  <2>2. CASE q # r
    <3>1. run[q].holds /\ Owns(q)
      BY <1>4, <2>2 DEF Owns
    <3>2. Agrees(pc[q], run[q], disk[Mine(q)], Signalled)
      BY <1>5, <3>1 DEF OutcomeInv, AgreeInv
    <3>3. Agrees(pc[q], run[q], disk[Mine(q)], Signalled')
      BY <1>5, <3>2 DEF Agrees
    <3> QED BY <1>4, <2>2, <3>1, <3>3
  <2> QED BY <2>1, <2>2
<1>9. DatedInv'
  <2> SUFFICES ASSUME OnlyFaults(TameKinds)', NEW q \in Runs
               PROVE  Dated(run'[q], wall')
    BY DEF OutcomeInv, DatedInv
  <2>1. OnlyFaults(TameKinds)
    BY <1>5
  <2>2. CASE q = r
    BY <1>3, <2>1, <2>2
  <2>3. CASE q # r
    BY <1>4, <2>1, <2>3 DEF OutcomeInv, DatedInv
  <2> QED BY <2>2, <2>3
<1> QED BY <1>6, <1>7, <1>8, <1>9 DEF OutcomeInv

(* Stages of run()'s try are no others.                                     *)
LEMMA StagesApart ==
    /\ \A s \in TryStages \cup {"idle"} :
          s \notin RecoverStages \cup FinishStages \cup EndStages \cup {"cleanup"}
    /\ \A s \in RecoverStages :
          s \notin FinishStages \cup EndStages \cup {"cleanup", "idle"} /\ s \in TouchedStages
    /\ \A s \in FinishStages :
          s \notin EndStages \cup TouchedStages \cup {"cleanup", "idle"}
    /\ \A s \in EndStages \cup {"cleanup"} : s \notin TouchedStages
BY DEF TryStages, ClaimStages, SnapshotStages, InstallStages, AcceptStages, RecoverStages,
       FinishStages, EndStages, TouchedStages

(* What holds of one run before a step.                                     *)
LEMMA OutcomeBefore ==
    ASSUME TypeOK, OutcomeInv, NEW r \in Runs
    PROVE  /\ run[r] \in Memories /\ Mine(r) \in Approvals
           /\ disk[Mine(r)] \in Directories /\ wall \in Nat /\ device \in Devices
           /\ Decided(pc[r], run[r], disk[Mine(r)])
           /\ Unclaimed(disk[Mine(r)])
           /\ Alone(r) => OnDevice(r, pc[r], run[r], device)
           /\ Tame /\ run[r].holds => Agrees(pc[r], run[r], disk[Mine(r)], Signalled)
           /\ OnlyFaults(TameKinds) => Dated(run[r], wall)
<1>1. Mine(r) \in Approvals
  BY RunsAssumption DEF Mine
<1> QED BY <1>1 DEF TypeOK, OutcomeInv, DecidedInv, DeviceInv, AgreeInv, DatedInv

(* An exception of a run that restored nothing and reported nothing.        *)
LEMMA FailOutcome ==
    ASSUME TypeOK, ClaimInv, OutcomeInv,
           NEW r \in Runs, NEW m \in Memories, NEW f \in Failures \ {"none"}, Fail(r, m, f),
           UNCHANGED disk, device' = device \/ m.touched, run[r].touched => m.touched,
           Grows, UNCHANGED wall,
           Unrestored(m), m.exit = "running",
           m.holds => m.claim # "none" /\ disk[Mine(r)].receipt.state # "rolled_back",
           Tame' /\ m.holds /\ disk[Mine(r)].receipt.verification = "passed" =>
               Signalled' /\ m.doc = disk[Mine(r)].receipt,
           OnlyFaults(TameKinds) => Dated(m, wall)
    PROVE  OutcomeInv'
<1> DEFINE d == disk[Mine(r)]
           n == [m EXCEPT !.failure = f]
           k == IF m.touched THEN Recovering(n) ELSE n
           s == IF m.touched THEN "rb_apk" ELSE "fin_receipt"
<1>1. Step(r, k, s)
  BY DEF Fail
<1>2. disk' = [disk EXCEPT ![Mine(r)] = d] /\ Unclaimed(d)
  BY OutcomeBefore DEF TypeOK
<1>3. /\ k.doc = m.doc /\ k.exit = "running" /\ k.holds = m.holds /\ k.claim = m.claim
      /\ k.touched = m.touched /\ k.started = m.started /\ k.failure = f
      /\ k.rb.apk # "restored" /\ k.rb.config # "restored" /\ ~k.pushed
  BY DEF Memories, Recovering, Unrestored
<1>4. (s = "rb_apk" /\ m.touched) \/ s = "fin_receipt"
  OBVIOUS
<1> HIDE DEF k, s, d, n
<1>5. /\ s \notin TryStages \cup {"idle"}
      /\ s \in TouchedStages => m.touched
      /\ s \in {"rb_apk", "fin_receipt"}
  BY <1>4, StagesApart DEF RecoverStages, FinishStages
<1>6. m.doc.state # "rolled_back"
  BY DEF Unrestored
<1>7. Decided(s, k, d)
  <2>1. Trying(s, k, d)
    BY <1>5 DEF Trying
  <2>2. Restoring(s, k)
    BY <1>3, <1>5, <1>6 DEF Restoring, Unrestored
  <2>3. Settling(s, k, d)
    BY <1>3, <1>5 DEF Settling
  <2> QED BY <1>3, <1>5, <2>1, <2>2, <2>3 DEF Decided, d
<1>8. OnDevice(r, s, k, device')
  BY <1>3, <1>5 DEF OnDevice, Shown
<1>9. Tame' /\ k.holds => Agrees(s, k, d, Signalled')
  BY <1>3, <1>5 DEF Agrees, d
<1>10. OnlyFaults(TameKinds) => Dated(k, wall)
  BY <1>3 DEF Dated
<1> QED BY <1>1, <1>2, <1>3, <1>7, <1>8, <1>9, <1>10, StepOutcome DEF d

(* A step inside the try of run().                                          *)
LEMMA TryOutcome ==
    ASSUME TypeOK, ClaimInv, OutcomeInv,
           NEW r \in Runs, NEW m \in Memories, NEW s \in TryStages, NEW d, Step(r, m, s),
           pc[r] \in TryStages \cup {"idle"},
           disk' = [disk EXCEPT ![Mine(r)] = d],
           d = disk[Mine(r)] \/ Owns(r) \/ ~disk[Mine(r)].dir,
           Unclaimed(d),
           device' = device \/ m.touched, run[r].touched => m.touched,
           Grows, UNCHANGED wall,
           m.failure = "none", m.exit = "running", Unrestored(m),
           m.holds => m.claim # "none" /\ Open(d),
           (m.doc.verification = "passed") <=> (s = "complete_write"),
           s = "write_receipt" => d.receipt = NoReceipt,
           s \in TouchedStages => m.touched,
           s \in {"complete", "complete_write"} =>
               (Alone(r) => Shows(device', Mine(r), TRUE)),
           OnlyFaults(TameKinds) => Dated(m, wall)
    PROVE  OutcomeInv'
<1>1. s \notin RecoverStages \cup FinishStages \cup EndStages \cup {"cleanup", "idle"}
  <2>1. s # "idle"
    BY DEF TryStages, ClaimStages, SnapshotStages, InstallStages, AcceptStages
  <2> QED BY <2>1, StagesApart
<1>2. /\ s \notin {"rb_apk", "rb_push", "rb_move", "fin_receipt", "fin_receipt_write",
                   "fin_claim", "fin_evidence", "fin_reclaim", "fin_out", "cleanup", "done"}
  BY <1>1 DEF RecoverStages, FinishStages, EndStages
<1>3. Decided(s, m, d)
  <2>1. Trying(s, m, d)
    BY DEF Trying
  <2>2. Restoring(s, m)
    BY <1>1, <1>2 DEF Restoring, Unrestored
  <2>3. Settling(s, m, d)
    BY <1>1, <1>2 DEF Settling
  <2>4. m.holds => d.receipt.state # "rolled_back"
    BY DEF Open
  <2> QED BY <2>1, <2>2, <2>3, <2>4 DEF Decided
<1>4. Alone(r) => OnDevice(r, s, m, device')
  BY <1>1 DEF OnDevice, Shown, Unrestored
<1>5. Agrees(s, m, d, Signalled')
  BY <1>1, <1>2 DEF Agrees
<1> QED BY <1>3, <1>4, <1>5, StepOutcome
-----------------------------------------------------------------------------
(* What a step of the try leaves of a memory: the failure, what was         *)
(* restored, the claim and the dates.                                       *)
Continued(m, m0) ==
    /\ m.failure = m0.failure /\ m.exit = m0.exit
    /\ m.rb = m0.rb /\ m.pushed = m0.pushed
    /\ m.holds = m0.holds /\ m.claim = m0.claim
    /\ m0.touched => m.touched
    /\ m.doc = m0.doc /\ m.started = m0.started

LEMMA ElapseContinued ==
    ASSUME NEW m0 \in Memories, NEW n \in Nat, NEW m \in Elapse(m0, n)
    PROVE  m \in Memories /\ Continued(m, m0) /\ m.touched = m0.touched
           /\ m.prior = m0.prior
<1>1. m \in Memories /\ m = [m0 EXCEPT !.left = m.left]
  BY ElapseTyped
<1> QED BY <1>1 DEF Memories, Continued

(* What a run in the try, and one that just fails out of it, starts from.   *)
LEMMA TryBefore ==
    ASSUME TypeOK, OutcomeInv, NEW r \in Runs, pc[r] \in TryStages \cup {"idle"},
           NEW m, Continued(m, run[r])
    PROVE  /\ m.failure = "none" /\ m.exit = "running" /\ Unrestored(m)
           /\ m.holds => m.claim # "none" /\ Open(disk[Mine(r)])
           /\ (m.doc.verification = "passed") <=> (pc[r] = "complete_write")
           /\ pc[r] = "write_receipt" => disk[Mine(r)].receipt = NoReceipt
           /\ pc[r] \in TouchedStages => m.touched
           /\ run[r].touched => m.touched
           /\ OnlyFaults(TameKinds) => Dated(m, wall)
<1>1. Decided(pc[r], run[r], disk[Mine(r)])
  BY OutcomeBefore
<1>2. Unrestored(run[r]) /\ run[r].failure = "none"
  BY <1>1 DEF Decided, Trying, Restoring
<1>3. OnlyFaults(TameKinds) => Dated(run[r], wall)
  BY OutcomeBefore
<1> QED BY <1>1, <1>2, <1>3 DEF Continued, Decided, Trying, Unrestored, Dated

(* A stage of the try that writes no file.                                  *)
LEMMA QuietTryOutcome ==
    ASSUME TypeOK, ClaimInv, OutcomeInv,
           NEW r \in Runs, NEW m \in Memories, Continued(m, run[r]),
           NEW s \in TryStages \ {"write_receipt", "complete_write"}, Step(r, m, s),
           pc[r] \in (TryStages \cup {"idle"}) \ {"complete_write"},
           UNCHANGED disk, device' = device \/ m.touched, Grows, UNCHANGED wall,
           s \in TouchedStages => m.touched,
           s = "complete" => Shows(device', Mine(r), TRUE)
    PROVE  OutcomeInv'
<1>1. disk' = [disk EXCEPT ![Mine(r)] = disk[Mine(r)]] /\ Unclaimed(disk[Mine(r)])
  BY OutcomeBefore DEF TypeOK
<1> QED BY <1>1, TryBefore, TryOutcome

(* An exception inside the try.                                             *)
LEMMA TryFailOutcome ==
    ASSUME TypeOK, ClaimInv, OutcomeInv,
           NEW r \in Runs, NEW m \in Memories, Continued(m, run[r]),
           NEW f \in Failures \ {"none"}, Fail(r, m, f),
           pc[r] \in TryStages \cup {"idle"},
           UNCHANGED disk, device' = device \/ m.touched, Grows, UNCHANGED wall
    PROVE  OutcomeInv'
BY TryBefore, FailOutcome DEF Open

LEMMA CommandOutcome ==
    ASSUME TypeOK, ClaimInv, OutcomeInv,
           NEW r \in Runs, NEW m0 \in Memories, Continued(m0, run[r]), m0.touched,
           NEW effect, NEW partial, NEW accepted,
           NEW s \in TryStages \ {"write_receipt", "complete_write"},
           Command(r, m0, CommandTicks, effect, partial, accepted, s),
           pc[r] \in TryStages \ {"complete_write"},
           Grows, UNCHANGED wall,
           s = "complete" /\ accepted => Shows(effect, Mine(r), TRUE)
    PROVE  OutcomeInv'
<1>1. PICK m \in Elapse(m0, CommandTicks) :
          \/ Step(r, m, s) /\ accepted /\ device' = effect
          \/ Fail(r, m, "failed")
  BY DEF Command
<1>2. m \in Memories /\ Continued(m, run[r]) /\ m.touched
  BY <1>1, ElapseContinued, TicksAssumption DEF Continued
<1>3. UNCHANGED disk /\ "failed" \in Failures \ {"none"}
  BY DEF Command, Failures
<1>4. CASE Step(r, m, s) /\ accepted /\ device' = effect
  BY <1>2, <1>3, <1>4, QuietTryOutcome
<1>5. CASE Fail(r, m, "failed")
  BY <1>2, <1>3, <1>5, TryFailOutcome
<1> QED BY <1>1, <1>4, <1>5

LEMMA WriteFailsOutcome ==
    ASSUME TypeOK, ClaimInv, OutcomeInv,
           NEW r \in Runs, NEW m \in Memories, Continued(m, run[r]),
           NEW f \in Failures \ {"none"}, WriteFails(r, m, f),
           pc[r] \in TryStages, UNCHANGED device, Grows, UNCHANGED wall
    PROVE  OutcomeInv'
BY TryFailOutcome DEF WriteFails
-----------------------------------------------------------------------------
(* A stage of the try in which the owner writes its claim or its evidence.  *)
LEMMA OwnTryOutcome ==
    ASSUME TypeOK, ClaimInv, OutcomeInv,
           NEW r \in Runs, NEW m \in Memories, Continued(m, run[r]),
           NEW s \in TryStages \ {"write_receipt", "complete", "complete_write"},
           Step(r, m, s), pc[r] \in TryStages \ {"complete_write"}, Owns(r),
           NEW d, disk' = [disk EXCEPT ![Mine(r)] = d],
           d.receipt = disk[Mine(r)].receipt, d.dir = disk[Mine(r)].dir,
           UNCHANGED device, Grows, UNCHANGED wall, s \in TouchedStages => m.touched
    PROVE  OutcomeInv'
<1>1. Unclaimed(d)
  BY OutcomeBefore DEF Unclaimed
<1>2. m.holds => Open(d)
  BY TryBefore DEF Open
<1> QED BY <1>1, <1>2, TryBefore, TryOutcome

(* The validator decides on a new document of the try.                      *)
LEMMA ValidateOutcome ==
    ASSUME TypeOK, ClaimInv, OutcomeInv,
           NEW r \in Runs, NEW doc \in Receipts, NEW m, m = [run[r] EXCEPT !.doc = doc],
           NEW s \in TryStages \ {"write_receipt"}, Validate(r, m, s),
           pc[r] \in TryStages \ {"complete_write"},
           UNCHANGED <<disk, device, wall>>, Grows,
           doc.state # "rolled_back",
           (doc.verification = "passed") <=> (s = "complete_write"),
           s \in TouchedStages => run[r].touched,
           s \in {"complete", "complete_write"} =>
               (Alone(r) => Shows(device, Mine(r), TRUE)),
           OnlyFaults(TameKinds) =>
               \A i \in 1..Len(doc.history) : doc.history[i].at <= wall
    PROVE  OutcomeInv'
<1> DEFINE m0 == run[r]
<1>1. /\ m0 \in Memories /\ Unclaimed(disk[Mine(r)])
      /\ disk' = [disk EXCEPT ![Mine(r)] = disk[Mine(r)]]
  BY OutcomeBefore DEF TypeOK
<1>2. /\ m \in Memories /\ m.doc = doc
      /\ m.failure = m0.failure /\ m.exit = m0.exit /\ m.rb = m0.rb
      /\ m.pushed = m0.pushed /\ m.holds = m0.holds /\ m.claim = m0.claim
      /\ m.touched = m0.touched /\ m.started = m0.started
  BY <1>1 DEF Memories
<1>3. /\ m0.failure = "none" /\ m0.exit = "running" /\ Unrestored(m0)
      /\ m0.holds => m0.claim # "none" /\ Open(disk[Mine(r)])
      /\ OnlyFaults(TameKinds) => Dated(m0, wall)
  BY TryBefore DEF Continued
<1>4. /\ Unrestored(m)
      /\ OnlyFaults(TameKinds) => Dated(m, wall)
  BY <1>2, <1>3 DEF Unrestored, Dated
<1>5. CASE Step(r, m, s)
  BY <1>1, <1>2, <1>3, <1>4, <1>5, TryOutcome
<1>6. CASE Fail(r, m, "failed")
  <2>1. "failed" \in Failures \ {"none"}
    BY DEF Failures
  <2> QED BY <1>1, <1>2, <1>3, <1>4, <1>6, <2>1, FailOutcome DEF Open
<1> QED BY <1>5, <1>6 DEF Validate

(* The stages up to the claim keep the outcome.                             *)
LEMMA ClaimsOutcome ==
    ASSUME TypeOK, ClaimInv, RecordInv, OutcomeInv, NEW r \in Runs, Claims(r)
    PROVE  OutcomeInv'
<1> DEFINE m0 == run[r]
           d0 == disk[Mine(r)]
<1>1. /\ m0 \in Memories /\ Mine(r) \in Approvals /\ d0 \in Directories /\ wall \in Nat
      /\ m0.doc \in Receipts /\ Unclaimed(d0) /\ Continued(m0, m0)
  BY OutcomeBefore DEF Continued, Memories
<1>2. Grows /\ UNCHANGED wall
  BY StepGrows DEF Proceed
<1>3. {"failed", "usage", "replay"} \subseteq Failures \ {"none"} /\ CommandTicks \in Nat
  BY TicksAssumption DEF Failures
<1>4. /\ {"inputs", "release", "preflight", "check", "mkdir", "write_claim",
          "write_evidence", "snapshot_apk"} \subseteq
            TryStages \ ({"write_receipt", "complete", "complete_write"} \cup TouchedStages)
      /\ "write_receipt" \in TryStages \ TouchedStages
      /\ {"write_claim", "write_evidence"} \subseteq OwnerStages
  BY DEF TryStages, ClaimStages, SnapshotStages, TouchedStages, AcceptStages,
         RecoverStages, OwnerStages
<1>5. CASE StaticInputs(r)
  <2>1. PICK m \in Elapse(m0, CommandTicks) :
            IF Fresh(Mine(r))
            THEN Step(r, [m EXCEPT !.doc = PublishedReceipt(m.started)], "release")
            ELSE Fail(r, m, "failed")
    BY <1>5 DEF StaticInputs
  <2>2. m \in Memories /\ Continued(m, m0) /\ m.touched = m0.touched
    BY <1>1, <1>3, ElapseContinued
  <2>3. pc[r] = "inputs" /\ UNCHANGED <<disk, device>>
    BY <1>5 DEF StaticInputs
  <2>4. CASE Fail(r, m, "failed")
    BY <1>2, <1>3, <1>4, <2>2, <2>3, <2>4, TryFailOutcome
  <2>5. CASE Step(r, [m EXCEPT !.doc = PublishedReceipt(m.started)], "release")
    <3> DEFINE k == [m EXCEPT !.doc = PublishedReceipt(m.started)]
    <3>1. PublishedReceipt(m.started) \in Receipts
      BY <2>2 DEF PublishedReceipt, Receipts, HistoryEntries, DeliveryStates,
         VerificationStates, NoTime, Memories
    <3>2. /\ k \in Memories /\ k.doc = PublishedReceipt(m.started)
          /\ k.failure = m.failure /\ k.exit = m.exit /\ k.rb = m.rb
          /\ k.pushed = m.pushed /\ k.holds = m.holds /\ k.claim = m.claim
          /\ k.touched = m.touched /\ k.started = m.started
      BY <2>2, <3>1 DEF Memories
    <3> HIDE DEF k
    <3>3. /\ m.failure = "none" /\ m.exit = "running" /\ Unrestored(m)
          /\ m.holds => m.claim # "none" /\ Open(d0)
          /\ OnlyFaults(TameKinds) => m.started <= wall
      BY <1>4, <2>2, <2>3, TryBefore DEF Dated
    <3>4. k.doc.state = "published" /\ k.doc.verification = "pending"
      BY <3>2 DEF PublishedReceipt
    <3>5. OnlyFaults(TameKinds) => Dated(k, wall)
      BY <3>2, <3>3 DEF Dated, PublishedReceipt
    <3>6. Step(r, k, "release")
      BY <2>5 DEF k
    <3>7. disk' = [disk EXCEPT ![Mine(r)] = d0]
      BY <1>1, <2>3 DEF TypeOK
    <3> QED BY <1>1, <1>2, <1>4, <2>2, <2>3, <3>2, <3>3, <3>4, <3>5, <3>6, <3>7, TryOutcome
            DEF Unrestored
  <2> QED BY <2>1, <2>4, <2>5
<1>6. CASE AcquireRelease(r) \/ Preflight(r)
  <2>1. PICK m \in Elapse(m0, CommandTicks), s \in {"preflight", "check"} : Step(r, m, s)
    BY <1>6 DEF AcquireRelease, Preflight
  <2>2. pc[r] \in {"release", "preflight"} /\ UNCHANGED <<disk, device>>
    BY <1>6 DEF AcquireRelease, Preflight
  <2>3. m \in Memories /\ Continued(m, m0)
    BY <1>1, <1>3, ElapseContinued
  <2> QED BY <1>2, <1>4, <2>1, <2>2, <2>3, QuietTryOutcome
<1>7. CASE CheckClaim(r)
  <2>1. pc[r] = "check" /\ UNCHANGED <<disk, device>>
    BY <1>7 DEF CheckClaim
  <2>2. CASE Fail(r, m0, "failed")
    BY <1>1, <1>2, <1>3, <1>4, <2>1, <2>2, TryFailOutcome
  <2>3. CASE Step(r, m0, "mkdir")
    BY <1>1, <1>2, <1>4, <2>1, <2>3, QuietTryOutcome
  <2> QED BY <1>7, <2>2, <2>3 DEF CheckClaim, Validate
<1>8. CASE MakeClaimDirectory(r)
  <2>1. pc[r] = "mkdir" /\ UNCHANGED device
    BY <1>8 DEF MakeClaimDirectory
  <2>2. CASE ~d0.dir /\ disk' = [disk EXCEPT ![Mine(r)].dir = TRUE]
             /\ Step(r, m0, "write_receipt")
    <3> DEFINE d == [d0 EXCEPT !.dir = TRUE]
    <3>1. disk' = [disk EXCEPT ![Mine(r)] = d]
      BY <2>2
    <3>2. d.receipt = d0.receipt /\ d.dir /\ d.receipt = NoReceipt
      BY <1>1, <2>2 DEF Directories, Unclaimed
    <3> HIDE DEF d
    <3>3. Unclaimed(d) /\ Open(d)
      BY <3>2 DEF Unclaimed, Open, NoReceipt
    <3>4. m0.doc.verification # "passed"
      BY <1>1, <1>4, <2>1, TryBefore
    <3> QED BY <1>1, <1>2, <1>4, <2>1, <2>2, <3>1, <3>2, <3>3, <3>4, TryBefore, TryOutcome
  <2>3. CASE UNCHANGED disk /\ \E f \in {"replay", "usage"} : Fail(r, m0, f)
    BY <1>1, <1>2, <1>3, <1>4, <2>1, <2>3, TryFailOutcome
  <2> QED BY <1>8, <2>2, <2>3 DEF MakeClaimDirectory
<1>9. CASE WriteReceipt(r)
  <2> DEFINE m == [m0 EXCEPT !.holds = TRUE, !.claim = "executing"]
  <2>1. pc[r] = "write_receipt" /\ Owns(r) /\ UNCHANGED device
    BY <1>9 DEF WriteReceipt, Owns
  <2>2. /\ m \in Memories /\ m.holds = TRUE /\ m.claim = "executing" /\ m.doc = m0.doc
        /\ m.touched = m0.touched /\ m.started = m0.started
        /\ m.failure = m0.failure /\ m.exit = m0.exit /\ m.rb = m0.rb
        /\ m.pushed = m0.pushed
    BY <1>1 DEF Memories, ClaimStates
  <2>3. \/ disk' = [disk EXCEPT ![Mine(r)].receipt = m.doc] /\ Step(r, m, "write_claim")
        \/ WriteFails(r, m, "usage")
    BY <1>9 DEF WriteReceipt
  <2> HIDE DEF m
  <2>4. /\ m0.failure = "none" /\ m0.exit = "running" /\ Unrestored(m0)
        /\ m0.doc.verification # "passed" /\ d0.receipt = NoReceipt
        /\ OnlyFaults(TameKinds) => Dated(m0, wall)
    BY <1>1, <1>4, <2>1, TryBefore
  <2>5. Unrestored(m) /\ (OnlyFaults(TameKinds) => Dated(m, wall))
    BY <2>2, <2>4 DEF Unrestored, Dated
  <2>6. CASE disk' = [disk EXCEPT ![Mine(r)].receipt = m.doc] /\ Step(r, m, "write_claim")
    <3> DEFINE d == [d0 EXCEPT !.receipt = m.doc]
    <3>1. disk' = [disk EXCEPT ![Mine(r)] = d]
      BY <2>6
    <3>2. d.receipt = m.doc /\ d.dir = d0.dir /\ d0.dir
      BY <1>1, <2>1 DEF Directories, ClaimInv
    <3> HIDE DEF d
    <3>3. Unclaimed(d) /\ Open(d)
      BY <2>2, <2>4, <3>2 DEF Unclaimed, Open, Unrestored
    <3> QED BY <1>2, <1>4, <2>1, <2>2, <2>4, <2>5, <2>6, <3>1, <3>3, TryOutcome
  <2>7. CASE WriteFails(r, m, "usage")
    <3>1. d0.receipt.verification # "passed" /\ d0.receipt.state # "rolled_back"
      BY <2>4 DEF NoReceipt
    <3> QED BY <1>2, <1>3, <2>1, <2>2, <2>4, <2>5, <2>7, <3>1, FailOutcome DEF WriteFails
  <2> QED BY <2>3, <2>6, <2>7
<1>10. CASE WriteClaim(r)
  <2>1. pc[r] = "write_claim" /\ Owns(r) /\ UNCHANGED device
    BY <1>4, <1>10, OwnersRun DEF WriteClaim
  <2>2. CASE WriteFails(r, m0, "usage")
    BY <1>1, <1>2, <1>3, <1>4, <2>1, <2>2, WriteFailsOutcome
  <2>3. CASE disk' = [disk EXCEPT ![Mine(r)].claim = [state |-> "executing", ok |-> FALSE]]
             /\ Step(r, m0, "write_evidence")
    <3> DEFINE d == [d0 EXCEPT !.claim = [state |-> "executing", ok |-> FALSE]]
    <3>1. disk' = [disk EXCEPT ![Mine(r)] = d]
      BY <2>3
    <3>2. d.receipt = d0.receipt /\ d.dir = d0.dir
      BY <1>1 DEF Directories
    <3> HIDE DEF d
    <3> QED BY <1>1, <1>2, <1>4, <2>1, <2>3, <3>1, <3>2, OwnTryOutcome
  <2> QED BY <1>10, <2>2, <2>3 DEF WriteClaim
<1>11. CASE WriteEvidence(r)
  <2>1. pc[r] = "write_evidence" /\ Owns(r) /\ UNCHANGED device
    BY <1>4, <1>11, OwnersRun DEF WriteEvidence
  <2>2. CASE WriteFails(r, m0, "failed")
    BY <1>1, <1>2, <1>3, <1>4, <2>1, <2>2, WriteFailsOutcome
  <2>3. CASE disk' = [disk EXCEPT ![Mine(r)].evidence = m0.evidence]
             /\ Step(r, m0, "snapshot_apk")
    <3> DEFINE d == [d0 EXCEPT !.evidence = m0.evidence]
    <3>1. disk' = [disk EXCEPT ![Mine(r)] = d]
      BY <2>3
    <3>2. d.receipt = d0.receipt /\ d.dir = d0.dir
      BY <1>1 DEF Directories
    <3> HIDE DEF d
    <3> QED BY <1>1, <1>2, <1>4, <2>1, <2>3, <3>1, <3>2, OwnTryOutcome
  <2> QED BY <1>11, <2>2, <2>3 DEF WriteEvidence
<1> QED BY <1>5, <1>6, <1>7, <1>8, <1>9, <1>10, <1>11 DEF Claims

(* The owner persists a receipt of the try.                                 *)
LEMMA PersistOutcome ==
    ASSUME TypeOK, ClaimInv, RecordInv, OutcomeInv, NEW r \in Runs,
           PersistDelivered(r) \/ PersistCompleted(r)
    PROVE  OutcomeInv'
<1> DEFINE m0 == run[r]
           d0 == disk[Mine(r)]
           d == [d0 EXCEPT !.receipt = m0.doc]
<1>1. /\ m0 \in Memories /\ d0 \in Directories /\ Unclaimed(d0) /\ Continued(m0, m0)
      /\ Alone(r) => OnDevice(r, pc[r], m0, device)
  BY OutcomeBefore DEF Continued
<1>2. Grows /\ UNCHANGED wall
  BY StepGrows DEF Proceed, Works, Accepts
<1>3. PICK s \in {"push", "fin_claim"} :
          /\ pc[r] = IF s = "push" THEN "deliver_write" ELSE "complete_write"
          /\ \/ disk' = [disk EXCEPT ![Mine(r)].receipt = m0.doc] /\ Step(r, m0, s)
             \/ WriteFails(r, m0, "failed")
          /\ UNCHANGED device
  BY DEF PersistDelivered, PersistCompleted, PersistReceipt
<1>4. /\ pc[r] \in TryStages \cap OwnerStages \cap TouchedStages
      /\ "push" \in TryStages
      /\ "failed" \in Failures \ {"none"}
  BY <1>3 DEF TryStages, OwnerStages, InstallStages, AcceptStages, TouchedStages, Failures
<1>5. Owns(r) /\ d0.dir /\ m0.holds
  BY <1>4, OwnersRun DEF ClaimInv, RecordInv, Recorded
<1>6. /\ m0.failure = "none" /\ m0.exit = "running" /\ Unrestored(m0)
      /\ m0.claim # "none" /\ m0.touched
      /\ (m0.doc.verification = "passed") <=> (pc[r] = "complete_write")
      /\ OnlyFaults(TameKinds) => Dated(m0, wall)
  BY <1>1, <1>4, <1>5, TryBefore
<1>7. /\ d.receipt = m0.doc /\ d.dir
  BY <1>1, <1>5 DEF Directories
<1>8. CASE WriteFails(r, m0, "failed")
  BY <1>1, <1>2, <1>3, <1>4, <1>8, WriteFailsOutcome
<1>9. CASE disk' = [disk EXCEPT ![Mine(r)].receipt = m0.doc] /\ Step(r, m0, s)
  <2>1. disk' = [disk EXCEPT ![Mine(r)] = d]
    BY <1>9
  <2> HIDE DEF d
  <2>2. Unclaimed(d)
    BY <1>7 DEF Unclaimed
  <2>3. CASE s = "push"
    <3>1. m0.doc.verification # "passed" /\ Open(d)
      BY <1>3, <1>6, <1>7, <2>3 DEF Open, Unrestored
    <3> QED BY <1>1, <1>2, <1>3, <1>4, <1>5, <1>6, <1>9, <2>1, <2>2, <2>3, <3>1, TryOutcome
  <2>4. CASE s = "fin_claim"
    <3>1. pc[r] = "complete_write" /\ m0.doc.verification = "passed"
      BY <1>3, <1>6, <2>4
    <3>2. /\ s \in FinishStages
          /\ s \notin TryStages \cup {"idle"} \cup RecoverStages \cup TouchedStages
      BY <2>4, StagesApart DEF FinishStages, TryStages, ClaimStages, SnapshotStages,
         InstallStages, AcceptStages, RecoverStages
    <3>3. Trying(s, m0, d)
      BY <3>2 DEF Trying
    <3>4. Restoring(s, m0)
      BY <1>6, <2>4, <3>2 DEF Restoring, Unrestored
    <3>5. Settling(s, m0, d)
      BY <1>5, <1>6, <1>7, <2>4, <3>1 DEF Settling
    <3>6. Decided(s, m0, d)
      BY <1>6, <1>7, <3>2, <3>3, <3>4, <3>5 DEF Decided
    <3>7. Alone(r) => OnDevice(r, s, m0, device)
      BY <1>1, <3>1 DEF OnDevice, Shown
    <3>8. Agrees(s, m0, d, Signalled')
      BY <1>6, <1>7, <2>4, <3>1, <3>2 DEF Agrees, ReceiptAgrees
    <3> QED BY <1>2, <1>3, <1>5, <1>6, <1>9, <2>1, <2>2, <3>6, <3>7, <3>8, StepOutcome
  <2> QED BY <1>3, <2>3, <2>4
<1> QED BY <1>3, <1>8, <1>9

(* The snapshot and the installation keep the outcome.                      *)
LEMMA WorksOutcome ==
    ASSUME TypeOK, ClaimInv, RecordInv, OutcomeInv, NEW r \in Runs, Works(r)
    PROVE  OutcomeInv'
<1> DEFINE m0 == run[r]
           d0 == disk[Mine(r)]
<1>1. /\ m0 \in Memories /\ Mine(r) \in Approvals /\ d0 \in Directories /\ wall \in Nat
      /\ m0.doc \in Receipts /\ m0.evidence \in EvidenceFiles /\ device \in Devices
      /\ Continued(m0, m0)
  BY OutcomeBefore DEF Continued, Memories
<1>2. Grows /\ UNCHANGED wall
  BY StepGrows DEF Proceed
<1>3. "failed" \in Failures \ {"none"} /\ CommandTicks \in Nat
  BY TicksAssumption DEF Failures
<1>4. /\ {"snapshot_apk", "snapshot_config", "snapshot_write", "install", "deliver",
          "deliver_write", "push", "publish", "identity"} \subseteq
            TryStages \ {"write_receipt", "complete", "complete_write"}
      /\ {"snapshot_config", "snapshot_write", "install"} \cap TouchedStages = {}
      /\ "snapshot_write" \in OwnerStages
      /\ {"deliver", "push", "publish"} \subseteq TouchedStages
  BY DEF TryStages, SnapshotStages, InstallStages, TouchedStages, AcceptStages,
         RecoverStages, OwnerStages
<1>5. pc[r] \in {"deliver", "push", "publish"} => m0.touched
  BY <1>1, <1>4, TryBefore
<1>6. CASE SnapshotPackage(r)
  <2>1. PICK m \in Elapse(m0, CommandTicks) :
            Step(r, [m EXCEPT !.prior.apk = device.apk, !.prior.fg = device.fg],
                 "snapshot_config")
    BY <1>6 DEF SnapshotPackage
  <2>2. m \in Memories /\ Continued(m, m0)
    BY <1>1, <1>3, ElapseContinued
  <2> DEFINE k == [m EXCEPT !.prior.apk = device.apk, !.prior.fg = device.fg]
  <2>3. k \in Memories /\ Continued(k, m0)
    BY <1>1, <2>2 DEF Memories, Devices, Continued
  <2> HIDE DEF k
  <2>4. Step(r, k, "snapshot_config")
    BY <2>1 DEF k
  <2> QED BY <1>2, <1>4, <1>6, <2>3, <2>4, QuietTryOutcome DEF SnapshotPackage
<1>7. CASE SnapshotConfig(r)
  <2>1. PICK m \in Elapse(m0, CommandTicks), config \in {device.config, "absent"} :
            Step(r, [m EXCEPT !.prior.config = config], "snapshot_write")
    BY <1>7 DEF SnapshotConfig
  <2>2. m \in Memories /\ Continued(m, m0)
    BY <1>1, <1>3, ElapseContinued
  <2> DEFINE k == [m EXCEPT !.prior.config = config]
  <2>3. k \in Memories /\ Continued(k, m0)
    BY <1>1, <2>2 DEF Memories, Devices, Contents, Continued
  <2> HIDE DEF k
  <2>4. Step(r, k, "snapshot_write")
    BY <2>1 DEF k
  <2> QED BY <1>2, <1>4, <1>7, <2>3, <2>4, QuietTryOutcome DEF SnapshotConfig
<1>8. CASE SnapshotWrite(r)
  <2> DEFINE m == [m0 EXCEPT !.evidence.prior = TRUE]
             d == [d0 EXCEPT !.evidence = m.evidence]
  <2>1. m \in Memories /\ Continued(m, m0)
    BY <1>1 DEF Memories, EvidenceFiles, Continued
  <2>2. pc[r] = "snapshot_write" /\ Owns(r) /\ UNCHANGED device
    BY <1>4, <1>8, OwnersRun DEF SnapshotWrite
  <2>3. CASE WriteFails(r, m, "failed")
    BY <1>2, <1>3, <1>4, <2>1, <2>2, <2>3, WriteFailsOutcome
  <2>4. CASE disk' = [disk EXCEPT ![Mine(r)].evidence = m.evidence] /\ Step(r, m, "install")
    <3>1. disk' = [disk EXCEPT ![Mine(r)] = d]
      BY <2>4
    <3>2. d.receipt = d0.receipt /\ d.dir = d0.dir
      BY <1>1 DEF Directories
    <3> HIDE DEF d, m
    <3> QED BY <1>2, <1>4, <2>1, <2>2, <2>4, <3>1, <3>2, OwnTryOutcome
  <2> QED BY <1>8, <2>3, <2>4 DEF SnapshotWrite
<1>9. CASE Install(r)
  <2> DEFINE m == [m0 EXCEPT !.touched = TRUE]
  <2>1. m \in Memories /\ Continued(m, m0) /\ m.touched
    BY <1>1 DEF Memories, Continued
  <2>2. /\ pc[r] = "install"
        /\ Command(r, m, CommandTicks, [device EXCEPT !.apk = "release"], {}, TRUE, "deliver")
    BY <1>9 DEF Install
  <2> HIDE DEF m
  <2> QED BY <1>2, <1>4, <2>1, <2>2, CommandOutcome
<1>10. CASE MarkDelivered(r)
  <2> DEFINE doc == Delivered(m0.doc)
             m == [m0 EXCEPT !.doc = doc]
  <2>1. doc \in Receipts
    BY <1>1, DeliveredTyped
  <2>2. /\ doc.state = "delivered" /\ doc.verification = m0.doc.verification
        /\ doc.history = Append(m0.doc.history, [state |-> "delivered", at |-> wall])
    BY <1>1 DEF Delivered, Receipts
  <2>3. pc[r] = "deliver" /\ Validate(r, m, "deliver_write") /\ UNCHANGED <<disk, device>>
    BY <1>10 DEF MarkDelivered
  <2>4. m0.doc.verification # "passed" /\ (OnlyFaults(TameKinds) => Dated(m0, wall))
    BY <1>1, <1>4, <2>3, TryBefore
  <2> HIDE DEF doc
  <2>5. OnlyFaults(TameKinds) => \A i \in 1..Len(doc.history) : doc.history[i].at <= wall
    BY <1>1, <2>2, <2>4 DEF Dated, Receipts
  <2> QED BY <1>2, <1>4, <1>5, <2>1, <2>2, <2>3, <2>4, <2>5, ValidateOutcome
<1>11. CASE PersistDelivered(r)
  BY <1>11, PersistOutcome
<1>12. CASE PushConfig(r)
  BY <1>1, <1>2, <1>4, <1>5, <1>12, CommandOutcome DEF PushConfig
<1>13. CASE PublishConfig(r)
  BY <1>1, <1>2, <1>4, <1>5, <1>13, CommandOutcome DEF PublishConfig
<1> QED BY <1>6, <1>7, <1>8, <1>9, <1>10, <1>11, <1>12, <1>13 DEF Works

(* The acceptance keeps the outcome.                                        *)
LEMMA AcceptsOutcome ==
    ASSUME TypeOK, ClaimInv, RecordInv, OutcomeInv, NEW r \in Runs, Accepts(r)
    PROVE  OutcomeInv'
<1> DEFINE m0 == run[r]
<1>1. /\ m0 \in Memories /\ wall \in Nat /\ m0.doc \in Receipts /\ Continued(m0, m0)
      /\ Alone(r) => OnDevice(r, pc[r], m0, device)
  BY OutcomeBefore DEF Continued, Memories
<1>2. Grows /\ UNCHANGED wall
  BY StepGrows DEF Proceed
<1>3. AcceptStages \subseteq TryStages /\ AcceptStages \subseteq TouchedStages
  BY DEF TryStages, TouchedStages
<1>4. "write_receipt" \notin AcceptStages
  BY DEF AcceptStages
<1>5. ASSUME NEW effect, NEW partial, NEW accepted,
             NEW s \in AcceptStages \ {"complete_write"},
             pc[r] \in AcceptStages \ {"complete_write"},
             Command(r, m0, CommandTicks, effect, partial, accepted, s),
             s = "complete" /\ accepted => Shows(effect, Mine(r), TRUE)
      PROVE  OutcomeInv'
  <2>1. m0.touched
    BY <1>1, <1>3, <1>5, TryBefore
  <2> QED BY <1>1, <1>2, <1>3, <1>4, <1>5, <2>1, CommandOutcome
<1>6. {"identity", "launch", "home", "restart_home", "back", "restart_back", "reboot",
       "boot", "soak", "complete"} = AcceptStages \ {"complete_write"}
  BY DEF AcceptStages
<1>7. CASE \/ VerifyIdentity(r) \/ Launch(r) \/ PressHome(r) \/ PressBack(r) \/ Reboot(r)
           \/ VerifyBoot(r) \/ Restart(r, "restart_home", "back")
           \/ Restart(r, "restart_back", "reboot")
  BY <1>5, <1>6, <1>7 DEF VerifyIdentity, Launch, PressHome, PressBack, Reboot, VerifyBoot,
     Restart
<1>8. CASE Soak(r)
  BY <1>5, <1>6, <1>8 DEF Soak
<1>9. CASE CompleteReceipt(r)
  <2> DEFINE doc == [m0.doc EXCEPT !.verification = "passed", !.verifiedAt = wall]
             m == [m0 EXCEPT !.doc = doc]
  <2>1. /\ doc \in Receipts /\ doc.state = m0.doc.state /\ doc.verification = "passed"
        /\ doc.history = m0.doc.history
    BY <1>1 DEF Receipts, VerificationStates
  <2>2. [m0 EXCEPT !.doc.verification = "passed", !.doc.verifiedAt = wall] = m
    BY <1>1 DEF Memories, Receipts
  <2>3. pc[r] = "complete" /\ Validate(r, m, "complete_write") /\ UNCHANGED <<disk, device>>
    BY <1>9, <2>2 DEF CompleteReceipt
  <2> HIDE DEF doc
  <2>4. /\ m0.touched /\ m0.doc.state # "rolled_back"
        /\ OnlyFaults(TameKinds) => Dated(m0, wall)
    BY <1>1, <1>3, <1>6, <2>3, TryBefore DEF Unrestored
  <2>5. Alone(r) => Shows(device, Mine(r), TRUE)
    BY <1>1, <2>3 DEF OnDevice, Shown
  <2>6. pc[r] \in TryStages \ {"complete_write"} /\ "complete_write" \in TryStages
    BY <1>3, <1>6, <2>3 DEF AcceptStages
  <2> QED BY <1>2, <2>1, <2>3, <2>4, <2>5, <2>6, ValidateOutcome DEF Dated
<1>10. CASE PersistCompleted(r)
  BY <1>10, PersistOutcome
<1> QED BY <1>7, <1>8, <1>9, <1>10 DEF Accepts
-----------------------------------------------------------------------------
(* What rollback() and finish() leave of a memory.                          *)
KeptFields(m, m0) ==
    /\ m.holds = m0.holds /\ m.touched = m0.touched /\ m.started = m0.started
    /\ m.prior = m0.prior /\ m.failure = m0.failure

(* A step of rollback(): what it restored is on the device.                 *)
LEMMA RecoverOutcome ==
    ASSUME TypeOK, ClaimInv, RecordInv, OutcomeInv,
           NEW r \in Runs, pc[r] \in RecoverStages,
           NEW m \in Memories, KeptFields(m, run[r]), m.doc = run[r].doc,
           m.claim = run[r].claim, m.exit = run[r].exit,
           NEW s \in (RecoverStages \ {"rb_apk"}) \cup {"fin_receipt"}, Step(r, m, s),
           UNCHANGED disk \/ disk' = [disk EXCEPT ![Mine(r)].evidence = m.evidence],
           Grows, UNCHANGED wall,
           s \in {"rb_push", "rb_move"} => m.rb.config # "restored",
           s = "rb_push" => ~m.pushed,
           m.pushed => m.staged = m.prior.config,
           Alone(r) =>
               /\ m.rb.apk = "restored" => device'.apk = m.prior.apk
               /\ m.rb.config = "restored" => device'.config = m.prior.config
    PROVE  OutcomeInv'
<1> DEFINE m0 == run[r]
           d0 == disk[Mine(r)]
<1>1. /\ Decided(pc[r], m0, d0) /\ Unclaimed(d0)
      /\ Tame /\ m0.holds => Agrees(pc[r], m0, d0, Signalled)
      /\ OnlyFaults(TameKinds) => Dated(m0, wall)
  BY OutcomeBefore
<1>2. Owns(r)
  BY OwnersRun DEF OwnerStages
<1> DEFINE d == disk'[Mine(r)]
<1>3. /\ disk' = [disk EXCEPT ![Mine(r)] = d]
       /\ d.receipt = d0.receipt /\ d.dir = d0.dir
  BY OutcomeBefore DEF TypeOK, Directories
<1> HIDE DEF d
<1>4. /\ m0.failure # "none" /\ m0.exit = "running" /\ m0.doc.state # "rolled_back"
      /\ m0.touched /\ (m0.holds => m0.claim # "none")
      /\ m0.holds => d0.receipt.state # "rolled_back"
  BY <1>1, StagesApart DEF Decided, Restoring
<1>5. /\ s \notin TryStages \cup {"idle"} \cup EndStages \cup {"cleanup"}
      /\ s \in RecoverStages \/ s = "fin_receipt"
      /\ s \notin {"rb_apk", "fin_receipt_write", "fin_claim", "fin_evidence",
                   "fin_reclaim", "fin_out", "cleanup", "done", "complete", "complete_write"}
  BY DEF RecoverStages, TryStages, ClaimStages, SnapshotStages, InstallStages,
         AcceptStages, EndStages
<1>6. Decided(s, m, d)
  <2>1. Trying(s, m, d)
    BY <1>5 DEF Trying
  <2>2. Restoring(s, m)
    BY <1>4, <1>5 DEF Restoring, KeptFields
  <2>3. Settling(s, m, d)
    BY <1>4, <1>5 DEF Settling, KeptFields
  <2> QED BY <1>3, <1>4, <2>1, <2>2, <2>3 DEF Decided, KeptFields
<1>7. Alone(r) => OnDevice(r, s, m, device')
  BY <1>4, <1>5 DEF OnDevice, Shown, KeptFields
<1>8. Tame' /\ m.holds => Agrees(s, m, d, Signalled')
  <2>1. Tame' => Tame /\ (Signalled => Signalled')
    BY FaultsGrow
  <2> QED BY <1>1, <1>5, <1>3, <2>1 DEF Agrees, KeptFields
<1>9. OnlyFaults(TameKinds) => Dated(m, wall)
  BY <1>1 DEF Dated, KeptFields
<1>10. Unclaimed(d)
  BY <1>1, <1>3 DEF Unclaimed
<1> QED BY <1>2, <1>3, <1>4, <1>6, <1>7, <1>8, <1>9, <1>10, StepOutcome DEF KeptFields

(* The rollback keeps the outcome.                                          *)
LEMMA RecoversOutcome ==
    ASSUME TypeOK, ClaimInv, RecordInv, OutcomeInv, NEW r \in Runs, Recovers(r)
    PROVE  OutcomeInv'
<1> DEFINE m0 == run[r]
           d0 == disk[Mine(r)]
<1>1. /\ m0 \in Memories /\ Mine(r) \in Approvals /\ d0 \in Directories
      /\ device \in Devices
      /\ Decided(pc[r], m0, d0)
      /\ Alone(r) => OnDevice(r, pc[r], m0, device)
  BY OutcomeBefore
<1>2. Grows /\ UNCHANGED wall
  BY StepGrows DEF Proceed
<1>3. InstallTicks \in Nat /\ QuickTicks \in Nat
  BY TicksAssumption
<1>4. /\ {"rb_apk", "rb_push", "rb_move", "rb_start", "rb_write"} = RecoverStages
      /\ {"restored", "failed", "not_available"} \subseteq Statuses
      /\ {"absent", "torn", m0.prior.config} \subseteq Contents
  BY <1>1 DEF RecoverStages, Statuses, Contents, Memories
<1>5. /\ m0.pushed => m0.staged = m0.prior.config
      /\ pc[r] \in {"rb_apk", "rb_push"} => ~m0.pushed
      /\ pc[r] \in {"rb_apk", "rb_push", "rb_move"} => m0.rb.config # "restored"
      /\ Alone(r) =>
            /\ m0.rb.apk = "restored" => device.apk = m0.prior.apk
            /\ m0.rb.config = "restored" => device.config = m0.prior.config
  BY <1>1 DEF Decided, Restoring, Unrestored, OnDevice
<1>6. ASSUME NEW n \in Nat, NEW m \in Elapse(m0, n)
      PROVE  /\ m \in Memories /\ KeptFields(m, m0) /\ m.doc = m0.doc
             /\ m.claim = m0.claim /\ m.exit = m0.exit /\ m.rb = m0.rb
             /\ m.pushed = m0.pushed /\ m.staged = m0.staged
  <2>1. m \in Memories /\ m = [m0 EXCEPT !.left = m.left]
    BY <1>1, <1>6, ElapseTyped
  <2> QED BY <1>1, <2>1 DEF Memories, KeptFields
<1>7. KeptFields(m0, m0)
  BY DEF KeptFields
<1>8. CASE RestorePackage(r)
  <2>1. pc[r] = "rb_apk" /\ UNCHANGED disk
    BY <1>8 DEF RestorePackage
  <2>2. PICK m \in {m0} \cup Elapse(m0, InstallTicks),
             status \in {"restored", "failed", "not_available"} :
          /\ Step(r, [m EXCEPT !.rb.apk = status], "rb_push")
          /\ device' \in {device, [device EXCEPT !.apk = m0.prior.apk]}
          /\ status = "restored" => device' = [device EXCEPT !.apk = m0.prior.apk]
    BY <1>8 DEF RestorePackage
  <2> DEFINE k == [m EXCEPT !.rb.apk = status]
  <2>3. /\ m \in Memories /\ KeptFields(m, m0) /\ m.doc = m0.doc
        /\ m.claim = m0.claim /\ m.exit = m0.exit /\ m.rb = m0.rb
        /\ m.pushed = m0.pushed /\ m.staged = m0.staged
    BY <1>1, <1>3, <1>6, <1>7
  <2>4. /\ k \in Memories /\ KeptFields(k, m0) /\ k.doc = m0.doc
        /\ k.claim = m0.claim /\ k.exit = m0.exit /\ k.rb.config = m0.rb.config
        /\ k.rb.apk = status /\ k.pushed = m0.pushed /\ k.staged = m0.staged
        /\ k.prior = m0.prior
    BY <1>4, <2>2, <2>3 DEF Memories, KeptFields
  <2> HIDE DEF k
  <2>5. k.rb.apk = "restored" => device'.apk = m0.prior.apk
    BY <1>1, <2>2, <2>4 DEF Devices
  <2>6. Step(r, k, "rb_push")
    BY <2>2 DEF k
  <2> QED BY <1>1, <1>2, <1>4, <1>5, <1>7, <2>1, <2>4, <2>5, <2>6, RecoverOutcome
<1>9. CASE PushPrior(r)
  <2>1. pc[r] = "rb_push" /\ UNCHANGED <<disk, device>>
    BY <1>9 DEF PushPrior
  <2>2. PICK m \in {m0} \cup Elapse(m0, QuickTicks) :
          \/ \E part \in {"absent", "torn", m0.prior.config} :
                Step(r, [m EXCEPT !.staged = part], "rb_move")
          \/ Step(r, [m EXCEPT !.staged = m0.prior.config, !.pushed = TRUE], "rb_move")
          \/ \E status \in {"failed", "not_available"} :
                Step(r, [m EXCEPT !.rb.config = status], "rb_start")
    BY <1>9 DEF PushPrior
  <2>3. /\ m \in Memories /\ KeptFields(m, m0) /\ m.doc = m0.doc
        /\ m.claim = m0.claim /\ m.exit = m0.exit /\ m.rb = m0.rb
        /\ m.pushed = m0.pushed /\ m.staged = m0.staged
    BY <1>1, <1>3, <1>6, <1>7
  <2>4. ASSUME NEW part \in {"absent", "torn", m0.prior.config},
               Step(r, [m EXCEPT !.staged = part], "rb_move")
        PROVE  OutcomeInv'
    <3> DEFINE k == [m EXCEPT !.staged = part]
    <3>1. /\ k \in Memories /\ KeptFields(k, m0) /\ k.doc = m0.doc
          /\ k.claim = m0.claim /\ k.exit = m0.exit /\ k.rb = m0.rb
          /\ k.pushed = m0.pushed /\ k.prior = m0.prior
      BY <1>4, <2>3 DEF Memories, KeptFields
    <3> HIDE DEF k
    <3>2. Step(r, k, "rb_move")
      BY <2>4 DEF k
    <3> QED BY <1>1, <1>2, <1>4, <1>5, <1>7, <2>1, <3>1, <3>2, RecoverOutcome
  <2>5. CASE Step(r, [m EXCEPT !.staged = m0.prior.config, !.pushed = TRUE], "rb_move")
    <3> DEFINE k == [m EXCEPT !.staged = m0.prior.config, !.pushed = TRUE]
    <3>1. /\ k \in Memories /\ KeptFields(k, m0) /\ k.doc = m0.doc
          /\ k.claim = m0.claim /\ k.exit = m0.exit /\ k.rb = m0.rb
          /\ k.staged = m0.prior.config /\ k.prior = m0.prior
      BY <1>4, <2>3 DEF Memories, KeptFields
    <3> HIDE DEF k
    <3>2. Step(r, k, "rb_move")
      BY <2>5 DEF k
    <3> QED BY <1>1, <1>2, <1>4, <1>5, <1>7, <2>1, <3>1, <3>2, RecoverOutcome
  <2>6. ASSUME NEW status \in {"failed", "not_available"},
               Step(r, [m EXCEPT !.rb.config = status], "rb_start")
        PROVE  OutcomeInv'
    <3> DEFINE k == [m EXCEPT !.rb.config = status]
    <3>1. /\ k \in Memories /\ KeptFields(k, m0) /\ k.doc = m0.doc
          /\ k.claim = m0.claim /\ k.exit = m0.exit /\ k.rb.config = status
          /\ k.rb.apk = m0.rb.apk /\ k.pushed = m0.pushed /\ k.prior = m0.prior
      BY <1>4, <2>3 DEF Memories, KeptFields
    <3> HIDE DEF k
    <3>2. Step(r, k, "rb_start")
      BY <2>6 DEF k
    <3> QED BY <1>1, <1>2, <1>4, <1>5, <1>7, <2>1, <3>1, <3>2, RecoverOutcome
  <2> QED BY <2>2, <2>4, <2>5, <2>6
<1>10. CASE MovePrior(r)
  <2>1. pc[r] = "rb_move" /\ UNCHANGED disk
    BY <1>10 DEF MovePrior
  <2>2. PICK m \in Elapse(m0, QuickTicks), status \in {"restored", "failed"} :
          /\ Step(r, [m EXCEPT !.rb.config = status], "rb_start")
          /\ device' \in {device, [device EXCEPT !.config = m0.staged]}
          /\ status = "restored" =>
                m0.pushed /\ device' = [device EXCEPT !.config = m0.staged]
    BY <1>10 DEF MovePrior
  <2> DEFINE k == [m EXCEPT !.rb.config = status]
  <2>3. /\ m \in Memories /\ KeptFields(m, m0) /\ m.doc = m0.doc
        /\ m.claim = m0.claim /\ m.exit = m0.exit /\ m.rb = m0.rb
        /\ m.pushed = m0.pushed /\ m.staged = m0.staged
    BY <1>3, <1>6
  <2>4. /\ k \in Memories /\ KeptFields(k, m0) /\ k.doc = m0.doc
        /\ k.claim = m0.claim /\ k.exit = m0.exit /\ k.rb.config = status
        /\ k.rb.apk = m0.rb.apk /\ k.pushed = m0.pushed /\ k.staged = m0.staged
        /\ k.prior = m0.prior
    BY <1>4, <2>2, <2>3 DEF Memories, KeptFields
  <2> HIDE DEF k
  <2>5. /\ device'.apk = device.apk
        /\ status = "restored" => device'.config = m0.prior.config
    BY <1>1, <1>5, <2>2 DEF Devices
  <2>6. Step(r, k, "rb_start")
    BY <2>2 DEF k
  <2> QED BY <1>1, <1>2, <1>4, <1>5, <1>7, <2>1, <2>4, <2>5, <2>6, RecoverOutcome
<1>11. CASE RestoreForeground(r)
  <2>1. pc[r] = "rb_start" /\ UNCHANGED disk
    BY <1>11 DEF RestoreForeground
  <2>2. PICK status \in {"restored", "failed", "not_available"} :
          /\ Step(r, [m0 EXCEPT !.rb.fg = status], "rb_write")
          /\ device' \in {device, [device EXCEPT !.fg = m0.prior.fg]}
    BY <1>11 DEF RestoreForeground
  <2> DEFINE k == [m0 EXCEPT !.rb.fg = status]
  <2>3. /\ k \in Memories /\ KeptFields(k, m0) /\ k.doc = m0.doc
        /\ k.claim = m0.claim /\ k.exit = m0.exit /\ k.rb.config = m0.rb.config
        /\ k.rb.apk = m0.rb.apk /\ k.pushed = m0.pushed /\ k.staged = m0.staged
        /\ k.prior = m0.prior
    BY <1>1, <1>4, <2>2 DEF Memories, KeptFields
  <2> HIDE DEF k
  <2>4. device'.apk = device.apk /\ device'.config = device.config
    BY <1>1, <2>2 DEF Devices
  <2>5. Step(r, k, "rb_write")
    BY <2>2 DEF k
  <2> QED BY <1>1, <1>2, <1>4, <1>5, <1>7, <2>1, <2>3, <2>4, <2>5, RecoverOutcome
<1>12. CASE RecordRollback(r)
  <2>1. pc[r] = "rb_write" /\ UNCHANGED device /\ Step(r, m0, "fin_receipt")
    BY <1>12 DEF RecordRollback
  <2>2. Alone(r) =>
            /\ m0.rb.apk = "restored" => device'.apk = m0.prior.apk
            /\ m0.rb.config = "restored" => device'.config = m0.prior.config
    BY <1>5, <2>1
  <2>3. UNCHANGED disk \/ disk' = [disk EXCEPT ![Mine(r)].evidence = m0.evidence]
    BY <1>12 DEF RecordRollback
  <2> QED BY <1>1, <1>2, <1>4, <1>5, <1>7, <2>1, <2>2, <2>3, RecoverOutcome
<1> QED BY <1>8, <1>9, <1>10, <1>11, <1>12 DEF Recovers
-----------------------------------------------------------------------------
(* A delivered receipt that passed is a valid one when it is failed now.    *)
LEMMA FailedReceiptValid ==
    ASSUME NEW m \in Memories, wall \in Nat, wall > 0, Dated(m, wall),
           ValidReceipt(m.doc), m.doc.state = "delivered", m.doc.verification = "passed"
    PROVE  ValidReceipt(FailedReceipt(m))
<1> DEFINE h == m.doc.history
           entry == [state |-> "rolled_back", at |-> wall]
           doc == FailedReceipt(m)
           rolled == RestoreCompleted(m)
<1>1. /\ m.doc \in Receipts /\ rolled \in BOOLEAN
      /\ m.doc.rollback \in BOOLEAN /\ h \in Seq(HistoryEntries)
  <2>1. m.doc \in Receipts /\ rolled \in BOOLEAN
    BY DEF Memories, RestoreCompleted
  <2>2. h \in Seq(HistoryEntries)
    BY <2>1 DEF Receipts
  <2>3. m.doc.rollback \in BOOLEAN
    BY <2>1 DEF Receipts
  <2> QED BY <2>1, <2>2, <2>3
<1>2. /\ doc.verification = "failed" /\ doc.verifiedAt = wall
      /\ doc.history = IF rolled THEN Append(h, entry) ELSE h
      /\ doc.state = IF rolled THEN "rolled_back" ELSE "delivered"
      /\ doc.rollback = (m.doc.rollback \/ rolled)
  BY <1>1 DEF FailedReceipt, Receipts
<1>3. /\ Len(h) \in Nat /\ Len(h) > 0 /\ ValidHistory(h) /\ h[Len(h)].state = "delivered"
      /\ ~m.doc.rollback
      /\ \A i \in 1..Len(h) : h[i].at \in Nat /\ h[i].at <= wall
  <2>1. ~m.doc.rollback /\ ValidHistory(h) /\ Len(h) > 0 /\ h[Len(h)].state = "delivered"
    BY DEF ValidReceipt
  <2>2. Len(h) \in Nat /\ \A i \in 1..Len(h) : h[i] \in HistoryEntries
    BY <1>1
  <2>3. \A i \in 1..Len(h) : h[i].at \in Nat
    BY <2>2 DEF HistoryEntries
  <2> QED BY <2>1, <2>2, <2>3 DEF Dated
<1>4. PICK i \in 1..Len(h) : FirstDelivered(h, i)
  BY DEF ValidReceipt, ValidVerification, FirstDelivered
<1> HIDE DEF h, entry, doc, rolled
<1>5. CASE ~rolled
  <2>1. ValidVerification(doc)
    BY <1>2, <1>3, <1>4, <1>5 DEF ValidVerification, NoTime
  <2> QED BY <1>2, <1>3, <1>5, <2>1 DEF ValidReceipt, doc
<1>6. CASE rolled
  <2> DEFINE g == doc.history
  <2>1. /\ entry.state = "rolled_back" /\ entry.at = wall
        /\ g = Append(h, entry)
    BY <1>2, <1>6 DEF entry
  <2>2. /\ Len(g) = Len(h) + 1 /\ g[Len(g)] = entry
        /\ \A j \in 1..Len(h) : g[j] = h[j]
    BY <1>1, <1>3, <2>1
  <2> HIDE DEF g
  <2>3. ValidHistory(g)
    <3>1. g[1].state = "built"
      BY <1>3, <2>2 DEF ValidHistory
    <3>2. ASSUME NEW j \in 2..Len(g)
          PROVE  <<g[j-1].state, g[j].state>> \in AllowedTransitions /\ g[j-1].at <= g[j].at
      <4>1. CASE j <= Len(h)
        <5>1. j \in 2..Len(h) /\ j \in 1..Len(h) /\ j-1 \in 1..Len(h)
          BY <1>3, <4>1
        <5>2. g[j] = h[j] /\ g[j-1] = h[j-1]
          BY <2>2, <5>1
        <5> QED BY <1>3, <5>1, <5>2 DEF ValidHistory
      <4>2. CASE j = Len(h) + 1
        <5>1. j-1 = Len(h) /\ Len(h) \in 1..Len(h)
          BY <1>3, <4>2
        <5>2. g[j] = entry /\ g[j-1] = h[Len(h)]
          BY <2>2, <4>2, <5>1
        <5> QED BY <1>3, <2>1, <5>1, <5>2 DEF AllowedTransitions
      <4> QED BY <1>3, <2>2, <4>1, <4>2
    <3> QED BY <3>1, <3>2 DEF ValidHistory
  <2>4. i \in 1..Len(g) /\ FirstDelivered(g, i) /\ g[i].at <= wall
    BY <1>3, <1>4, <2>2 DEF FirstDelivered
  <2>5. doc.state = "rolled_back" /\ doc.rollback
    BY <1>2, <1>6
  <2>6. ValidVerification(doc)
    BY <1>2, <2>4, <2>5 DEF ValidVerification, NoTime, g
  <2> QED BY <1>3, <2>1, <2>2, <2>3, <2>5, <2>6 DEF ValidReceipt, doc, g
<1> QED BY <1>5, <1>6

(* A step of finish() or of an end: the device stays as it was.             *)
LEMMA LateOutcome ==
    ASSUME TypeOK, ClaimInv, OutcomeInv,
           NEW r \in Runs, NEW m, KeptFields(m, run[r]),
           m.rb = run[r].rb, m.pushed = run[r].pushed, m.staged = run[r].staged,
           NEW s \in (FinishStages \cup EndStages \cup {"cleanup"}) \ {"fin_receipt"},
           Step(r, m, s),
           NEW d, disk' = [disk EXCEPT ![Mine(r)] = d],
           d = disk[Mine(r)] \/ Owns(r),
           d.dir = disk[Mine(r)].dir,
           d.receipt = disk[Mine(r)].receipt \/ (Owns(r) /\ d.receipt = m.doc),
           UNCHANGED device, Grows, UNCHANGED wall,
           m.doc = run[r].doc
               \/ (m.failure # "none" /\ run[r].doc.state # "rolled_back"
                   /\ (m.doc.state = "rolled_back" => RestoreCompleted(m))
                   /\ (OnlyFaults(TameKinds) => Dated(m, wall))),
           m.holds => m.claim # "none",
           s = "fin_receipt_write" => m.failure # "none" /\ m.exit = "running",
           Settling(s, m, d),
           Shown(s, m) => Shown(pc[r], run[r]),
           Tame' /\ m.holds => Agrees(s, m, d, Signalled')
    PROVE  OutcomeInv'
<1> DEFINE m0 == run[r]
           d0 == disk[Mine(r)]
<1>1. /\ Decided(pc[r], m0, d0) /\ Unclaimed(d0)
      /\ Alone(r) => OnDevice(r, pc[r], m0, device)
      /\ OnlyFaults(TameKinds) => Dated(m0, wall)
  BY OutcomeBefore
<1>2. s \notin TryStages \cup {"idle"} \cup RecoverStages \cup TouchedStages
  BY StagesApart
<1>3. s \notin {"rb_apk", "rb_push", "rb_move", "fin_receipt"}
  BY <1>2 DEF RecoverStages
<1>4. RestoreCompleted(m) = RestoreCompleted(m0)
  BY DEF RestoreCompleted, KeptFields
<1>5. Decided(s, m, d)
  <2>1. Trying(s, m, d)
    BY <1>2 DEF Trying
  <2>2. Restoring(s, m)
    BY <1>1, <1>2, <1>3, <1>4 DEF Restoring, Decided, Unrestored, KeptFields
  <2>3. m.holds /\ d.receipt.state = "rolled_back" => m.doc.state = "rolled_back"
    BY <1>1 DEF Decided, KeptFields
  <2> QED BY <1>2, <2>1, <2>2, <2>3 DEF Decided
<1>6. Alone(r) => OnDevice(r, s, m, device)
  BY <1>1 DEF OnDevice, KeptFields
<1>7. OnlyFaults(TameKinds) => Dated(m, wall)
  BY <1>1 DEF Dated, KeptFields
<1>8. Unclaimed(d)
  BY <1>1 DEF Unclaimed, ClaimInv
<1> QED BY <1>5, <1>6, <1>7, <1>8, StepOutcome DEF KeptFields

(* What a run in finish() starts from.                                      *)
LEMMA LateBefore ==
    ASSUME TypeOK, OutcomeInv, NEW r \in Runs
    PROVE  /\ run[r].holds => run[r].claim # "none"
           /\ Settling(pc[r], run[r], disk[Mine(r)])
           /\ pc[r] \in FinishStages => run[r].exit = "running"
           /\ pc[r] \in {"fin_receipt", "fin_receipt_write"} =>
                 run[r].failure # "none"
           /\ pc[r] = "fin_receipt" => run[r].doc.state # "rolled_back"
           /\ OnlyFaults(TameKinds) => Dated(run[r], wall)
           /\ Tame' /\ Grows /\ run[r].holds =>
                 Agrees(pc[r], run[r], disk[Mine(r)], Signalled) /\ (Signalled => Signalled')
<1>1. Decided(pc[r], run[r], disk[Mine(r)])
  BY OutcomeBefore
<1>2. Grows => (Tame' => Tame) /\ (Signalled => Signalled')
  BY FaultsGrow
<1> QED BY <1>1, <1>2, OutcomeBefore DEF Decided, Restoring, Settling

(* fin_receipt and fin_receipt_write keep the outcome.                      *)
LEMMA FinalizeOutcome ==
    ASSUME TypeOK, ClaimInv, ReceiptInv, RecordInv, OutcomeInv, NEW r \in Runs,
           FinalizeReceipt(r) \/ PersistFinalized(r)
    PROVE  OutcomeInv'
<1> DEFINE m0 == run[r]
           d0 == disk[Mine(r)]
<1>1. /\ m0 \in Memories /\ d0 \in Directories /\ Mine(r) \in Approvals /\ wall \in Nat
      /\ m0.doc \in Receipts /\ d0.receipt \in Receipts
  BY OutcomeBefore DEF Memories, Directories
<1>2. Grows /\ UNCHANGED wall
  BY StepGrows DEF Proceed, Finishes
<1>3. pc[r] \in {"fin_receipt", "fin_receipt_write"} /\ UNCHANGED device
  BY DEF FinalizeReceipt, PersistFinalized
<1>4. /\ m0.failure # "none" /\ m0.exit = "running"
      /\ m0.holds => m0.claim # "none"
      /\ pc[r] = "fin_receipt" => m0.doc.state # "rolled_back"
      /\ OnlyFaults(TameKinds) => Dated(m0, wall)
      /\ Tame' /\ m0.holds =>
            Agrees(pc[r], m0, d0, Signalled) /\ (Signalled => Signalled')
  BY <1>2, <1>3, LateBefore DEF FinishStages
<1>5. {"fin_receipt_write", "fin_claim"} \subseteq
          (FinishStages \cup EndStages \cup {"cleanup"}) \ {"fin_receipt"}
      /\ {"fin_receipt_write", "fin_claim"} \cap RecoverStages = {}
  BY DEF FinishStages, RecoverStages
<1>6. disk' = disk => disk' = [disk EXCEPT ![Mine(r)] = d0]
  BY <1>1 DEF TypeOK
<1>7. KeptFields(m0, m0)
  BY DEF KeptFields
<1>8. CASE FinalizeReceipt(r)
  <2>1. pc[r] = "fin_receipt" /\ UNCHANGED disk
    BY <1>8 DEF FinalizeReceipt
  <2> DEFINE m == [m0 EXCEPT !.doc = FailedReceipt(m0)]
             rolled == m0.doc.state = "delivered" /\ RestoreCompleted(m0)
             entry == [state |-> "rolled_back", at |-> wall]
  <2>2. \/ ~Settleable(m0) /\ Step(r, m0, "fin_claim")
        \/ /\ Settleable(m0)
           /\ \/ ValidReceipt(m.doc) /\ Step(r, m, "fin_receipt_write")
              \/ /\ ~ValidReceipt(m.doc) \/ Fault("validator")
                 /\ Step(r, m, "fin_claim")
    BY <1>8 DEF FinalizeReceipt
  <2>3. /\ m \in Memories /\ KeptFields(m, m0) /\ m.doc = FailedReceipt(m0)
        /\ m.rb = m0.rb /\ m.pushed = m0.pushed /\ m.staged = m0.staged
        /\ m.claim = m0.claim /\ m.exit = m0.exit
    <3>1. FailedReceipt(m0) \in Receipts
      BY <1>1, FailedReceiptTyped
    <3> QED BY <1>1, <3>1 DEF Memories, KeptFields
  <2> HIDE DEF m
  <2>4. /\ m.doc.verification = "failed"
        /\ m.doc.state = "rolled_back" => RestoreCompleted(m)
        /\ OnlyFaults(TameKinds) => Dated(m, wall)
    <3>1. rolled \in BOOLEAN /\ m0.doc.state # "rolled_back"
      BY <1>4, <2>1 DEF RestoreCompleted
    <3>2. /\ m.doc.verification = "failed"
          /\ m.doc.state = IF rolled THEN "rolled_back" ELSE m0.doc.state
          /\ m.doc.history = IF rolled THEN Append(m0.doc.history, entry)
                             ELSE m0.doc.history
      BY <1>1, <2>3, <3>1 DEF FailedReceipt, Receipts
    <3>3. RestoreCompleted(m) = RestoreCompleted(m0)
      BY <2>3 DEF RestoreCompleted, KeptFields
    <3>4. ASSUME OnlyFaults(TameKinds) PROVE Dated(m, wall)
      <4>1. Dated(m0, wall) /\ m0.doc.history \in Seq(HistoryEntries) /\ m.started = m0.started
        BY <1>1, <1>4, <2>3, <3>4 DEF Receipts, KeptFields
      <4>2. CASE rolled
        BY <1>1, <3>2, <4>1, <4>2 DEF Dated
      <4>3. CASE ~rolled
        BY <3>2, <4>1, <4>3 DEF Dated
      <4> QED BY <4>2, <4>3
    <3> QED BY <3>1, <3>2, <3>3, <3>4
  <2>5. \A s \in {"fin_claim", "fin_receipt_write"}, k \in {m0, m} :
            Settling(s, k, d0) /\ ~Shown(s, k)
    BY <1>4, <2>3 DEF Settling, Shown, KeptFields, FinishStages
  <2>6. ASSUME Tame', m0.holds, d0.receipt.verification = "passed"
        PROVE  Signalled' /\ m0.doc = d0.receipt /\ Settleable(m0) /\ ValidReceipt(m.doc)
    <3>1. Signalled' /\ m0.doc = d0.receipt
      BY <1>4, <2>1, <2>6 DEF Agrees
    <3>2. ValidReceipt(m0.doc)
      <4>1. d0.receipt # NoReceipt
        BY <2>6 DEF NoReceipt
      <4> QED BY <1>1, <3>1, <4>1 DEF ReceiptInv, ReceiptOnDiskValid
    <3>3. m0.doc.state = "delivered"
      BY <1>4, <2>1, <2>6, <3>1, <3>2 DEF ValidReceipt, ValidVerification
    <3>4. OnlyFaults(TameKinds) /\ wall > 0
      <4>1. OnlyFaults(TameKinds)'
        BY <2>6 DEF Tame
      <4> QED BY <1>2, <4>1, FaultsGrow DEF OutcomeInv, DatedInv
    <3> QED BY <1>1, <1>4, <2>3, <2>6, <3>1, <3>2, <3>3, <3>4, FailedReceiptValid
            DEF Settleable
  <2>7. CASE ~Settleable(m0) /\ Step(r, m0, "fin_claim")
    <3>1. Tame' /\ m0.holds => Agrees("fin_claim", m0, d0, Signalled')
      BY <1>4, <1>5, <2>6, <2>7 DEF Agrees, ReceiptAgrees
    <3> QED BY <1>2, <1>3, <1>4, <1>5, <1>6, <1>7, <2>1, <2>5, <2>7, <3>1, LateOutcome
  <2>8. CASE Settleable(m0) /\ ValidReceipt(m.doc) /\ Step(r, m, "fin_receipt_write")
    <3>1. Tame' /\ m0.holds => Agrees("fin_receipt_write", m, d0, Signalled')
      BY <1>5, <2>4, <2>6 DEF Agrees
    <3> QED BY <1>2, <1>3, <1>4, <1>5, <1>6, <2>1, <2>3, <2>4, <2>5, <2>8, <3>1, LateOutcome
            DEF KeptFields
  <2>9. CASE ~ValidReceipt(m.doc) /\ Step(r, m, "fin_claim")
    <3>1. Tame' /\ m0.holds => Agrees("fin_claim", m, d0, Signalled')
      BY <1>4, <1>5, <2>3, <2>6, <2>9 DEF Agrees, ReceiptAgrees, KeptFields
    <3> QED BY <1>2, <1>3, <1>4, <1>5, <1>6, <2>1, <2>3, <2>4, <2>5, <2>9, <3>1, LateOutcome
            DEF KeptFields
  <2>10. CASE Fault("validator") /\ Step(r, m, "fin_claim")
    <3>1. ~Tame'
      BY <2>10, FaultTames DEF TameKinds
    <3> QED BY <1>2, <1>3, <1>4, <1>5, <1>6, <2>1, <2>3, <2>4, <2>5, <2>10, <3>1, LateOutcome
            DEF KeptFields
  <2> QED BY <2>2, <2>7, <2>8, <2>9, <2>10
<1>9. CASE PersistFinalized(r)
  <2>1. pc[r] = "fin_receipt_write" /\ Step(r, m0, "fin_claim")
    BY <1>9 DEF PersistFinalized
  <2>2. Owns(r)
    BY <2>1, OwnersRun DEF OwnerStages
  <2>3. \A d : Settling("fin_claim", m0, d) /\ ~Shown("fin_claim", m0)
    BY <1>4 DEF Settling, Shown
  <2>4. CASE disk' = [disk EXCEPT ![Mine(r)].receipt = m0.doc]
    <3> DEFINE d == [d0 EXCEPT !.receipt = m0.doc]
    <3>1. disk' = [disk EXCEPT ![Mine(r)] = d]
      BY <2>4
    <3>2. d.dir = d0.dir /\ d.receipt = m0.doc
      BY <1>1 DEF Directories
    <3> HIDE DEF d
    <3>3. Tame' /\ m0.holds => Agrees("fin_claim", m0, d, Signalled')
      BY <1>4, <1>5, <2>1, <3>2 DEF Agrees, ReceiptAgrees
    <3> QED BY <1>2, <1>3, <1>4, <1>5, <1>7, <2>1, <2>2, <2>3, <3>1, <3>2, <3>3, LateOutcome
  <2>5. CASE Fault("write") /\ UNCHANGED disk
    <3>1. ~Tame'
      BY <2>5, FaultTames DEF TameKinds
    <3> QED BY <1>2, <1>3, <1>4, <1>5, <1>6, <1>7, <2>1, <2>3, <2>5, <3>1, LateOutcome
  <2> QED BY <1>9, <2>4, <2>5 DEF PersistFinalized
<1> QED BY <1>8, <1>9

(* An exception that leaves run() has nothing to say of the outcome.        *)
LEMMA EscapeOutcome ==
    ASSUME TypeOK, ClaimInv, OutcomeInv, NEW r \in Runs, run[r] \in Memories,
           Escape(r), UNCHANGED <<disk, device>>, Grows, UNCHANGED wall,
           run[r].holds => run[r].claim # "none"
    PROVE  OutcomeInv'
<1> DEFINE m0 == run[r]
           d0 == disk[Mine(r)]
           m == [m0 EXCEPT !.exit = "failed"]
<1>1. /\ KeptFields(m, m0) /\ m.rb = m0.rb /\ m.pushed = m0.pushed
      /\ m.staged = m0.staged /\ m.doc = m0.doc /\ m.exit = "failed"
      /\ m.claim = m0.claim /\ m.ok = m0.ok
  BY DEF Memories, KeptFields
<1>2. Step(r, m, "escaped") /\ disk' = [disk EXCEPT ![Mine(r)] = d0]
  BY DEF Escape, TypeOK
<1> HIDE DEF m
<1>3. "escaped" \in EndStages \ {"fin_receipt"}
      /\ "escaped" \notin RecoverStages \cup FinishStages
  BY DEF EndStages, RecoverStages, FinishStages
<1>4. Settling("escaped", m, d0) /\ ~Shown("escaped", m)
  BY <1>1, <1>3 DEF Settling, Shown
<1>5. Agrees("escaped", m, d0, Signalled')
  BY <1>3 DEF Agrees
<1> QED BY <1>1, <1>2, <1>3, <1>4, <1>5, LateOutcome DEF KeptFields

(* The claim, the evidence and the exit code keep the outcome.              *)
LEMMA FinishesOutcome ==
    ASSUME TypeOK, ClaimInv, ReceiptInv, RecordInv, OutcomeInv, NEW r \in Runs, Finishes(r)
    PROVE  OutcomeInv'
<1> DEFINE m0 == run[r]
           d0 == disk[Mine(r)]
<1>1. /\ m0 \in Memories /\ d0 \in Directories /\ Mine(r) \in Approvals
  BY OutcomeBefore
<1>2. Grows /\ UNCHANGED wall
  BY StepGrows DEF Proceed
<1>3. /\ m0.holds => m0.claim # "none"
      /\ Settling(pc[r], m0, d0)
      /\ pc[r] \in FinishStages => m0.exit = "running"
      /\ OnlyFaults(TameKinds) => Dated(m0, wall)
      /\ Tame' /\ m0.holds =>
            Agrees(pc[r], m0, d0, Signalled) /\ (Signalled => Signalled')
  BY <1>2, LateBefore
<1>4. /\ {"fin_claim", "fin_evidence", "fin_reclaim", "fin_out"} \subseteq FinishStages
      /\ {"fin_evidence", "fin_reclaim", "fin_out", "cleanup", "done"} \subseteq
             (FinishStages \cup EndStages \cup {"cleanup"}) \ {"fin_receipt"}
      /\ {"cleanup", "done"} \cap FinishStages = {}
      /\ {"fin_evidence", "fin_reclaim", "fin_out", "cleanup", "done"} \cap RecoverStages = {}
  BY DEF FinishStages, EndStages, RecoverStages
<1>5. disk' = disk => disk' = [disk EXCEPT ![Mine(r)] = d0]
  BY <1>1 DEF TypeOK
<1>6. KeptFields(m0, m0)
  BY DEF KeptFields
<1>7. CASE FinalizeReceipt(r) \/ PersistFinalized(r)
  BY <1>7, FinalizeOutcome
<1>8. CASE FinishClaim(r)
  <2> DEFINE ok == m0.failure = "none"
             claimed == m0.claim # "none"
             m == [m0 EXCEPT
                      !.ok = ok,
                      !.claim = IF ~claimed THEN @
                                ELSE IF ok THEN "completed" ELSE "failed",
                      !.evidence.result = IF ~claimed THEN @
                                          ELSE IF ok THEN "passed" ELSE "failed"]
             k == Unwritten(m)
             d == [d0 EXCEPT !.claim = [state |-> m.claim, ok |-> m.ok]]
  <2>1. pc[r] = "fin_claim" /\ UNCHANGED device
    BY <1>8 DEF FinishClaim
  <2>2. /\ KeptFields(m, m0) /\ m.rb = m0.rb /\ m.pushed = m0.pushed
        /\ m.staged = m0.staged /\ m.doc = m0.doc /\ m.exit = m0.exit
        /\ m.ok = (m.failure = "none") /\ m.holds = m0.holds
        /\ m.holds => /\ m.claim = IF m.failure = "none" THEN "completed" ELSE "failed"
                      /\ m.evidence.result = IF m.failure = "none" THEN "passed" ELSE "failed"
    BY <1>1, <1>3 DEF Memories, EvidenceFiles, KeptFields
  <2>3. m \in Memories
    BY <1>1 DEF Memories, ClaimStates, EvidenceFiles, Results
  <2>4. \/ /\ IF m.holds
              THEN disk' = [disk EXCEPT ![Mine(r)].claim = [state |-> m.claim, ok |-> m.ok]]
              ELSE UNCHANGED disk
           /\ Step(r, m, "fin_evidence")
        \/ Fault("write") /\ Step(r, k, "fin_evidence") /\ UNCHANGED disk
    BY <1>8 DEF FinishClaim
  <2> HIDE DEF m
  <2>5. m0.failure = "none" => m0.holds /\ d0.receipt.verification = "passed"
    BY <1>3, <2>1 DEF Settling
  <2>6. CASE m.holds /\ disk' = [disk EXCEPT ![Mine(r)].claim = [state |-> m.claim, ok |-> m.ok]]
             /\ Step(r, m, "fin_evidence")
    <3>1. disk' = [disk EXCEPT ![Mine(r)] = d]
      BY <2>6
    <3>2. d.dir = d0.dir /\ d.receipt = d0.receipt
          /\ d.claim = [state |-> m.claim, ok |-> m.ok]
      BY <1>1 DEF Directories
    <3> HIDE DEF d
    <3>3. d.claim = IF m.failure = "none" THEN CompletedClaim ELSE FailedClaim
      BY <2>2, <2>6, <3>2 DEF CompletedClaim, FailedClaim
    <3>4. Settling("fin_evidence", m, d)
      BY <1>3, <1>4, <2>1, <2>2, <2>5, <2>6, <3>2, <3>3 DEF Settling, KeptFields
    <3>5. Tame' => Agrees("fin_evidence", m, d, Signalled')
      BY <1>3, <1>4, <2>1, <2>2, <2>6, <3>2, <3>3
         DEF Agrees, ReceiptAgrees, ClaimAgrees, ResultOf, KeptFields
    <3>6. Shown("fin_evidence", m) => Shown(pc[r], m0)
      BY <1>4, <2>1, <2>2 DEF Shown, KeptFields
    <3>7. Owns(r) /\ m.claim # "none"
      BY <1>3, <2>2, <2>6 DEF Owns, KeptFields
    <3> QED BY <1>2, <1>4, <2>1, <2>2, <2>6, <3>1, <3>2, <3>4, <3>5, <3>6, <3>7, LateOutcome
  <2>7. CASE ~m.holds /\ UNCHANGED disk /\ Step(r, m, "fin_evidence")
    <3>1. Settling("fin_evidence", m, d0)
      BY <1>3, <1>4, <2>1, <2>2, <2>5, <2>7 DEF Settling, KeptFields
    <3>2. Shown("fin_evidence", m) => Shown(pc[r], m0)
      BY <1>4, <2>1, <2>2 DEF Shown, KeptFields
    <3> QED BY <1>2, <1>4, <1>5, <2>1, <2>2, <2>7, <3>1, <3>2, LateOutcome
  <2>8. CASE Fault("write") /\ Step(r, k, "fin_evidence") /\ UNCHANGED disk
    <3>1. /\ KeptFields(k, m0) /\ k.rb = m0.rb /\ k.pushed = m0.pushed
          /\ k.staged = m0.staged /\ k.doc = m0.doc /\ k.exit = m0.exit
          /\ k.failure = "none" => ~k.ok
          /\ k.holds => k.claim # "none"
      BY <2>2, <2>3 DEF Unwritten, Memories, KeptFields
    <3> HIDE DEF k
    <3>2. Settling("fin_evidence", k, d0)
      BY <1>3, <1>4, <2>1, <3>1 DEF Settling
    <3>3. Shown("fin_evidence", k) => Shown(pc[r], m0)
      BY <1>4, <2>1, <3>1 DEF Shown, KeptFields
    <3>4. ~Tame'
      BY <2>8, FaultTames DEF TameKinds
    <3> QED BY <1>2, <1>4, <1>5, <2>1, <2>8, <3>1, <3>2, <3>3, <3>4, LateOutcome
  <2> QED BY <2>4, <2>6, <2>7, <2>8
<1>9. CASE FinishEvidence(r)
  <2> DEFINE d == [d0 EXCEPT !.evidence = m0.evidence]
             k == Unwritten(m0)
             s == IF m0.failure = "none" THEN "fin_reclaim" ELSE "fin_out"
  <2>1. pc[r] = "fin_evidence" /\ UNCHANGED device
    BY <1>9 DEF FinishEvidence
  <2>2. \/ /\ IF m0.holds THEN disk' = [disk EXCEPT ![Mine(r)].evidence = m0.evidence]
              ELSE UNCHANGED disk
           /\ Step(r, m0, "fin_out")
        \/ m0.holds /\ Fault("write") /\ Step(r, k, s) /\ UNCHANGED disk
    BY <1>9 DEF FinishEvidence
  <2>3. Shown("fin_out", m0) => Shown(pc[r], m0)
    BY <1>4, <2>1 DEF Shown
  <2>4. CASE m0.holds /\ disk' = [disk EXCEPT ![Mine(r)].evidence = m0.evidence]
             /\ Step(r, m0, "fin_out")
    <3>1. disk' = [disk EXCEPT ![Mine(r)] = d]
      BY <2>4
    <3>2. d.dir = d0.dir /\ d.receipt = d0.receipt /\ d.claim = d0.claim
          /\ d.evidence = m0.evidence
      BY <1>1 DEF Directories
    <3> HIDE DEF d
    <3>3. Settling("fin_out", m0, d)
      BY <1>3, <1>4, <2>1, <3>2 DEF Settling, AcceptedFiles
    <3>4. Tame' => Agrees("fin_out", m0, d, Signalled')
      BY <1>3, <1>4, <2>1, <2>4, <3>2 DEF Agrees, ReceiptAgrees, ClaimAgrees
    <3> QED BY <1>2, <1>3, <1>4, <1>6, <2>1, <2>3, <2>4, <3>1, <3>2, <3>3, <3>4, LateOutcome
            DEF Owns
  <2>5. CASE ~m0.holds /\ UNCHANGED disk /\ Step(r, m0, "fin_out")
    <3>1. Settling("fin_out", m0, d0)
      BY <1>3, <1>4, <2>1, <2>5 DEF Settling
    <3> QED BY <1>2, <1>4, <1>5, <1>6, <2>1, <2>3, <2>5, <3>1, LateOutcome
  <2>6. CASE m0.holds /\ Fault("write") /\ Step(r, k, s) /\ UNCHANGED disk
    <3>1. /\ KeptFields(k, m0) /\ k.rb = m0.rb /\ k.pushed = m0.pushed
          /\ k.staged = m0.staged /\ k.doc = m0.doc /\ k.exit = m0.exit
          /\ k.failure = "none" => ~k.ok
          /\ k.claim = m0.claim
      BY <1>1 DEF Unwritten, Memories, KeptFields
    <3>2. /\ s \in {"fin_reclaim", "fin_out"}
          /\ s = "fin_reclaim" => m0.failure = "none"
          /\ s = "fin_out" => m0.failure # "none"
      OBVIOUS
    <3> HIDE DEF k, s
    <3>3. Settling(s, k, d0)
      BY <1>3, <1>4, <2>1, <2>6, <3>1, <3>2 DEF Settling, KeptFields
    <3>4. Shown(s, k) => Shown(pc[r], m0)
      BY <1>4, <2>1, <3>1, <3>2 DEF Shown, KeptFields
    <3>5. ~Tame'
      BY <2>6, FaultTames DEF TameKinds
    <3> QED BY <1>2, <1>3, <1>4, <1>5, <2>1, <2>6, <3>1, <3>2, <3>3, <3>4, <3>5, LateOutcome
            DEF KeptFields
  <2> QED BY <2>2, <2>4, <2>5, <2>6
<1>10. CASE FinishReclaim(r)
  <2> DEFINE d == [d0 EXCEPT !.claim = [state |-> m0.claim, ok |-> m0.ok]]
  <2>1. pc[r] = "fin_reclaim" /\ UNCHANGED device /\ Step(r, m0, "fin_out")
    BY <1>10 DEF FinishReclaim
  <2>2. m0.holds /\ m0.failure = "none" /\ ~m0.ok /\ m0.exit = "running"
    BY <1>3, <1>4, <2>1 DEF Settling
  <2>3. ~Tame'
    BY <1>3, <2>1, <2>2 DEF Agrees
  <2>4. \A e : Settling("fin_out", m0, e)
    BY <1>4, <2>2 DEF Settling
  <2>5. Shown("fin_out", m0) => Shown(pc[r], m0)
    BY <1>4, <2>1 DEF Shown
  <2>6. CASE disk' = [disk EXCEPT ![Mine(r)].claim = [state |-> m0.claim, ok |-> m0.ok]]
    <3>1. disk' = [disk EXCEPT ![Mine(r)] = d]
      BY <2>6
    <3>2. d.dir = d0.dir /\ d.receipt = d0.receipt
      BY <1>1 DEF Directories
    <3> HIDE DEF d
    <3> QED BY <1>2, <1>3, <1>4, <1>6, <2>1, <2>2, <2>3, <2>4, <2>5, <3>1, <3>2, LateOutcome
            DEF Owns
  <2>7. CASE UNCHANGED disk
    BY <1>2, <1>3, <1>4, <1>5, <1>6, <2>1, <2>2, <2>3, <2>4, <2>5, <2>7, LateOutcome
  <2> QED BY <1>10, <2>6, <2>7 DEF FinishReclaim
<1>11. CASE Report(r)
  <2> DEFINE exit == IF m0.failure # "none" THEN m0.failure
                     ELSE IF m0.ok THEN "ok" ELSE "failed"
             m == [m0 EXCEPT !.exit = exit]
  <2>1. /\ pc[r] = "fin_out" /\ UNCHANGED <<disk, device>>
        /\ \/ Step(r, m, "cleanup")
           \/ Fault("write") /\ m0.failure = "none" /\ Fail(r, m0, "failed")
           \/ Escape(r)
    BY <1>11 DEF Report
  <2>2. exit = "ok" <=> m0.failure = "none" /\ m0.ok
    BY <1>1 DEF Memories, Failures
  <2> HIDE DEF exit
  <2>3. /\ KeptFields(m, m0) /\ m.rb = m0.rb /\ m.pushed = m0.pushed
        /\ m.staged = m0.staged /\ m.doc = m0.doc /\ m.exit = exit
        /\ m.claim = m0.claim /\ m.ok = m0.ok
    BY <1>1 DEF Memories, KeptFields
  <2> HIDE DEF m
  <2>4. Settling("cleanup", m, d0)
    BY <1>3, <1>4, <2>1, <2>2, <2>3 DEF Settling, KeptFields
  <2>5. Shown("cleanup", m) => Shown(pc[r], m0)
    BY <1>4, <2>1, <2>2, <2>3 DEF Shown
  <2>6. Tame' /\ m.holds => Agrees("cleanup", m, d0, Signalled')
    BY <1>3, <1>4, <2>1, <2>2, <2>3
       DEF Agrees, ReceiptAgrees, ClaimAgrees, KeptFields
  <2>7. CASE Step(r, m, "cleanup")
    BY <1>2, <1>3, <1>4, <1>5, <2>1, <2>3, <2>4, <2>5, <2>6, <2>7, LateOutcome DEF KeptFields
  <2>8. CASE Fault("write") /\ m0.failure = "none" /\ Fail(r, m0, "failed")
    <3>1. ~Tame'
      BY <2>8, FaultTames DEF TameKinds
    <3>2. /\ Unrestored(m0) /\ m0.exit = "running"
          /\ m0.holds => m0.claim # "none" /\ d0.receipt.state # "rolled_back"
      BY <1>3, <1>4, <2>1, <2>8, OutcomeBefore DEF Decided, Restoring, Unrestored
    <3>3. "failed" \in Failures \ {"none"}
      BY DEF Failures
    <3> QED BY <1>1, <1>2, <1>3, <2>1, <2>8, <3>1, <3>2, <3>3, FailOutcome
  <2>9. CASE Escape(r)
    BY <1>1, <1>2, <1>3, <2>1, <2>9, EscapeOutcome
  <2> QED BY <2>1, <2>7, <2>8, <2>9
<1>12. CASE Cleanup(r)
  <2>1. pc[r] = "cleanup" /\ UNCHANGED <<disk, device>> /\ Step(r, m0, "done")
    BY <1>12 DEF Cleanup
  <2>2. Settling("done", m0, d0)
    BY <1>3, <1>4, <2>1 DEF Settling
  <2>3. Shown("done", m0) => Shown(pc[r], m0)
    BY <1>4 DEF Shown
  <2>4. Tame' /\ m0.holds => Agrees("done", m0, d0, Signalled')
    BY <1>3, <1>4, <2>1 DEF Agrees
  <2> QED BY <1>2, <1>3, <1>4, <1>5, <1>6, <2>1, <2>2, <2>3, <2>4, LateOutcome
<1> QED BY <1>7, <1>8, <1>9, <1>10, <1>11, <1>12 DEF Finishes
-----------------------------------------------------------------------------
(* Starting, the deadline, failing reads, signals and kills.                *)
LEMMA EnvironmentOutcome ==
    ASSUME TypeOK, ClaimInv, RecordInv, OutcomeInv, NEW r \in Runs,
           Start(r) \/ DeadlineExpires(r) \/ ReadFails(r) \/ Signal(r) \/ Kill(r)
    PROVE  OutcomeInv'
<1> DEFINE m0 == run[r]
           d0 == disk[Mine(r)]
<1>1. /\ m0 \in Memories /\ d0 \in Directories /\ wall \in Nat /\ Unclaimed(d0)
      /\ Decided(pc[r], m0, d0)
      /\ disk' = disk => disk' = [disk EXCEPT ![Mine(r)] = d0]
  BY OutcomeBefore DEF TypeOK
<1>2. Grows /\ UNCHANGED wall
  BY StepGrows DEF Proceed
<1>3. /\ m0.holds => m0.claim # "none"
      /\ Settling(pc[r], m0, d0)
      /\ pc[r] \in FinishStages => m0.exit = "running"
      /\ pc[r] \in {"fin_receipt", "fin_receipt_write"} => m0.failure # "none"
      /\ OnlyFaults(TameKinds) => Dated(m0, wall)
      /\ Tame' /\ m0.holds =>
            Agrees(pc[r], m0, d0, Signalled) /\ (Signalled => Signalled')
  BY <1>2, LateBefore
<1>4. UNCHANGED <<disk, device>>
  BY DEF Start, DeadlineExpires, ReadFails, Signal, Kill
<1>5. CommandStages \cup ReadStages \subseteq TryStages
  BY DEF CommandStages, ReadStages, TryStages, SnapshotStages, InstallStages, AcceptStages
<1>6. /\ {"failed", "usage"} \subseteq Failures \ {"none"} /\ CommandTicks \in Nat
      /\ "failed" \in Statuses
  BY TicksAssumption DEF Failures, Statuses
<1>7. KeptFields(m0, m0) /\ Continued(m0, m0)
  BY DEF KeptFields, Continued
<1>8. CASE Start(r)
  <2> DEFINE m == [m0 EXCEPT !.started = wall]
  <2>1. pc[r] = "idle" /\ Step(r, m, "inputs")
    BY <1>8 DEF Start
  <2>2. /\ m \in Memories /\ m.started = wall /\ m.doc = m0.doc
        /\ m.failure = m0.failure /\ m.exit = m0.exit /\ m.rb = m0.rb
        /\ m.pushed = m0.pushed /\ m.holds = m0.holds /\ m.claim = m0.claim
        /\ m.touched = m0.touched
    BY <1>1 DEF Memories
  <2> HIDE DEF m
  <2>3. /\ m0.failure = "none" /\ m0.exit = "running" /\ Unrestored(m0)
        /\ m0.holds => m0.claim # "none" /\ Open(d0)
        /\ m0.doc.verification # "passed"
        /\ OnlyFaults(TameKinds) => Dated(m0, wall)
    BY <1>7, <2>1, TryBefore
  <2>4. Unrestored(m) /\ (OnlyFaults(TameKinds) => Dated(m, wall))
    BY <1>1, <2>2, <2>3 DEF Unrestored, Dated
  <2>5. "inputs" \in TryStages \ TouchedStages
    BY DEF TryStages, TouchedStages, AcceptStages, RecoverStages
  <2> QED BY <1>1, <1>2, <1>4, <2>1, <2>2, <2>3, <2>4, <2>5, TryOutcome
<1>9. CASE DeadlineExpires(r)
  BY <1>1, <1>2, <1>4, <1>5, <1>6, <1>7, <1>9, TryFailOutcome DEF DeadlineExpires
<1>10. CASE ReadFails(r)
  <2>1. PICK m \in Elapse(m0, CommandTicks), f \in {"failed", "usage"} : Fail(r, m, f)
    BY <1>10 DEF ReadFails
  <2>2. m \in Memories /\ Continued(m, m0)
    BY <1>1, <1>6, ElapseContinued
  <2> QED BY <1>2, <1>4, <1>5, <1>6, <1>10, <2>1, <2>2, TryFailOutcome DEF ReadFails
<1>11. CASE Signal(r)
  <2>1. Fault("signal")
    BY <1>11 DEF Signal
  <2>2. Signalled' /\ (Tame' => ~Signalled)
    <3>1. Signalled'
      <4>1. faults \in Seq(FaultKinds) /\ "signal" \in FaultKinds
        BY DEF TypeOK, FaultKinds
      <4>2. Len(faults') \in 1..Len(faults') /\ faults'[Len(faults')] = "signal"
        BY <2>1, <4>1 DEF Fault
      <4> QED BY <4>2 DEF Signalled
    <3> QED BY <2>1, <3>1, FaultTames
  <2>3. CASE pc[r] \in TryStages /\ Fail(r, m0, "failed")
    BY <1>1, <1>2, <1>4, <1>6, <1>7, <2>3, TryFailOutcome
  <2>4. CASE pc[r] \in FinishStages /\ m0.failure = "none" /\ Fail(r, m0, "failed")
    <3>1. /\ Unrestored(m0) /\ m0.exit = "running"
          /\ m0.holds => m0.claim # "none" /\ d0.receipt.state # "rolled_back"
      BY <1>1, <1>3, <2>4 DEF Decided, Restoring, Unrestored
    <3>2. Tame' /\ m0.holds /\ d0.receipt.verification = "passed" => m0.doc = d0.receipt
      BY <1>3, <2>4 DEF Agrees, FinishStages
    <3> QED BY <1>1, <1>2, <1>3, <1>4, <1>6, <2>2, <2>4, <3>1, <3>2, FailOutcome
  <2>5. CASE pc[r] \in RecoverStages /\ ~Escape(r)
    <3>1. /\ m0.pushed => m0.staged = m0.prior.config
          /\ pc[r] = "rb_apk" => ~m0.pushed /\ m0.rb.config # "restored"
          /\ Alone(r) =>
                /\ m0.rb.apk = "restored" => device.apk = m0.prior.apk
                /\ m0.rb.config = "restored" => device.config = m0.prior.config
      BY <1>1, OutcomeBefore DEF Decided, Restoring, Unrestored, OnDevice
    <3>2. \A rb \in [apk : Statuses, config : Statuses, fg : Statuses] :
              LET k == [m0 EXCEPT !.rb = rb]
              IN  /\ k \in Memories /\ KeptFields(k, m0) /\ k.doc = m0.doc
                  /\ k.claim = m0.claim /\ k.exit = m0.exit /\ k.rb = rb
                  /\ k.pushed = m0.pushed /\ k.staged = m0.staged /\ k.prior = m0.prior
      BY <1>1 DEF Memories, KeptFields
    <3>3. RecoverStages = {"rb_apk", "rb_push", "rb_move", "rb_start", "rb_write"}
          /\ RecoverStages \cap (TryStages \cup FinishStages) = {}
      BY StagesApart DEF RecoverStages
    <3>4. PICK rb \in [apk : Statuses, config : Statuses, fg : Statuses],
               s \in {"rb_push", "rb_start", "rb_write"} :
              /\ Step(r, [m0 EXCEPT !.rb = rb], s)
              /\ rb.apk \in {m0.rb.apk, "failed"} /\ rb.config \in {m0.rb.config, "failed"}
              /\ s = "rb_push" => pc[r] = "rb_apk"
      <4>1. m0.rb \in [apk : Statuses, config : Statuses, fg : Statuses]
        BY <1>1 DEF Memories
      <4>2. /\ [m0 EXCEPT !.rb.apk = "failed"] = [m0 EXCEPT !.rb = [m0.rb EXCEPT !.apk = "failed"]]
            /\ [m0 EXCEPT !.rb.config = "failed"]
                   = [m0 EXCEPT !.rb = [m0.rb EXCEPT !.config = "failed"]]
            /\ [m0 EXCEPT !.rb.fg = "failed"] = [m0 EXCEPT !.rb = [m0.rb EXCEPT !.fg = "failed"]]
        BY <1>1 DEF Memories
      <4>3. CASE pc[r] = "rb_apk" /\ Step(r, [m0 EXCEPT !.rb.apk = "failed"], "rb_push")
        <5> DEFINE rb == [m0.rb EXCEPT !.apk = "failed"]
        <5>1. /\ rb \in [apk : Statuses, config : Statuses, fg : Statuses]
              /\ rb.apk = "failed" /\ rb.config = m0.rb.config
          BY <1>6, <4>1
        <5> QED BY <4>2, <4>3, <5>1
      <4>4. CASE Step(r, [m0 EXCEPT !.rb.config = "failed"], "rb_start")
        <5> DEFINE rb == [m0.rb EXCEPT !.config = "failed"]
        <5>1. /\ rb \in [apk : Statuses, config : Statuses, fg : Statuses]
              /\ rb.apk = m0.rb.apk /\ rb.config = "failed"
          BY <1>6, <4>1
        <5> QED BY <4>2, <4>4, <5>1
      <4>5. CASE Step(r, [m0 EXCEPT !.rb.fg = "failed"], "rb_write")
        <5> DEFINE rb == [m0.rb EXCEPT !.fg = "failed"]
        <5>1. /\ rb \in [apk : Statuses, config : Statuses, fg : Statuses]
              /\ rb.apk = m0.rb.apk /\ rb.config = m0.rb.config
          BY <1>6, <4>1
        <5> QED BY <4>2, <4>5, <5>1
      <4>6. \/ pc[r] = "rb_apk" /\ Step(r, [m0 EXCEPT !.rb.apk = "failed"], "rb_push")
            \/ Step(r, [m0 EXCEPT !.rb.config = "failed"], "rb_start")
            \/ Step(r, [m0 EXCEPT !.rb.fg = "failed"], "rb_write")
        BY <1>11, <2>5, <3>3 DEF Signal, FinishStages
      <4> QED BY <4>3, <4>4, <4>5, <4>6
    <3> DEFINE k == [m0 EXCEPT !.rb = rb]
    <3>5. /\ k \in Memories /\ KeptFields(k, m0) /\ k.doc = m0.doc
          /\ k.claim = m0.claim /\ k.exit = m0.exit /\ k.rb = rb
          /\ k.pushed = m0.pushed /\ k.staged = m0.staged /\ k.prior = m0.prior
          /\ Step(r, k, s)
      BY <3>2, <3>4
    <3> HIDE DEF k
    <3>6. s \in (RecoverStages \ {"rb_apk"}) \cup {"fin_receipt"} /\ s # "rb_move"
      BY <3>3
    <3>7. /\ k.rb.apk = "restored" => m0.rb.apk = "restored"
          /\ k.rb.config = "restored" => m0.rb.config = "restored"
      BY <3>4, <3>5
    <3> QED BY <1>2, <1>4, <2>5, <3>1, <3>4, <3>5, <3>6, <3>7, RecoverOutcome
  <2>6. CASE /\ pc[r] \in {"fin_receipt", "fin_receipt_write"} /\ m0.failure # "none"
             /\ Step(r, m0, "fin_claim")
    <3>1. "fin_claim" \in FinishStages \ {"fin_receipt"} /\ "fin_claim" \notin RecoverStages
      BY DEF FinishStages, RecoverStages
    <3>2. m0.exit = "running"
      BY <1>3, <2>6 DEF FinishStages
    <3>3. Settling("fin_claim", m0, d0) /\ ~Shown("fin_claim", m0)
      BY <2>6, <3>2 DEF Settling, Shown
    <3>4. Tame' /\ m0.holds => Agrees("fin_claim", m0, d0, Signalled')
      BY <1>3, <2>2, <2>6, <3>1 DEF Agrees, ReceiptAgrees
    <3> QED BY <1>1, <1>2, <1>3, <1>4, <1>7, <2>6, <3>1, <3>2, <3>3, <3>4, LateOutcome
  <2>7. CASE Escape(r)
    BY <1>1, <1>2, <1>3, <1>4, <2>7, EscapeOutcome
  <2> QED BY <1>11, <2>3, <2>4, <2>5, <2>6, <2>7, StagesApart DEF Signal, RecoverStages
<1>12. CASE Kill(r)
  <2>1. Step(r, m0, "dead")
    BY <1>12 DEF Kill
  <2>2. "dead" \in EndStages \ {"fin_receipt"} /\ "dead" \notin RecoverStages \cup FinishStages
    BY DEF EndStages, RecoverStages, FinishStages
  <2>3. Settling("dead", m0, d0) /\ (Shown("dead", m0) => Shown(pc[r], m0))
    BY <1>3, <2>2 DEF Settling, Shown
  <2>4. Agrees("dead", m0, d0, Signalled')
    BY <2>2 DEF Agrees
  <2> QED BY <1>1, <1>2, <1>3, <1>4, <1>7, <2>1, <2>2, <2>3, <2>4, LateOutcome
<1> QED BY <1>8, <1>9, <1>10, <1>11, <1>12

(* The clocks.                                                              *)
LEMMA ClocksOutcome ==
    ASSUME TypeOK, OutcomeInv, Tick \/ ClockStep
    PROVE  OutcomeInv'
<1>1. UNCHANGED <<pc, run, disk, device>> /\ wall \in Nat
  BY DEF Tick, ClockStep, TypeOK
<1>2. DecidedInv' /\ DeviceInv'
  BY <1>1 DEF OutcomeInv, DecidedInv, DeviceInv, Alone, Mine
<1>3. CASE Tick
  <2>1. UNCHANGED faults /\ wall' = wall + 1
    BY <1>3 DEF Tick
  <2>2. AgreeInv'
    BY <1>1, <2>1 DEF OutcomeInv, AgreeInv, Tame, OnlyFaults, AtMostOne, Signalled, Mine
  <2>3. ASSUME NEW r \in Runs, Dated(run[r], wall) PROVE Dated(run'[r], wall')
    <3>1. run[r].started \in Nat /\ run[r].doc.history \in Seq(HistoryEntries)
      BY DEF TypeOK, Memories, Receipts
    <3>2. \A i \in 1..Len(run[r].doc.history) : run[r].doc.history[i].at \in Nat
      <4>1. \A i \in 1..Len(run[r].doc.history) : run[r].doc.history[i] \in HistoryEntries
        BY <3>1
      <4> QED BY <4>1 DEF HistoryEntries
    <3> QED BY <1>1, <2>1, <2>3, <3>1, <3>2 DEF Dated
  <2>4. DatedInv'
    BY <1>1, <2>1, <2>3 DEF OutcomeInv, DatedInv, OnlyFaults
  <2> QED BY <1>2, <2>2, <2>4 DEF OutcomeInv
<1>4. CASE ClockStep
  <2>1. Fault("clock") /\ wall' > 0
    BY <1>1, <1>4 DEF ClockStep
  <2>2. ~OnlyFaults(TameKinds)'
    <3>1. faults \in Seq(FaultKinds) /\ "clock" \in FaultKinds
      BY DEF TypeOK, FaultKinds
    <3>2. Len(faults') \in 1..Len(faults') /\ faults'[Len(faults')] = "clock"
      BY <2>1, <3>1 DEF Fault
    <3> QED BY <3>2 DEF OnlyFaults, TameKinds
  <2>3. AgreeInv' /\ DatedInv'
    BY <2>1, <2>2 DEF AgreeInv, DatedInv, Tame
  <2> QED BY <1>2, <2>3 DEF OutcomeInv
<1> QED BY <1>3, <1>4
-----------------------------------------------------------------------------
LEMMA InitOutcome == Init => OutcomeInv
<1> SUFFICES ASSUME Init PROVE OutcomeInv
  OBVIOUS
<1>1. ASSUME NEW r \in Runs
      PROVE  /\ pc[r] = "idle" /\ run[r] = NewRun /\ disk[Mine(r)] = NoDirectory
             /\ Decided(pc[r], run[r], disk[Mine(r)])
             /\ OnDevice(r, pc[r], run[r], device)
             /\ Agrees(pc[r], run[r], disk[Mine(r)], Signalled)
             /\ Dated(run[r], wall)
  <2>1. pc[r] = "idle" /\ run[r] = NewRun /\ disk[Mine(r)] = NoDirectory /\ wall = 1
    BY RunsAssumption DEF Init, Mine
  <2>2. /\ "idle" \notin TouchedStages \cup RecoverStages \cup FinishStages
        /\ "idle" \notin EndStages
    BY DEF TouchedStages, RecoverStages, FinishStages, AcceptStages, EndStages
  <2>3. Decided("idle", NewRun, NoDirectory)
    BY <2>2 DEF Decided, Trying, Restoring, Settling, Unrestored, NewRun, NoReceipt
  <2>4. OnDevice(r, "idle", NewRun, device)
    BY <2>2 DEF OnDevice, Shown, NewRun
  <2>5. Agrees("idle", NewRun, NoDirectory, Signalled)
    BY <2>2 DEF Agrees, NewRun
  <2>6. Dated(NewRun, 1)
    BY DEF Dated, NewRun, NoReceipt, NoTime
  <2> QED BY <2>1, <2>3, <2>4, <2>5, <2>6
<1>2. \A a \in Approvals : Unclaimed(disk[a])
  BY DEF Init, Unclaimed, NoDirectory
<1>3. wall > 0
  BY DEF Init
<1> QED BY <1>1, <1>2, <1>3 DEF OutcomeInv, DecidedInv, DeviceInv, AgreeInv, DatedInv

LEMMA NextOutcome ==
    TypeOK /\ IInv /\ RecordInv /\ OutcomeInv /\ [Next]_vars => OutcomeInv'
<1> SUFFICES ASSUME TypeOK, IInv, RecordInv, OutcomeInv, [Next]_vars
             PROVE  OutcomeInv'
  OBVIOUS
<1>1. CASE UNCHANGED vars
  BY <1>1 DEF vars, OutcomeInv, DecidedInv, DeviceInv, AgreeInv, DatedInv, Alone, Mine,
     Tame, OnlyFaults, AtMostOne, Signalled
<1>2. CASE Tick \/ ClockStep
  BY <1>2, ClocksOutcome
<1>3. ASSUME NEW r \in Runs,
             Start(r) \/ Proceed(r) \/ ReadFails(r) \/ Signal(r) \/ Kill(r)
      PROVE  OutcomeInv'
  <2>1. ClaimInv /\ ReceiptInv
    BY DEF IInv
  <2>2. CASE Claims(r)
    BY <2>1, <2>2, ClaimsOutcome
  <2>3. CASE Works(r)
    BY <2>1, <2>3, WorksOutcome
  <2>4. CASE Accepts(r)
    BY <2>1, <2>4, AcceptsOutcome
  <2>5. CASE Recovers(r)
    BY <2>1, <2>5, RecoversOutcome
  <2>6. CASE Finishes(r)
    BY <2>1, <2>6, FinishesOutcome
  <2>7. CASE Start(r) \/ DeadlineExpires(r) \/ ReadFails(r) \/ Signal(r) \/ Kill(r)
    BY <2>1, <2>7, EnvironmentOutcome
  <2> QED BY <1>3, <2>2, <2>3, <2>4, <2>5, <2>6, <2>7 DEF Proceed
<1> QED BY <1>1, <1>2, <1>3 DEF Next

(* The inductive invariant of the outcomes: what each stage of a run has    *)
(* decided is what the device and its files will say.                       *)
THEOREM OutcomeHolds == Spec => []OutcomeInv
BY TypeCorrect, InvariantHolds, RecordHolds, InitOutcome, NextOutcome, PTL DEF Spec

(* A receipt that says rolled_back is true of the device: a restore is      *)
(* believed only after its own command succeeded, and nothing changes the   *)
(* device after it (the rollback and _finalize_failed_release_receipt).     *)
THEOREM RolledBackTellsTheTruth == Spec => []RolledBackIsRestored
<1>1. TypeOK /\ IInv /\ RecordInv /\ OutcomeInv => RolledBackIsRestored
  <2> SUFFICES ASSUME TypeOK, IInv, RecordInv, OutcomeInv,
                      NEW r \in Runs, Owns(r), Alone(r),
                      disk[Mine(r)].receipt.state = "rolled_back"
               PROVE  device.apk = run[r].prior.apk /\ device.config = run[r].prior.config
    BY DEF RolledBackIsRestored
  <2>1. /\ Decided(pc[r], run[r], disk[Mine(r)])
        /\ OnDevice(r, pc[r], run[r], device)
    BY OutcomeBefore
  <2>2. pc[r] # "write_receipt"
    BY <2>1 DEF Decided, Trying, TryStages, ClaimStages, NoReceipt
  <2>3. run[r].doc.state = "rolled_back"
    BY <2>1, <2>2 DEF Decided, Owns
  <2>4. RestoreCompleted(run[r])
    BY <2>1, <2>3 DEF Decided, Restoring
  <2> QED BY <2>1, <2>4 DEF RestoreCompleted, OnDevice
<1> QED BY <1>1, TypeCorrect, InvariantHolds, RecordHolds, OutcomeHolds, PTL

(* Exit code 0 is chosen only when the receipt, the claim and the evidence  *)
(* were written as accepted, and the last stage saw the device as approved. *)
THEOREM AcceptedIsTrue == Spec => []ExitZeroMeansAccepted
<1>1. TypeOK /\ OutcomeInv => ExitZeroMeansAccepted
  <2> SUFFICES ASSUME TypeOK, OutcomeInv, NEW r \in Runs, run[r].exit = "ok"
               PROVE  /\ AcceptedFiles(disk[Mine(r)])
                      /\ Alone(r) => Shows(device, Mine(r), TRUE)
    BY DEF ExitZeroMeansAccepted, AcceptedFiles, CompletedClaim
  <2> QED BY OutcomeBefore DEF Decided, Settling, OnDevice, Shown
<1> QED BY <1>1, TypeCorrect, OutcomeHolds, PTL

(* The files of a run that ended by itself agree with each other and with   *)
(* its exit code: an exception after the receipt had passed is a signal,    *)
(* and then finish() revises the receipt.                                   *)
THEOREM FilesAgree == Spec => []RecordsAgree
<1>1. TypeOK /\ OutcomeInv => RecordsAgree
  <2> SUFFICES ASSUME TypeOK, OutcomeInv, Tame,
                      NEW r \in Runs, pc[r] = "done", run[r].holds
               PROVE  /\ ReceiptAgrees(disk[Mine(r)], run[r].exit = "ok")
                      /\ ClaimAgrees(disk[Mine(r)], run[r].exit = "ok")
                      /\ disk[Mine(r)].evidence.result = ResultOf(run[r].exit = "ok")
    BY DEF RecordsAgree, ReceiptAgrees, ClaimAgrees, ResultOf, Tame, TameKinds,
       CompletedClaim, FailedClaim
  <2> QED BY OutcomeBefore DEF Agrees
<1> QED BY <1>1, TypeCorrect, OutcomeHolds, PTL
=============================================================================

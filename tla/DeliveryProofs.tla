--------------------------- MODULE DeliveryProofs ---------------------------
(* Theorems about Delivery, for every set of runs, approvals, faults and    *)
(* timeouts that its assumptions allow.                                     *)
EXTENDS Delivery, TLAPS

(* What a step writes back is a run's memory and a stage.                   *)
LEMMA StepTyped ==
    ASSUME TypeOK, NEW r \in Runs, NEW m \in Memories, NEW s \in Stages, Step(r, m, s)
    PROVE  /\ pc' \in [Runs -> Stages]
           /\ run' \in [Runs -> Memories]
BY DEF TypeOK, Step

(* A command takes a run to a memory with less time left.                   *)
LEMMA ElapseTyped ==
    ASSUME NEW m0 \in Memories, NEW n \in Nat, NEW m \in Elapse(m0, n)
    PROVE  /\ m \in Memories
           /\ m = [m0 EXCEPT !.left = m.left]
           /\ m.left \in Nat
           /\ m0.left - m.left <= n
<1>1. PICK t \in 0..m0.left : t <= n /\ m = [m0 EXCEPT !.left = m0.left - t]
  BY DEF Elapse
<1>2. m0.left \in Nat
  BY DEF Memories
<1>3. m0.left - t \in Nat
  BY <1>1, <1>2
<1>4. m \in Memories
  BY <1>1, <1>3 DEF Memories
<1>5. m.left = m0.left - t
  BY <1>1 DEF Memories
<1> QED BY <1>1, <1>2, <1>3, <1>4, <1>5

(* An exception leads to the rollback or to finish().                       *)
LEMMA FailTyped ==
    ASSUME TypeOK, NEW r \in Runs, NEW m \in Memories, NEW f \in Failures,
           Fail(r, m, f)
    PROVE  /\ pc' \in [Runs -> Stages]
           /\ run' \in [Runs -> Memories]
<1>1. [m EXCEPT !.failure = f] \in Memories
  BY DEF Memories
<1>2. Recovering([m EXCEPT !.failure = f]) \in Memories
  BY <1>1, TicksAssumption DEF Recovering, Memories, Contents, Statuses
<1>3. {"rb_apk", "fin_receipt"} \subseteq Stages
  BY DEF Stages, RecoverStages, FinishStages
<1> QED BY <1>1, <1>2, <1>3, StepTyped DEF Fail

(* A fault is one of the kinds and is appended to the record of them.       *)
LEMMA FaultTyped ==
    ASSUME TypeOK, NEW kind \in FaultKinds, Fault(kind)
    PROVE  faults' \in Seq(FaultKinds)
BY DEF Fault, TypeOK

(* Whatever the validator says, the run goes on or fails.                   *)
LEMMA ValidateTyped ==
    ASSUME TypeOK, NEW r \in Runs, NEW m \in Memories, NEW s \in Stages,
           Validate(r, m, s)
    PROVE  /\ pc' \in [Runs -> Stages]
           /\ run' \in [Runs -> Memories]
           /\ faults' \in Seq(FaultKinds)
<1>1. "failed" \in Failures /\ "validator" \in FaultKinds
  BY DEF Failures, FaultKinds
<1>2. CASE Step(r, m, s) /\ UNCHANGED faults
  BY <1>2, StepTyped DEF TypeOK
<1>3. CASE Fail(r, m, "failed") /\ UNCHANGED faults
  BY <1>1, <1>3, FailTyped DEF TypeOK
<1>4. CASE Fault("validator") /\ Fail(r, m, "failed")
  BY <1>1, <1>4, FailTyped, FaultTyped
<1> QED BY <1>2, <1>3, <1>4 DEF Validate

(* A command on the device leaves a device and a run of their types.        *)
LEMMA CommandTyped ==
    ASSUME TypeOK, NEW r \in Runs, NEW m0 \in Memories, NEW effect \in Devices,
           NEW partial \in SUBSET Devices, NEW accepted, NEW s \in Stages,
           Command(r, m0, CommandTicks, effect, partial, accepted, s)
    PROVE  TypeOK'
<1>1. "failed" \in Failures /\ "command" \in FaultKinds
  BY DEF Failures, FaultKinds
<1>2. CommandTicks \in Nat
  BY TicksAssumption
<1>3. PICK m \in Elapse(m0, CommandTicks) :
          \/ /\ device' = effect
             /\ IF accepted THEN Step(r, m, s) ELSE Fail(r, m, "failed")
             /\ UNCHANGED faults
          \/ /\ Fault("command")
             /\ device' \in partial \cup {device, effect}
             /\ Fail(r, m, "failed")
  BY DEF Command
<1>4. m \in Memories
  BY <1>2, ElapseTyped
<1>5. device' \in Devices
  BY <1>3 DEF TypeOK
<1>6. faults' \in Seq(FaultKinds)
  BY <1>1, <1>3, FaultTyped DEF TypeOK
<1>7. /\ pc' \in [Runs -> Stages]
      /\ run' \in [Runs -> Memories]
  BY <1>1, <1>3, <1>4, StepTyped, FailTyped
<1>8. UNCHANGED <<disk, wall>>
  BY DEF Command
<1> QED BY <1>5, <1>6, <1>7, <1>8 DEF TypeOK

(* A write that fails leaves every type alone.                              *)
LEMMA WriteFailsTyped ==
    ASSUME TypeOK, NEW r \in Runs, NEW m \in Memories, NEW f \in Failures,
           WriteFails(r, m, f)
    PROVE  /\ pc' \in [Runs -> Stages]
           /\ run' \in [Runs -> Memories]
           /\ disk' \in [Approvals -> Directories]
           /\ faults' \in Seq(FaultKinds)
<1>1. "write" \in FaultKinds
  BY DEF FaultKinds
<1> QED BY <1>1, FailTyped, FaultTyped DEF WriteFails, TypeOK
-----------------------------------------------------------------------------
(* The stages up to the claim keep the types.                               *)
LEMMA ClaimsTyped ==
    ASSUME TypeOK, NEW r \in Runs, Claims(r)
    PROVE  TypeOK'
<1> DEFINE m0 == run[r]
<1>1. m0 \in Memories /\ Mine(r) \in Approvals
  BY RunsAssumption DEF TypeOK, Mine
<1>2. {"failed", "usage", "replay"} \subseteq Failures /\ "write" \in FaultKinds
  BY DEF Failures, FaultKinds
<1>3. {"release", "preflight", "check", "mkdir", "write_receipt", "write_claim",
       "write_evidence", "snapshot_apk"} \subseteq Stages
  BY DEF Stages, TryStages, ClaimStages, SnapshotStages
<1>4. CommandTicks \in Nat
  BY TicksAssumption
<1>5. CASE StaticInputs(r)
  <2>1. PICK m \in Elapse(m0, CommandTicks) :
            IF Fresh(Mine(r))
            THEN Step(r, [m EXCEPT !.doc = PublishedReceipt(m.started)], "release")
            ELSE Fail(r, m, "failed")
    BY <1>5 DEF StaticInputs
  <2>2. m \in Memories
    BY <1>1, <1>4, ElapseTyped
  <2>3. PublishedReceipt(m.started) \in Receipts
    BY <2>2 DEF PublishedReceipt, Receipts, Memories, HistoryEntries,
                DeliveryStates, VerificationStates, NoTime
  <2>4. [m EXCEPT !.doc = PublishedReceipt(m.started)] \in Memories
    BY <2>2, <2>3 DEF Memories
  <2>5. pc' \in [Runs -> Stages] /\ run' \in [Runs -> Memories]
    BY <1>2, <1>3, <2>1, <2>2, <2>4, StepTyped, FailTyped
  <2> QED BY <1>5, <2>5 DEF StaticInputs, TypeOK
<1>6. CASE AcquireRelease(r)
  <2>1. PICK m \in Elapse(m0, CommandTicks) : Step(r, m, "preflight")
    BY <1>6 DEF AcquireRelease
  <2>2. pc' \in [Runs -> Stages] /\ run' \in [Runs -> Memories]
    BY <1>1, <1>3, <1>4, <2>1, ElapseTyped, StepTyped
  <2> QED BY <1>6, <2>2 DEF AcquireRelease, TypeOK
<1>7. CASE Preflight(r)
  <2>1. PICK m \in Elapse(m0, CommandTicks) : Step(r, m, "check")
    BY <1>7 DEF Preflight
  <2>2. pc' \in [Runs -> Stages] /\ run' \in [Runs -> Memories]
    BY <1>1, <1>3, <1>4, <2>1, ElapseTyped, StepTyped
  <2> QED BY <1>7, <2>2 DEF Preflight, TypeOK
<1>8. CASE CheckClaim(r)
  <2>1. /\ pc' \in [Runs -> Stages] /\ run' \in [Runs -> Memories]
        /\ faults' \in Seq(FaultKinds)
    BY <1>1, <1>2, <1>3, <1>8, ValidateTyped, FailTyped DEF CheckClaim, TypeOK
  <2> QED BY <1>8, <2>1 DEF CheckClaim, TypeOK
<1>9. CASE MakeClaimDirectory(r)
  <2>1. /\ pc' \in [Runs -> Stages] /\ run' \in [Runs -> Memories]
        /\ faults' \in Seq(FaultKinds)
    BY <1>1, <1>2, <1>3, <1>9, StepTyped, FailTyped, FaultTyped
    DEF MakeClaimDirectory, TypeOK
  <2>2. disk' \in [Approvals -> Directories]
    BY <1>1, <1>9 DEF MakeClaimDirectory, TypeOK, Directories
  <2> QED BY <1>9, <2>1, <2>2 DEF MakeClaimDirectory, TypeOK
<1>10. CASE WriteReceipt(r)
  <2> DEFINE m == [m0 EXCEPT !.holds = TRUE, !.claim = "executing"]
  <2>1. m \in Memories
    BY <1>1 DEF Memories, ClaimStates
  <2>2. CASE /\ disk' = [disk EXCEPT ![Mine(r)].receipt = m.doc]
             /\ Step(r, m, "write_claim")
             /\ UNCHANGED faults
    <3>1. m.doc \in Receipts
      BY <2>1 DEF Memories
    <3>2. disk' \in [Approvals -> Directories]
      BY <1>1, <2>2, <3>1 DEF TypeOK, Directories
    <3> QED BY <1>3, <1>10, <2>1, <2>2, <3>2, StepTyped DEF TypeOK, WriteReceipt
  <2>3. CASE WriteFails(r, m, "usage")
    BY <1>2, <1>10, <2>1, <2>3, WriteFailsTyped DEF TypeOK, WriteReceipt
  <2> QED BY <1>10, <2>2, <2>3 DEF WriteReceipt
<1>11. CASE WriteClaim(r)
  <2>1. CASE /\ disk' = [disk EXCEPT ![Mine(r)].claim =
                            [state |-> "executing", ok |-> FALSE]]
             /\ Step(r, m0, "write_evidence")
             /\ UNCHANGED faults
    <3>1. disk' \in [Approvals -> Directories]
      BY <1>1, <2>1 DEF TypeOK, Directories, ClaimFiles, ClaimStates
    <3> QED BY <1>1, <1>3, <1>11, <2>1, <3>1, StepTyped DEF TypeOK, WriteClaim
  <2>2. CASE WriteFails(r, m0, "usage")
    BY <1>1, <1>2, <1>11, <2>2, WriteFailsTyped DEF TypeOK, WriteClaim
  <2> QED BY <1>11, <2>1, <2>2 DEF WriteClaim
<1>12. CASE WriteEvidence(r)
  <2>1. CASE /\ disk' = [disk EXCEPT ![Mine(r)].evidence = m0.evidence]
             /\ Step(r, m0, "snapshot_apk")
             /\ UNCHANGED faults
    <3>1. disk' \in [Approvals -> Directories]
      BY <1>1, <2>1 DEF TypeOK, Directories, Memories
    <3> QED BY <1>1, <1>3, <1>12, <2>1, <3>1, StepTyped DEF TypeOK, WriteEvidence
  <2>2. CASE WriteFails(r, m0, "failed")
    BY <1>1, <1>2, <1>12, <2>2, WriteFailsTyped DEF TypeOK, WriteEvidence
  <2> QED BY <1>12, <2>1, <2>2 DEF WriteEvidence
<1> QED BY <1>5, <1>6, <1>7, <1>8, <1>9, <1>10, <1>11, <1>12 DEF Claims

(* Writing receipt.json keeps the types.                                    *)
LEMMA PersistTyped ==
    ASSUME TypeOK, NEW r \in Runs, NEW stage, NEW next \in Stages,
           PersistReceipt(r, stage, next)
    PROVE  TypeOK'
<1>1. run[r] \in Memories /\ run[r].doc \in Receipts /\ Mine(r) \in Approvals
  BY RunsAssumption DEF TypeOK, Mine, Memories
<1>2. CASE /\ disk' = [disk EXCEPT ![Mine(r)].receipt = run[r].doc]
           /\ Step(r, run[r], next)
           /\ UNCHANGED faults
  <2>1. disk' \in [Approvals -> Directories]
    BY <1>1, <1>2 DEF TypeOK, Directories
  <2> QED BY <1>1, <1>2, <2>1, StepTyped DEF PersistReceipt, TypeOK
<1>3. CASE WriteFails(r, run[r], "failed")
  BY <1>1, <1>3, WriteFailsTyped DEF PersistReceipt, TypeOK, Failures
<1> QED BY <1>2, <1>3 DEF PersistReceipt

(* A dated entry extends a history to a history.                            *)
LEMMA AppendTyped ==
    ASSUME NEW doc \in Receipts, NEW state \in DeliveryStates, NEW at \in Nat
    PROVE  Append(doc.history, [state |-> state, at |-> at]) \in Seq(HistoryEntries)
<1>1. [state |-> state, at |-> at] \in HistoryEntries
  BY DEF HistoryEntries
<1> QED BY <1>1 DEF Receipts

(* _mark_release_delivered makes a receipt of a receipt.                    *)
LEMMA DeliveredTyped ==
    ASSUME TypeOK, NEW m \in Memories
    PROVE  Delivered(m.doc) \in Receipts
<1>1. m.doc \in Receipts /\ wall \in Nat
  BY DEF Memories, TypeOK
<1>2. Append(m.doc.history, [state |-> "delivered", at |-> wall]) \in Seq(HistoryEntries)
  BY <1>1, AppendTyped DEF DeliveryStates
<1> QED BY <1>1, <1>2 DEF Delivered, Receipts, DeliveryStates

(* _finalize_failed_release_receipt makes a receipt of a receipt.           *)
LEMMA FailedReceiptTyped ==
    ASSUME TypeOK, NEW m \in Memories
    PROVE  FailedReceipt(m) \in Receipts
<1>1. m.doc \in Receipts /\ wall \in Nat
  BY DEF Memories, TypeOK
<1>2. Append(m.doc.history, [state |-> "rolled_back", at |-> wall]) \in Seq(HistoryEntries)
  BY <1>1, AppendTyped DEF DeliveryStates
<1>3. RestoreCompleted(m) \in BOOLEAN
  BY DEF RestoreCompleted
<1> QED BY <1>1, <1>2, <1>3 DEF FailedReceipt, Receipts, DeliveryStates, VerificationStates

(* The snapshot and the installation keep the types.                        *)
LEMMA WorksTyped ==
    ASSUME TypeOK, NEW r \in Runs, Works(r)
    PROVE  TypeOK'
<1> DEFINE m0 == run[r]
<1>1. m0 \in Memories /\ Mine(r) \in Approvals /\ device \in Devices
  BY RunsAssumption DEF TypeOK, Mine
<1>2. {"failed", "usage"} \subseteq Failures /\ {"command", "write"} \subseteq FaultKinds
  BY DEF Failures, FaultKinds
<1>3. {"snapshot_config", "snapshot_write", "install", "deliver", "deliver_write",
       "push", "publish", "identity"} \subseteq Stages
  BY DEF Stages, TryStages, SnapshotStages, InstallStages, AcceptStages
<1>4. CommandTicks \in Nat
  BY TicksAssumption
<1>5. CASE SnapshotPackage(r)
  <2>1. PICK m \in Elapse(m0, CommandTicks) :
            Step(r, [m EXCEPT !.prior.apk = device.apk, !.prior.fg = device.fg],
                 "snapshot_config")
    BY <1>5 DEF SnapshotPackage
  <2>2. m \in Memories
    BY <1>1, <1>4, ElapseTyped
  <2>3. [m EXCEPT !.prior.apk = device.apk, !.prior.fg = device.fg] \in Memories
    BY <1>1, <2>2 DEF Memories, Devices
  <2> QED BY <1>3, <1>5, <2>1, <2>3, StepTyped DEF SnapshotPackage, TypeOK
<1>6. CASE SnapshotConfig(r)
  <2>1. PICK m \in Elapse(m0, CommandTicks) :
            \/ /\ Step(r, [m EXCEPT !.prior.config = device.config], "snapshot_write")
               /\ UNCHANGED faults
            \/ /\ Fault("command")
               /\ Step(r, [m EXCEPT !.prior.config = "absent"], "snapshot_write")
    BY <1>6 DEF SnapshotConfig
  <2>2. m \in Memories
    BY <1>1, <1>4, ElapseTyped
  <2>3. /\ [m EXCEPT !.prior.config = device.config] \in Memories
        /\ [m EXCEPT !.prior.config = "absent"] \in Memories
    BY <1>1, <2>2 DEF Memories, Devices, Contents
  <2>4. /\ pc' \in [Runs -> Stages] /\ run' \in [Runs -> Memories]
        /\ faults' \in Seq(FaultKinds)
    BY <1>2, <1>3, <2>1, <2>3, StepTyped, FaultTyped DEF TypeOK
  <2> QED BY <1>6, <2>4 DEF SnapshotConfig, TypeOK
<1>7. CASE SnapshotWrite(r)
  <2> DEFINE m == [m0 EXCEPT !.evidence.prior = TRUE]
  <2>1. m \in Memories /\ m.evidence \in EvidenceFiles
    BY <1>1 DEF Memories, EvidenceFiles
  <2>2. CASE /\ disk' = [disk EXCEPT ![Mine(r)].evidence = m.evidence]
             /\ Step(r, m, "install")
             /\ UNCHANGED faults
    <3>1. disk' \in [Approvals -> Directories]
      BY <1>1, <2>1, <2>2 DEF TypeOK, Directories
    <3> QED BY <1>3, <1>7, <2>1, <2>2, <3>1, StepTyped DEF TypeOK, SnapshotWrite
  <2>3. CASE WriteFails(r, m, "failed")
    BY <1>2, <1>7, <2>1, <2>3, WriteFailsTyped DEF TypeOK, SnapshotWrite
  <2> QED BY <1>7, <2>2, <2>3 DEF SnapshotWrite
<1>8. CASE Install(r)
  <2>1. [m0 EXCEPT !.touched = TRUE] \in Memories
    BY <1>1 DEF Memories
  <2>2. [device EXCEPT !.apk = "release"] \in Devices
    BY <1>1 DEF Devices, Packages
  <2> QED BY <1>3, <1>8, <2>1, <2>2, CommandTyped DEF Install
<1>9. CASE MarkDelivered(r)
  <2> DEFINE m == [m0 EXCEPT !.doc = Delivered(@)]
  <2>1. Delivered(m0.doc) \in Receipts
    BY <1>1, DeliveredTyped
  <2>2. m \in Memories
    BY <1>1, <2>1 DEF Memories
  <2>3. Validate(r, m, "deliver_write")
    BY <1>9 DEF MarkDelivered
  <2> QED BY <1>3, <1>9, <2>2, <2>3, ValidateTyped DEF MarkDelivered, TypeOK
<1>10. CASE PersistDelivered(r)
  BY <1>3, <1>10, PersistTyped DEF PersistDelivered
<1>11. CASE PushConfig(r)
  BY <1>1, <1>3, <1>11, CommandTyped DEF PushConfig
<1>12. CASE PublishConfig(r)
  <2>1. [device EXCEPT !.config = Mine(r)] \in Devices
    BY <1>1 DEF Devices, Contents
  <2> QED BY <1>1, <1>3, <1>12, <2>1, CommandTyped DEF PublishConfig
<1> QED BY <1>5, <1>6, <1>7, <1>8, <1>9, <1>10, <1>11, <1>12 DEF Works

(* The acceptance stages keep the types.                                    *)
LEMMA AcceptsTyped ==
    ASSUME TypeOK, NEW r \in Runs, Accepts(r)
    PROVE  TypeOK'
<1> DEFINE m0 == run[r]
<1>1. m0 \in Memories /\ Mine(r) \in Approvals /\ device \in Devices
  BY RunsAssumption DEF TypeOK, Mine
<1>2. {"launch", "home", "restart_home", "back", "restart_back", "reboot", "boot",
       "soak", "complete", "complete_write", "fin_claim"} \subseteq Stages
  BY DEF Stages, TryStages, AcceptStages, FinishStages
<1>3. /\ {Launched, Stopped} \subseteq Devices
      /\ [device EXCEPT !.fg = "none"] \in Devices
      /\ [device EXCEPT !.fg = "other"] \in Devices
      /\ [device EXCEPT !.fg = "clock", !.boot = TRUE] \in Devices
  BY <1>1 DEF Launched, Stopped, Devices, Foregrounds
<1>4. CASE VerifyIdentity(r)
  BY <1>1, <1>2, <1>4, CommandTyped DEF VerifyIdentity
<1>5. CASE Launch(r)
  BY <1>1, <1>2, <1>3, <1>5, CommandTyped DEF Launch
<1>6. CASE PressHome(r)
  BY <1>1, <1>2, <1>3, <1>6, CommandTyped DEF PressHome
<1>7. CASE PressBack(r)
  BY <1>1, <1>2, <1>3, <1>7, CommandTyped DEF PressBack
<1>8. CASE Restart(r, "restart_home", "back")
  BY <1>1, <1>2, <1>3, <1>8, CommandTyped DEF Restart
<1>9. CASE Restart(r, "restart_back", "reboot")
  BY <1>1, <1>2, <1>3, <1>9, CommandTyped DEF Restart
<1>10. CASE Reboot(r)
  BY <1>1, <1>2, <1>3, <1>10, CommandTyped DEF Reboot
<1>11. CASE VerifyBoot(r)
  BY <1>1, <1>2, <1>3, <1>11, CommandTyped DEF VerifyBoot
<1>12. CASE Soak(r)
  BY <1>1, <1>2, <1>12, CommandTyped DEF Soak
<1>13. CASE CompleteReceipt(r)
  <2> DEFINE m == [m0 EXCEPT !.doc.verification = "passed", !.doc.verifiedAt = wall]
  <2>1. m \in Memories
    BY <1>1 DEF Memories, Receipts, VerificationStates, TypeOK
  <2>2. Validate(r, m, "complete_write")
    BY <1>13 DEF CompleteReceipt
  <2> QED BY <1>2, <1>13, <2>1, <2>2, ValidateTyped DEF CompleteReceipt, TypeOK
<1>14. CASE PersistCompleted(r)
  BY <1>2, <1>14, PersistTyped DEF PersistCompleted
<1> QED BY <1>4, <1>5, <1>6, <1>7, <1>8, <1>9, <1>10, <1>11, <1>12, <1>13, <1>14
        DEF Accepts

(* The status of one restore is the only thing that a restore changes.      *)
LEMMA RestoreTyped ==
    ASSUME NEW m \in Memories, NEW status \in Statuses
    PROVE  /\ [m EXCEPT !.rb.apk = status] \in Memories
           /\ [m EXCEPT !.rb.config = status] \in Memories
           /\ [m EXCEPT !.rb.fg = status] \in Memories
BY DEF Memories

(* The stages of rollback() keep the types.                                 *)
LEMMA RecoversTyped ==
    ASSUME TypeOK, NEW r \in Runs, Recovers(r)
    PROVE  TypeOK'
<1> DEFINE m0 == run[r]
<1>1. /\ m0 \in Memories /\ Mine(r) \in Approvals /\ device \in Devices
      /\ m0.evidence \in EvidenceFiles
  BY RunsAssumption DEF TypeOK, Mine, Memories
<1>2. {"not_available", "failed", "restored"} \subseteq Statuses
      /\ {"command", "write"} \subseteq FaultKinds
  BY DEF Statuses, FaultKinds
<1>3. {"rb_push", "rb_move", "rb_start", "rb_write", "fin_receipt"} \subseteq Stages
  BY DEF Stages, RecoverStages, FinishStages
<1>4. InstallTicks \in Nat /\ QuickTicks \in Nat
  BY TicksAssumption
<1>5. CASE RestorePackage(r)
  <2> DEFINE after == IF m0.left > 0 THEN [device EXCEPT !.apk = m0.prior.apk]
                      ELSE device
             status == IF m0.left > 0 THEN "restored" ELSE "failed"
  <2>1. after \in Devices /\ status \in Statuses
    BY <1>1, <1>2 DEF Devices, Memories
  <2>2. CASE /\ Step(r, [m0 EXCEPT !.rb.apk = "not_available"], "rb_push")
             /\ UNCHANGED <<device, faults>>
    BY <1>1, <1>2, <1>3, <1>5, <2>2, RestoreTyped, StepTyped DEF RestorePackage, TypeOK
  <2>3. CASE \E m \in Elapse(m0, InstallTicks) :
                \/ /\ device' = after
                   /\ Step(r, [m EXCEPT !.rb.apk = status], "rb_push")
                   /\ UNCHANGED faults
                \/ /\ Fault("command")
                   /\ device' \in {device, after}
                   /\ Step(r, [m EXCEPT !.rb.apk = "failed"], "rb_push")
    <3>1. PICK m \in Elapse(m0, InstallTicks) :
                \/ /\ device' = after
                   /\ Step(r, [m EXCEPT !.rb.apk = status], "rb_push")
                   /\ UNCHANGED faults
                \/ /\ Fault("command")
                   /\ device' \in {device, after}
                   /\ Step(r, [m EXCEPT !.rb.apk = "failed"], "rb_push")
      BY <2>3
    <3>2. m \in Memories
      BY <1>1, <1>4, ElapseTyped
    <3>3. /\ pc' \in [Runs -> Stages] /\ run' \in [Runs -> Memories]
          /\ device' \in Devices /\ faults' \in Seq(FaultKinds)
      BY <1>1, <1>2, <1>3, <2>1, <3>1, <3>2, RestoreTyped, StepTyped, FaultTyped
      DEF TypeOK
    <3> QED BY <1>5, <3>3 DEF RestorePackage, TypeOK
  <2> QED BY <1>5, <2>2, <2>3 DEF RestorePackage
<1>6. CASE PushPrior(r)
  <2>1. CASE /\ Step(r, [m0 EXCEPT !.rb.config = "not_available"], "rb_start")
             /\ UNCHANGED faults
    BY <1>1, <1>2, <1>3, <1>6, <2>1, RestoreTyped, StepTyped DEF PushPrior, TypeOK
  <2>2. CASE \E m \in Elapse(m0, QuickTicks) :
                \/ /\ IF m0.left > 0
                      THEN Step(r, [m EXCEPT !.staged = m0.prior.config,
                                             !.pushed = TRUE], "rb_move")
                      ELSE Step(r, [m EXCEPT !.rb.config = "failed"], "rb_start")
                   /\ UNCHANGED faults
                \/ /\ Fault("command")
                   /\ \/ \E part \in {"absent", "torn", m0.prior.config} :
                            Step(r, [m EXCEPT !.staged = part], "rb_move")
                      \/ Step(r, [m EXCEPT !.rb.config = "failed"], "rb_start")
    <3>1. PICK m \in Elapse(m0, QuickTicks) :
                \/ /\ IF m0.left > 0
                      THEN Step(r, [m EXCEPT !.staged = m0.prior.config,
                                             !.pushed = TRUE], "rb_move")
                      ELSE Step(r, [m EXCEPT !.rb.config = "failed"], "rb_start")
                   /\ UNCHANGED faults
                \/ /\ Fault("command")
                   /\ \/ \E part \in {"absent", "torn", m0.prior.config} :
                            Step(r, [m EXCEPT !.staged = part], "rb_move")
                      \/ Step(r, [m EXCEPT !.rb.config = "failed"], "rb_start")
      BY <2>2
    <3>2. m \in Memories
      BY <1>1, <1>4, ElapseTyped
    <3>3. {"absent", "torn", m0.prior.config} \subseteq Contents
      BY <1>1 DEF Memories, Contents
    <3>4. /\ [m EXCEPT !.staged = m0.prior.config, !.pushed = TRUE] \in Memories
          /\ \A part \in Contents : [m EXCEPT !.staged = part] \in Memories
      BY <3>2, <3>3 DEF Memories
    <3>5. /\ pc' \in [Runs -> Stages] /\ run' \in [Runs -> Memories]
          /\ faults' \in Seq(FaultKinds)
      BY <1>2, <1>3, <3>1, <3>2, <3>3, <3>4, RestoreTyped, StepTyped, FaultTyped
      DEF TypeOK
    <3> QED BY <1>6, <3>5 DEF PushPrior, TypeOK
  <2> QED BY <1>6, <2>1, <2>2 DEF PushPrior
<1>7. CASE MovePrior(r)
  <2> DEFINE moves == m0.left > 0 /\ m0.staged # "absent"
             after == IF moves THEN [device EXCEPT !.config = m0.staged] ELSE device
             status == IF moves /\ m0.pushed THEN "restored" ELSE "failed"
  <2>1. after \in Devices /\ status \in Statuses
    BY <1>1, <1>2 DEF Devices, Memories
  <2>2. PICK m \in Elapse(m0, QuickTicks) :
              \/ /\ device' = after
                 /\ Step(r, [m EXCEPT !.rb.config = status], "rb_start")
                 /\ UNCHANGED faults
              \/ /\ Fault("command")
                 /\ device' \in {device, after}
                 /\ Step(r, [m EXCEPT !.rb.config = "failed"], "rb_start")
    BY <1>7 DEF MovePrior
  <2>3. m \in Memories
    BY <1>1, <1>4, ElapseTyped
  <2>4. /\ pc' \in [Runs -> Stages] /\ run' \in [Runs -> Memories]
        /\ device' \in Devices /\ faults' \in Seq(FaultKinds)
    BY <1>1, <1>2, <1>3, <2>1, <2>2, <2>3, RestoreTyped, StepTyped, FaultTyped
    DEF TypeOK
  <2> QED BY <1>7, <2>4 DEF MovePrior, TypeOK
<1>8. CASE RestoreForeground(r)
  <2> DEFINE after == IF m0.left > 0 THEN [device EXCEPT !.fg = m0.prior.fg] ELSE device
  <2>1. after \in Devices
    BY <1>1 DEF Devices, Memories
  <2>2. /\ device' \in {device, after}
        /\ \E status \in {"not_available", "restored", "failed"} :
              Step(r, [m0 EXCEPT !.rb.fg = status], "rb_write")
        /\ UNCHANGED faults \/ Fault("command")
        /\ UNCHANGED <<disk, wall>>
    BY <1>8 DEF RestoreForeground
  <2>3. /\ pc' \in [Runs -> Stages] /\ run' \in [Runs -> Memories]
        /\ device' \in Devices /\ faults' \in Seq(FaultKinds)
    BY <1>1, <1>2, <1>3, <2>1, <2>2, RestoreTyped, StepTyped, FaultTyped DEF TypeOK
  <2> QED BY <2>2, <2>3 DEF TypeOK
<1>9. CASE RecordRollback(r)
  <2>1. disk' \in [Approvals -> Directories]
    BY <1>1, <1>9 DEF RecordRollback, TypeOK, Directories
  <2> QED BY <1>1, <1>2, <1>3, <1>9, <2>1, StepTyped, FaultTyped DEF RecordRollback, TypeOK
<1> QED BY <1>5, <1>6, <1>7, <1>8, <1>9 DEF Recovers

(* A result that could not be written is still a run's memory.              *)
LEMMA UnwrittenTyped ==
    ASSUME NEW m \in Memories
    PROVE  Unwritten(m) \in Memories
BY DEF Unwritten, Memories, EvidenceFiles, Results

(* The stages of finish() keep the types.                                   *)
LEMMA FinishesTyped ==
    ASSUME TypeOK, NEW r \in Runs, Finishes(r)
    PROVE  TypeOK'
<1> DEFINE m0 == run[r]
<1>1. /\ m0 \in Memories /\ Mine(r) \in Approvals
      /\ m0.doc \in Receipts /\ m0.evidence \in EvidenceFiles
  BY RunsAssumption DEF TypeOK, Mine, Memories
<1>2. {"validator", "write"} \subseteq FaultKinds
  BY DEF FaultKinds
<1>3. {"fin_receipt_write", "fin_claim", "fin_evidence", "fin_reclaim", "fin_out",
       "cleanup", "done"} \subseteq Stages
  BY DEF Stages, FinishStages, EndStages
<1>4. CASE FinalizeReceipt(r)
  <2> DEFINE m == [m0 EXCEPT !.doc = FailedReceipt(m0)]
  <2>1. FailedReceipt(m0) \in Receipts
    BY <1>1, FailedReceiptTyped
  <2>2. m \in Memories
    BY <1>1, <2>1 DEF Memories
  <2>3. /\ pc' \in [Runs -> Stages] /\ run' \in [Runs -> Memories]
        /\ faults' \in Seq(FaultKinds)
    BY <1>1, <1>2, <1>3, <1>4, <2>2, StepTyped, FaultTyped DEF FinalizeReceipt, TypeOK
  <2> QED BY <1>4, <2>3 DEF FinalizeReceipt, TypeOK
<1>5. CASE PersistFinalized(r)
  <2>1. disk' \in [Approvals -> Directories]
    BY <1>1, <1>5 DEF PersistFinalized, TypeOK, Directories
  <2> QED BY <1>1, <1>2, <1>3, <1>5, <2>1, StepTyped, FaultTyped DEF PersistFinalized, TypeOK
<1>6. CASE FinishClaim(r)
  <2> DEFINE ok == m0.failure = "none"
             claimed == m0.claim # "none"
             m == [m0 EXCEPT
                      !.ok = ok,
                      !.claim = IF ~claimed THEN @
                                ELSE IF ok THEN "completed" ELSE "failed",
                      !.evidence.result = IF ~claimed THEN @
                                          ELSE IF ok THEN "passed" ELSE "failed"]
  <2>1. m \in Memories
    BY <1>1 DEF Memories, ClaimStates, EvidenceFiles, Results
  <2>2. Unwritten(m) \in Memories
    BY <2>1, UnwrittenTyped
  <2>3. CASE /\ IF m.holds
                THEN disk' = [disk EXCEPT ![Mine(r)].claim =
                                  [state |-> m.claim, ok |-> m.ok]]
                ELSE UNCHANGED disk
             /\ Step(r, m, "fin_evidence")
             /\ UNCHANGED faults
    <3>1. [state |-> m.claim, ok |-> m.ok] \in ClaimFiles
      BY <2>1 DEF ClaimFiles, Memories
    <3>2. disk' \in [Approvals -> Directories]
      BY <1>1, <2>3, <3>1 DEF TypeOK, Directories
    <3> QED BY <1>3, <1>6, <2>1, <2>3, <3>2, StepTyped DEF FinishClaim, TypeOK
  <2>4. CASE /\ m.holds /\ Fault("write")
             /\ Step(r, Unwritten(m), "fin_evidence")
             /\ UNCHANGED disk
    BY <1>2, <1>3, <1>6, <2>2, <2>4, StepTyped, FaultTyped DEF FinishClaim, TypeOK
  <2> QED BY <1>6, <2>3, <2>4 DEF FinishClaim
<1>7. CASE FinishEvidence(r)
  <2>1. Unwritten(m0) \in Memories
    BY <1>1, UnwrittenTyped
  <2>2. disk' \in [Approvals -> Directories]
    BY <1>1, <1>7 DEF FinishEvidence, TypeOK, Directories
  <2>3. /\ pc' \in [Runs -> Stages] /\ run' \in [Runs -> Memories]
        /\ faults' \in Seq(FaultKinds)
    BY <1>1, <1>2, <1>3, <1>7, <2>1, StepTyped, FaultTyped DEF FinishEvidence, TypeOK
  <2> QED BY <1>7, <2>2, <2>3 DEF FinishEvidence, TypeOK
<1>8. CASE FinishReclaim(r)
  <2>1. [state |-> m0.claim, ok |-> m0.ok] \in ClaimFiles
    BY <1>1 DEF ClaimFiles, Memories
  <2>2. disk' \in [Approvals -> Directories]
    BY <1>1, <1>8, <2>1 DEF FinishReclaim, TypeOK, Directories
  <2> QED BY <1>1, <1>2, <1>3, <1>8, <2>2, StepTyped, FaultTyped DEF FinishReclaim, TypeOK
<1>9. CASE Report(r)
  <2> DEFINE m == [m0 EXCEPT !.exit =
                      IF m0.failure # "none" THEN m0.failure
                      ELSE IF m0.ok THEN "ok" ELSE "failed"]
  <2>1. m \in Memories /\ [m0 EXCEPT !.exit = "failed"] \in Memories
    BY <1>1 DEF Memories, Failures
  <2>2. "write" \in FaultKinds /\ "failed" \in Failures /\ {"cleanup", "escaped"} \subseteq Stages
    BY DEF FaultKinds, Failures, Stages, EndStages
  <2>3. CASE Step(r, m, "cleanup") /\ UNCHANGED faults
    BY <1>9, <2>1, <2>2, <2>3, StepTyped DEF Report, TypeOK
  <2>4. CASE Fault("write") /\ (Fail(r, m0, "failed") \/ Escape(r))
    <3>1. pc' \in [Runs -> Stages] /\ run' \in [Runs -> Memories]
      BY <1>1, <2>1, <2>2, <2>4, FailTyped, StepTyped DEF Escape
    <3> QED BY <1>9, <2>2, <2>4, <3>1, FaultTyped DEF Report, TypeOK
  <2> QED BY <1>9, <2>3, <2>4 DEF Report
<1>10. CASE Cleanup(r)
  BY <1>1, <1>3, <1>10, StepTyped DEF Cleanup, TypeOK
<1> QED BY <1>4, <1>5, <1>6, <1>7, <1>8, <1>9, <1>10 DEF Finishes

(* Starting, the deadline, failing reads, signals and kills keep the types. *)
LEMMA EnvironmentTyped ==
    ASSUME TypeOK, NEW r \in Runs,
           Start(r) \/ DeadlineExpires(r) \/ ReadFails(r) \/ Signal(r) \/ Kill(r)
    PROVE  TypeOK'
<1> DEFINE m0 == run[r]
<1>1. m0 \in Memories
  BY DEF TypeOK
<1>2. {"failed", "usage"} \subseteq Failures
      /\ {"command", "signal", "kill"} \subseteq FaultKinds /\ "failed" \in Statuses
  BY DEF Failures, FaultKinds, Statuses
<1>3. {"inputs", "rb_push", "rb_start", "rb_write", "fin_claim", "escaped", "dead"}
          \subseteq Stages
  BY DEF Stages, TryStages, RecoverStages, FinishStages, EndStages
<1>4. CommandTicks \in Nat
  BY TicksAssumption
<1>5. CASE Start(r)
  <2>1. [m0 EXCEPT !.started = wall] \in Memories
    BY <1>1 DEF Memories, TypeOK
  <2> QED BY <1>3, <1>5, <2>1, StepTyped DEF Start, TypeOK
<1>6. CASE DeadlineExpires(r)
  BY <1>1, <1>2, <1>6, FailTyped DEF DeadlineExpires, TypeOK
<1>7. CASE ReadFails(r)
  <2>1. PICK m \in Elapse(m0, CommandTicks), failure \in {"failed", "usage"} :
            Fail(r, m, failure)
    BY <1>7 DEF ReadFails
  <2>2. m \in Memories
    BY <1>1, <1>4, ElapseTyped
  <2> QED BY <1>2, <1>7, <2>1, <2>2, FailTyped, FaultTyped DEF ReadFails, TypeOK
<1>8. CASE Signal(r)
  <2>1. [m0 EXCEPT !.exit = "failed"] \in Memories
    BY <1>1 DEF Memories, Failures
  <2>2. /\ pc' \in [Runs -> Stages] /\ run' \in [Runs -> Memories]
    BY <1>1, <1>2, <1>3, <1>8, <2>1, FailTyped, StepTyped, RestoreTyped
    DEF Signal, Escape
  <2> QED BY <1>2, <1>8, <2>2, FaultTyped DEF Signal, TypeOK
<1>9. CASE Kill(r)
  BY <1>1, <1>2, <1>3, <1>9, StepTyped, FaultTyped DEF Kill, TypeOK
<1> QED BY <1>5, <1>6, <1>7, <1>8, <1>9

(* The initial states have the types.                                       *)
LEMMA InitTyped == Init => TypeOK
<1> SUFFICES ASSUME Init PROVE TypeOK
  OBVIOUS
<1>1. <<>> \in Seq(HistoryEntries) /\ <<>> \in Seq(FaultKinds)
  OBVIOUS
<1>2. NoReceipt \in Receipts
  BY <1>1 DEF NoReceipt, Receipts, DeliveryStates, VerificationStates, NoTime
<1>3. NewRun \in Memories
  BY <1>2, TicksAssumption
  DEF NewRun, Memories, ClaimStates, EvidenceFiles, Results, Packages, Contents,
      Foregrounds, Statuses, Failures, NoTime
<1>4. NoDirectory \in Directories
  BY <1>2 DEF NoDirectory, Directories, ClaimFiles, ClaimStates, EvidenceFiles, Results,
              NoEvidence
<1>5. "idle" \in Stages /\ 1 \in Nat
  BY DEF Stages
<1> QED BY <1>1, <1>3, <1>4, <1>5, DevicesAssumption DEF Init, TypeOK

(* Every step, and stuttering, keeps the types.                             *)
LEMMA NextTyped == TypeOK /\ [Next]_vars => TypeOK'
<1> SUFFICES ASSUME TypeOK, [Next]_vars PROVE TypeOK'
  OBVIOUS
<1>1. ASSUME NEW r \in Runs, Start(r) \/ Proceed(r) \/ ReadFails(r) \/ Signal(r) \/ Kill(r)
      PROVE  TypeOK'
  BY <1>1, ClaimsTyped, WorksTyped, AcceptsTyped, RecoversTyped, FinishesTyped,
     EnvironmentTyped DEF Proceed
<1>2. CASE Tick
  BY <1>2 DEF Tick, TypeOK
<1>3. CASE ClockStep
  <2>1. "clock" \in FaultKinds
    BY DEF FaultKinds
  <2> QED BY <1>3, <2>1, FaultTyped DEF ClockStep, TypeOK
<1>4. CASE UNCHANGED vars
  BY <1>4 DEF vars, TypeOK
<1> QED BY <1>1, <1>2, <1>3, <1>4 DEF Next

(* The files, the device and every run keep the shape the code gives them,  *)
(* in every interleaving of runs and faults.                                *)
THEOREM TypeCorrect == Spec => []TypeOK
BY InitTyped, NextTyped, PTL DEF Spec
-----------------------------------------------------------------------------
(* The inductive invariant.  A claim directory is owned by one run (and     *)
(* exists); a document about to be written was validated; and each stage of *)
(* the rollback has at least the time that the stages before it left.       *)

ClaimInv ==
    /\ \A r \in Runs : Owns(r) => disk[Mine(r)].dir
    /\ OneExecutorPerApproval

ValidatedStages ==
    {"mkdir", "write_receipt", "deliver_write", "complete_write", "fin_receipt_write"}

ReceiptInv ==
    /\ ReceiptOnDiskValid
    /\ \A r \in Runs : pc[r] \in ValidatedStages => ValidReceipt(run[r].doc)

LeftEnough(stage, left) ==
    /\ stage = "rb_apk" => left >= RecoveryTicks
    /\ stage = "rb_push" => left >= RecoveryTicks - InstallTicks
    /\ stage = "rb_move" => left >= RecoveryTicks - InstallTicks - QuickTicks
    /\ stage \in {"rb_start", "rb_write"} =>
          left >= RecoveryTicks - InstallTicks - QuickTicks - QuickTicks

RecoveryInv == \A r \in Runs : LeftEnough(pc[r], run[r].left)

IInv == ClaimInv /\ ReceiptInv /\ RecoveryInv

(* A step neither makes nor removes a claim directory and writes no receipt. *)
RecordsKept ==
    \A a \in Approvals : /\ disk'[a].dir = disk[a].dir
                         /\ disk'[a].receipt = disk[a].receipt

Spent == {a \in Approvals : disk[a].dir}
Executors == {r \in Runs : Owns(r)}

(* Writing claim.json or the private evidence touches no receipt.           *)
LEMMA RecordsKeptBy ==
    ASSUME TypeOK, NEW r \in Runs
    PROVE  /\ UNCHANGED disk => RecordsKept
           /\ \A c : disk' = [disk EXCEPT ![Mine(r)].claim = c] => RecordsKept
           /\ \A e : disk' = [disk EXCEPT ![Mine(r)].evidence = e] => RecordsKept
BY DEF TypeOK, Directories, RecordsKept

(* A step of one run that claims nothing and writes no receipt keeps the    *)
(* invariant, and the abstract approvals see at most an abandoned claim.    *)
LEMMA StepKeeps ==
    ASSUME TypeOK, IInv, RecordsKept,
           NEW r \in Runs, NEW m \in Memories, NEW s \in Stages, Step(r, m, s),
           m.holds \/ s = "write_receipt" => Owns(r),
           s \in ValidatedStages => ValidReceipt(m.doc),
           LeftEnough(s, m.left)
    PROVE  IInv' /\ [Claimed!Next]_(Claimed!vars)
<1>1. /\ \A q \in Runs : pc'[q] = IF q = r THEN s ELSE pc[q]
      /\ \A q \in Runs : run'[q] = IF q = r THEN m ELSE run[q]
  BY DEF Step, TypeOK
<1>2. \A q \in Runs : Owns(q)' => Owns(q)
  BY <1>1 DEF Owns
<1>3. ClaimInv'
  BY <1>2, RunsAssumption DEF IInv, ClaimInv, OneExecutorPerApproval, RecordsKept, Mine
<1>4. ReceiptInv'
  BY <1>1 DEF IInv, ReceiptInv, ReceiptOnDiskValid, RecordsKept
<1>5. RecoveryInv'
  BY <1>1 DEF IInv, RecoveryInv
<1>6. Spent' = Spent
  BY DEF Spent, RecordsKept
<1>7. Executors' = Executors \/ Executors' = Executors \ {r}
  <2>1. \A q \in Runs : q # r => (Owns(q)' <=> Owns(q))
    BY <1>1 DEF Owns
  <2> QED BY <1>2, <2>1 DEF Executors
<1>8. [Claimed!Next]_(Claimed!vars)
  BY <1>6, <1>7 DEF Claimed!Next, Claimed!vars, Claimed!Abandon, Spent, Executors
<1> QED BY <1>3, <1>4, <1>5, <1>8 DEF IInv

(* So does an exception: rollback() starts with all of its own deadline.    *)
LEMMA FailKeeps ==
    ASSUME TypeOK, IInv, RecordsKept,
           NEW r \in Runs, NEW m \in Memories, NEW f \in Failures, Fail(r, m, f),
           m.holds => Owns(r)
    PROVE  IInv' /\ [Claimed!Next]_(Claimed!vars)
<1> DEFINE n == [m EXCEPT !.failure = f]
<1>1. n \in Memories /\ n.holds = m.holds
  BY DEF Memories
<1>2. /\ Recovering(n) \in Memories
      /\ Recovering(n).holds = m.holds
      /\ Recovering(n).left = RecoveryTicks
  BY <1>1, TicksAssumption DEF Recovering, Memories, Contents, Statuses
<1>3. {"rb_apk", "fin_receipt"} \subseteq Stages \ ValidatedStages
  BY DEF Stages, RecoverStages, FinishStages, ValidatedStages
<1>4. CASE Step(r, Recovering(n), "rb_apk")
  <2>1. LeftEnough("rb_apk", Recovering(n).left)
    BY <1>2, TicksAssumption DEF LeftEnough
  <2> HIDE DEF n
  <2> QED BY <1>2, <1>3, <1>4, <2>1, StepKeeps
<1>5. CASE Step(r, n, "fin_receipt")
  <2>1. LeftEnough("fin_receipt", n.left)
    BY DEF LeftEnough
  <2> HIDE DEF n
  <2> QED BY <1>1, <1>3, <1>5, <2>1, StepKeeps
<1> QED BY <1>4, <1>5 DEF Fail

(* Stages that neither a validation nor a rollback leads to.                *)
PlainStages == Stages \ (ValidatedStages \cup RecoverStages)

(* A command leaves at least what its timeout does not cover.               *)
LEMMA ElapseKeeps ==
    ASSUME NEW m0 \in Memories, NEW n \in Nat, NEW m \in Elapse(m0, n)
    PROVE  /\ m \in Memories
           /\ m.holds = m0.holds /\ m.doc = m0.doc
           /\ m.left \in Nat /\ m0.left \in Nat
           /\ m.left >= m0.left - n
<1>1. /\ m \in Memories
      /\ m = [m0 EXCEPT !.left = m.left]
      /\ m.left \in Nat
      /\ m0.left - m.left <= n
  BY ElapseTyped
<1>2. m.holds = m0.holds /\ m.doc = m0.doc
  BY <1>1 DEF Memories
<1>3. m0.left \in Nat
  BY DEF Memories
<1> QED BY <1>1, <1>2, <1>3

(* A step to a stage the invariant says nothing about.                      *)
LEMMA PlainStepKeeps ==
    ASSUME TypeOK, IInv, RecordsKept,
           NEW r \in Runs, NEW m \in Memories, NEW s \in PlainStages, Step(r, m, s),
           m.holds => Owns(r)
    PROVE  IInv' /\ [Claimed!Next]_(Claimed!vars)
<1>1. LeftEnough(s, m.left)
  BY DEF LeftEnough, PlainStages, RecoverStages
<1>2. s \in Stages /\ s \notin ValidatedStages /\ s # "write_receipt"
  BY DEF PlainStages, ValidatedStages
<1> QED BY <1>1, <1>2, StepKeeps

(* A stage is reached through the validator only with a valid receipt.      *)
LEMMA ValidateKeeps ==
    ASSUME TypeOK, IInv, RecordsKept,
           NEW r \in Runs, NEW m \in Memories,
           NEW s \in {"mkdir", "deliver_write", "complete_write"},
           Validate(r, m, s), m.holds => Owns(r)
    PROVE  IInv' /\ [Claimed!Next]_(Claimed!vars)
<1>1. "failed" \in Failures /\ s \in Stages /\ LeftEnough(s, m.left)
  BY DEF Failures, Stages, TryStages, InstallStages, AcceptStages, LeftEnough
<1>2. CASE Fail(r, m, "failed")
  BY <1>1, <1>2, FailKeeps
<1>3. CASE ValidReceipt(m.doc) /\ Step(r, m, s)
  BY <1>1, <1>3, StepKeeps
<1> QED BY <1>2, <1>3 DEF Validate

(* A command on the device keeps the invariant.                             *)
LEMMA CommandKeeps ==
    ASSUME TypeOK, IInv,
           NEW r \in Runs, NEW m0 \in Memories, NEW effect, NEW partial, NEW accepted,
           NEW s \in PlainStages,
           Command(r, m0, CommandTicks, effect, partial, accepted, s),
           m0.holds => Owns(r)
    PROVE  IInv' /\ [Claimed!Next]_(Claimed!vars)
<1>1. PICK m \in Elapse(m0, CommandTicks) : Step(r, m, s) \/ Fail(r, m, "failed")
  BY DEF Command
<1>2. m \in Memories /\ m.holds = m0.holds
  BY <1>1, ElapseKeeps, TicksAssumption
<1>3. RecordsKept /\ "failed" \in Failures
  BY RecordsKeptBy DEF Command, Failures
<1> QED BY <1>1, <1>2, <1>3, PlainStepKeeps, FailKeeps

(* A write that fails keeps the invariant.                                  *)
LEMMA WriteFailsKeeps ==
    ASSUME TypeOK, IInv, NEW r \in Runs, NEW m \in Memories, NEW f \in Failures,
           WriteFails(r, m, f), m.holds => Owns(r)
    PROVE  IInv' /\ [Claimed!Next]_(Claimed!vars)
BY FailKeeps, RecordsKeptBy DEF WriteFails

(* Writing a document that was validated keeps the receipt on disk valid.   *)
LEMMA ReceiptWriteKeeps ==
    ASSUME TypeOK, IInv, NEW r \in Runs, NEW m \in Memories, NEW s \in PlainStages,
           pc[r] \in ValidatedStages, m.doc = run[r].doc, m.holds => Owns(r),
           disk' = [disk EXCEPT ![Mine(r)].receipt = run[r].doc], Step(r, m, s)
    PROVE  IInv' /\ [Claimed!Next]_(Claimed!vars)
<1>1. /\ \A q \in Runs : pc'[q] = IF q = r THEN s ELSE pc[q]
      /\ \A q \in Runs : run'[q] = IF q = r THEN m ELSE run[q]
  BY DEF Step, TypeOK
<1>2. /\ \A a \in Approvals : disk'[a].dir = disk[a].dir
      /\ \A a \in Approvals : a # Mine(r) => disk'[a].receipt = disk[a].receipt
      /\ Mine(r) \in Approvals => disk'[Mine(r)].receipt = run[r].doc
  BY DEF TypeOK, Directories
<1>3. s \notin ValidatedStages /\ s # "write_receipt" /\ s \notin RecoverStages
  BY DEF PlainStages, ValidatedStages
<1>4. \A q \in Runs : Owns(q)' => Owns(q)
  BY <1>1, <1>3 DEF Owns
<1>5. ClaimInv'
  BY <1>2, <1>4, RunsAssumption DEF IInv, ClaimInv, OneExecutorPerApproval, Mine
<1>6. ValidReceipt(run[r].doc)
  BY DEF IInv, ReceiptInv
<1>7. ReceiptInv'
  BY <1>1, <1>2, <1>3, <1>6 DEF IInv, ReceiptInv, ReceiptOnDiskValid
<1>8. LeftEnough(s, m.left)
  BY <1>3 DEF LeftEnough, RecoverStages
<1>9. RecoveryInv'
  BY <1>1, <1>8 DEF IInv, RecoveryInv
<1>10. Executors' = Executors \/ Executors' = Executors \ {r}
  <2>1. \A q \in Runs : q # r => (Owns(q)' <=> Owns(q))
    BY <1>1 DEF Owns
  <2> QED BY <1>4, <2>1 DEF Executors
<1>11. Spent' = Spent
  BY <1>2 DEF Spent
<1>12. [Claimed!Next]_(Claimed!vars)
  BY <1>10, <1>11 DEF Claimed!Next, Claimed!vars, Claimed!Abandon, Spent, Executors
<1> QED BY <1>5, <1>7, <1>9, <1>12 DEF IInv

(* The mkdir that succeeds: no other run owns this approval's directory.    *)
LEMMA ClaimKeeps ==
    ASSUME TypeOK, IInv, NEW r \in Runs,
           pc[r] = "mkdir", ~disk[Mine(r)].dir,
           disk' = [disk EXCEPT ![Mine(r)].dir = TRUE],
           Step(r, run[r], "write_receipt")
    PROVE  IInv' /\ [Claimed!Next]_(Claimed!vars)
<1>1. /\ \A q \in Runs : pc'[q] = IF q = r THEN "write_receipt" ELSE pc[q]
      /\ run' = run
  BY DEF Step, TypeOK
<1>2. /\ Mine(r) \in Approvals
      /\ \A a \in Approvals : disk'[a].dir = (disk[a].dir \/ a = Mine(r))
      /\ \A a \in Approvals : disk'[a].receipt = disk[a].receipt
      /\ \A a \in Approvals : disk[a].dir \in BOOLEAN
  BY RunsAssumption DEF TypeOK, Directories, Mine
<1>3. \A q \in Runs : Owns(q)' <=> Owns(q) \/ q = r
  BY <1>1 DEF Owns
<1>4. \A q \in Runs : Owns(q) => Mine(q) # Mine(r)
  BY DEF IInv, ClaimInv
<1>5. ClaimInv'
  BY <1>2, <1>3, <1>4, RunsAssumption DEF IInv, ClaimInv, OneExecutorPerApproval, Mine
<1>6. ReceiptInv'
  BY <1>1, <1>2 DEF IInv, ReceiptInv, ReceiptOnDiskValid, ValidatedStages
<1>7. RecoveryInv'
  BY <1>1 DEF IInv, RecoveryInv, LeftEnough
<1>8. Spent' = Spent \cup {Mine(r)} /\ Mine(r) \notin Spent
  BY <1>2 DEF Spent
<1>9. Executors' = Executors \cup {r}
  BY <1>3 DEF Executors
<1>10. [Claimed!Next]_(Claimed!vars)
  BY <1>8, <1>9 DEF Claimed!Next, Claimed!vars, Claimed!Spend, Spent, Executors, Mine
<1> QED BY <1>5, <1>6, <1>7, <1>10 DEF IInv
-----------------------------------------------------------------------------
(* The stages up to the claim keep the invariant.                           *)
LEMMA ClaimsKeep ==
    ASSUME TypeOK, IInv, NEW r \in Runs, Claims(r)
    PROVE  IInv' /\ [Claimed!Next]_(Claimed!vars)
<1> DEFINE m0 == run[r]
<1>1. m0 \in Memories /\ (m0.holds => Owns(r))
  BY DEF TypeOK, Owns
<1>2. {"failed", "usage", "replay"} \subseteq Failures
  BY DEF Failures
<1>3. {"release", "preflight", "check", "write_claim", "write_evidence",
       "snapshot_apk"} \subseteq PlainStages
  BY DEF PlainStages, Stages, TryStages, ClaimStages, SnapshotStages, ValidatedStages,
         RecoverStages
<1>4. CommandTicks \in Nat
  BY TicksAssumption
<1>5. UNCHANGED disk => RecordsKept
  BY RecordsKeptBy
<1>6. CASE StaticInputs(r)
  <2>1. PICK m \in Elapse(m0, CommandTicks) :
            \/ Step(r, [m EXCEPT !.doc = PublishedReceipt(m.started)], "release")
            \/ Fail(r, m, "failed")
    BY <1>6 DEF StaticInputs
  <2>2. m \in Memories /\ m.holds = m0.holds
    BY <1>1, <1>4, ElapseKeeps
  <2>3. PublishedReceipt(m.started) \in Receipts
    BY <2>2 DEF PublishedReceipt, Receipts, Memories, HistoryEntries,
                DeliveryStates, VerificationStates, NoTime
  <2>4. /\ [m EXCEPT !.doc = PublishedReceipt(m.started)] \in Memories
        /\ [m EXCEPT !.doc = PublishedReceipt(m.started)].holds = m0.holds
    BY <2>2, <2>3 DEF Memories
  <2> HIDE DEF m0
  <2> QED BY <1>1, <1>2, <1>3, <1>5, <1>6, <2>1, <2>2, <2>4, PlainStepKeeps, FailKeeps
          DEF StaticInputs
<1>7. CASE AcquireRelease(r)
  <2>1. PICK m \in Elapse(m0, CommandTicks) : Step(r, m, "preflight")
    BY <1>7 DEF AcquireRelease
  <2>2. m \in Memories /\ m.holds = m0.holds
    BY <1>1, <1>4, ElapseKeeps
  <2> QED BY <1>1, <1>3, <1>5, <1>7, <2>1, <2>2, PlainStepKeeps DEF AcquireRelease
<1>8. CASE Preflight(r)
  <2>1. PICK m \in Elapse(m0, CommandTicks) : Step(r, m, "check")
    BY <1>8 DEF Preflight
  <2>2. m \in Memories /\ m.holds = m0.holds
    BY <1>1, <1>4, ElapseKeeps
  <2> QED BY <1>1, <1>3, <1>5, <1>8, <2>1, <2>2, PlainStepKeeps DEF Preflight
<1>9. CASE CheckClaim(r)
  BY <1>1, <1>2, <1>5, <1>9, ValidateKeeps, FailKeeps DEF CheckClaim
<1>10. CASE MakeClaimDirectory(r)
  <2>1. CASE Fail(r, m0, "replay") /\ UNCHANGED disk
    BY <1>1, <1>2, <1>5, <2>1, FailKeeps
  <2>2. CASE Fail(r, m0, "usage") /\ UNCHANGED disk
    BY <1>1, <1>2, <1>5, <2>2, FailKeeps
  <2> QED BY <1>10, <2>1, <2>2, ClaimKeeps DEF MakeClaimDirectory
<1>11. CASE WriteReceipt(r)
  <2> DEFINE m == [m0 EXCEPT !.holds = TRUE, !.claim = "executing"]
  <2>1. m \in Memories /\ m.doc = m0.doc
    BY <1>1 DEF Memories, ClaimStates
  <2>2. Owns(r) /\ pc[r] \in ValidatedStages
    BY <1>11 DEF WriteReceipt, Owns, ValidatedStages
  <2>3. \/ /\ disk' = [disk EXCEPT ![Mine(r)].receipt = m.doc]
           /\ Step(r, m, "write_claim")
        \/ WriteFails(r, m, "usage")
    BY <1>11 DEF WriteReceipt
  <2> HIDE DEF m
  <2> QED BY <1>2, <1>3, <2>1, <2>2, <2>3, ReceiptWriteKeeps, WriteFailsKeeps
<1>12. CASE WriteClaim(r)
  <2>1. CASE /\ disk' = [disk EXCEPT ![Mine(r)].claim =
                            [state |-> "executing", ok |-> FALSE]]
             /\ Step(r, m0, "write_evidence")
    BY <1>1, <1>3, <2>1, RecordsKeptBy, PlainStepKeeps
  <2> QED BY <1>1, <1>2, <1>12, <2>1, WriteFailsKeeps DEF WriteClaim
<1>13. CASE WriteEvidence(r)
  <2>1. CASE /\ disk' = [disk EXCEPT ![Mine(r)].evidence = m0.evidence]
             /\ Step(r, m0, "snapshot_apk")
    BY <1>1, <1>3, <2>1, RecordsKeptBy, PlainStepKeeps
  <2> QED BY <1>1, <1>2, <1>13, <2>1, WriteFailsKeeps DEF WriteEvidence
<1> QED BY <1>6, <1>7, <1>8, <1>9, <1>10, <1>11, <1>12, <1>13 DEF Claims

(* Writing a validated receipt keeps the invariant.                         *)
LEMMA PersistKeeps ==
    ASSUME TypeOK, IInv, NEW r \in Runs, NEW s \in PlainStages,
           NEW stage \in ValidatedStages, PersistReceipt(r, stage, s)
    PROVE  IInv' /\ [Claimed!Next]_(Claimed!vars)
<1>1. run[r] \in Memories /\ (run[r].holds => Owns(r)) /\ "failed" \in Failures
  BY DEF TypeOK, Owns, Failures
<1> QED BY <1>1, ReceiptWriteKeeps, WriteFailsKeeps DEF PersistReceipt

(* The snapshot and the installation keep the invariant.                    *)
LEMMA WorksKeep ==
    ASSUME TypeOK, IInv, NEW r \in Runs, Works(r)
    PROVE  IInv' /\ [Claimed!Next]_(Claimed!vars)
<1> DEFINE m0 == run[r]
<1>1. m0 \in Memories /\ (m0.holds => Owns(r)) /\ device \in Devices
  BY DEF TypeOK, Owns
<1>2. "failed" \in Failures
  BY DEF Failures
<1>3. {"snapshot_config", "snapshot_write", "install", "deliver", "push", "publish",
       "identity"} \subseteq PlainStages
  BY DEF PlainStages, Stages, TryStages, SnapshotStages, InstallStages, AcceptStages,
         ValidatedStages, RecoverStages
<1>4. CommandTicks \in Nat
  BY TicksAssumption
<1>5. UNCHANGED disk => RecordsKept
  BY RecordsKeptBy
<1>6. CASE SnapshotPackage(r)
  <2>1. PICK m \in Elapse(m0, CommandTicks) :
            Step(r, [m EXCEPT !.prior.apk = device.apk, !.prior.fg = device.fg],
                 "snapshot_config")
    BY <1>6 DEF SnapshotPackage
  <2> DEFINE n == [m EXCEPT !.prior.apk = device.apk, !.prior.fg = device.fg]
  <2>2. m \in Memories /\ m.holds = m0.holds
    BY <1>1, <1>4, ElapseKeeps
  <2>3. n \in Memories /\ n.holds = m0.holds
    BY <1>1, <2>2 DEF Memories, Devices
  <2>4. Step(r, n, "snapshot_config")
    BY <2>1
  <2> HIDE DEF n
  <2> QED BY <1>1, <1>3, <1>5, <1>6, <2>3, <2>4, PlainStepKeeps DEF SnapshotPackage
<1>7. CASE SnapshotConfig(r)
  <2>1. PICK m \in Elapse(m0, CommandTicks), c \in {device.config, "absent"} :
            Step(r, [m EXCEPT !.prior.config = c], "snapshot_write")
    BY <1>7 DEF SnapshotConfig
  <2> DEFINE n == [m EXCEPT !.prior.config = c]
  <2>2. m \in Memories /\ m.holds = m0.holds
    BY <1>1, <1>4, ElapseKeeps
  <2>3. c \in Contents
    BY <1>1 DEF Devices, Contents
  <2>4. n \in Memories /\ n.holds = m0.holds
    BY <2>2, <2>3 DEF Memories
  <2>5. Step(r, n, "snapshot_write")
    BY <2>1
  <2> HIDE DEF n
  <2> QED BY <1>1, <1>3, <1>5, <1>7, <2>4, <2>5, PlainStepKeeps DEF SnapshotConfig
<1>8. CASE SnapshotWrite(r)
  <2> DEFINE m == [m0 EXCEPT !.evidence.prior = TRUE]
  <2>1. m \in Memories /\ m.holds = m0.holds
    BY <1>1 DEF Memories, EvidenceFiles
  <2>2. \/ /\ disk' = [disk EXCEPT ![Mine(r)].evidence = m.evidence]
           /\ Step(r, m, "install")
        \/ WriteFails(r, m, "failed")
    BY <1>8 DEF SnapshotWrite
  <2> HIDE DEF m
  <2> QED BY <1>1, <1>2, <1>3, <2>1, <2>2, RecordsKeptBy, PlainStepKeeps, WriteFailsKeeps
<1>9. CASE Install(r)
  <2> DEFINE m == [m0 EXCEPT !.touched = TRUE]
  <2>1. m \in Memories /\ m.holds = m0.holds
    BY <1>1 DEF Memories
  <2>2. Command(r, m, CommandTicks, [device EXCEPT !.apk = "release"], {}, TRUE, "deliver")
    BY <1>9 DEF Install
  <2> HIDE DEF m
  <2> QED BY <1>1, <1>3, <2>1, <2>2, CommandKeeps
<1>10. CASE MarkDelivered(r)
  <2> DEFINE m == [m0 EXCEPT !.doc = Delivered(@)]
  <2>1. Delivered(m0.doc) \in Receipts
    BY <1>1, DeliveredTyped
  <2>2. m \in Memories /\ m.holds = m0.holds
    BY <1>1, <2>1 DEF Memories
  <2>3. Validate(r, m, "deliver_write") /\ UNCHANGED disk
    BY <1>10 DEF MarkDelivered
  <2> HIDE DEF m
  <2> QED BY <1>1, <1>5, <2>2, <2>3, ValidateKeeps
<1>11. CASE PersistDelivered(r)
  BY <1>3, <1>11, PersistKeeps DEF PersistDelivered, ValidatedStages
<1>12. CASE PushConfig(r)
  BY <1>1, <1>3, <1>12, CommandKeeps DEF PushConfig
<1>13. CASE PublishConfig(r)
  BY <1>1, <1>3, <1>13, CommandKeeps DEF PublishConfig
<1> QED BY <1>6, <1>7, <1>8, <1>9, <1>10, <1>11, <1>12, <1>13 DEF Works

(* The acceptance stages keep the invariant.                                *)
LEMMA AcceptsKeep ==
    ASSUME TypeOK, IInv, NEW r \in Runs, Accepts(r)
    PROVE  IInv' /\ [Claimed!Next]_(Claimed!vars)
<1> DEFINE m0 == run[r]
<1>1. m0 \in Memories /\ (m0.holds => Owns(r)) /\ wall \in Nat
  BY DEF TypeOK, Owns
<1>2. {"launch", "home", "restart_home", "back", "restart_back", "reboot", "boot",
       "soak", "complete", "fin_claim"} \subseteq PlainStages
  BY DEF PlainStages, Stages, TryStages, AcceptStages, FinishStages, ValidatedStages,
         RecoverStages
<1>3. CASE VerifyIdentity(r)
  BY <1>1, <1>2, <1>3, CommandKeeps DEF VerifyIdentity
<1>4. CASE Launch(r)
  BY <1>1, <1>2, <1>4, CommandKeeps DEF Launch
<1>5. CASE PressHome(r)
  BY <1>1, <1>2, <1>5, CommandKeeps DEF PressHome
<1>6. CASE PressBack(r)
  BY <1>1, <1>2, <1>6, CommandKeeps DEF PressBack
<1>7. CASE Restart(r, "restart_home", "back")
  BY <1>1, <1>2, <1>7, CommandKeeps DEF Restart
<1>8. CASE Restart(r, "restart_back", "reboot")
  BY <1>1, <1>2, <1>8, CommandKeeps DEF Restart
<1>9. CASE Reboot(r)
  BY <1>1, <1>2, <1>9, CommandKeeps DEF Reboot
<1>10. CASE VerifyBoot(r)
  BY <1>1, <1>2, <1>10, CommandKeeps DEF VerifyBoot
<1>11. CASE Soak(r)
  BY <1>1, <1>2, <1>11, CommandKeeps DEF Soak
<1>12. CASE CompleteReceipt(r)
  <2> DEFINE m == [m0 EXCEPT !.doc.verification = "passed", !.doc.verifiedAt = wall]
  <2>1. m \in Memories /\ m.holds = m0.holds
    BY <1>1 DEF Memories, Receipts, VerificationStates
  <2>2. Validate(r, m, "complete_write") /\ UNCHANGED disk
    BY <1>12 DEF CompleteReceipt
  <2> HIDE DEF m
  <2> QED BY <1>1, <2>1, <2>2, RecordsKeptBy, ValidateKeeps
<1>13. CASE PersistCompleted(r)
  BY <1>2, <1>13, PersistKeeps DEF PersistCompleted, ValidatedStages
<1> QED BY <1>3, <1>4, <1>5, <1>6, <1>7, <1>8, <1>9, <1>10, <1>11, <1>12, <1>13 DEF Accepts

(* A restore that leads to the next stage of the rollback.                  *)
LEMMA RestoreKeeps ==
    ASSUME TypeOK, IInv, UNCHANGED disk,
           NEW r \in Runs, NEW m \in Memories, NEW s \in RecoverStages, Step(r, m, s),
           m.holds = run[r].holds, LeftEnough(s, m.left)
    PROVE  IInv' /\ [Claimed!Next]_(Claimed!vars)
<1>1. s \in Stages /\ s \notin ValidatedStages /\ s # "write_receipt"
  BY DEF Stages, RecoverStages, ValidatedStages
<1>2. m.holds => Owns(r)
  BY DEF Owns
<1> QED BY <1>1, <1>2, StepKeeps, RecordsKeptBy

(* Recording the status of a restore leaves the claim and the time alone.   *)
LEMMA StatusKeeps ==
    ASSUME NEW m \in Memories, NEW status \in Statuses
    PROVE  /\ [m EXCEPT !.rb.apk = status].holds = m.holds
           /\ [m EXCEPT !.rb.config = status].holds = m.holds
           /\ [m EXCEPT !.rb.fg = status].holds = m.holds
           /\ [m EXCEPT !.rb.apk = status].left = m.left
           /\ [m EXCEPT !.rb.config = status].left = m.left
           /\ [m EXCEPT !.rb.fg = status].left = m.left
BY DEF Memories

(* The stages of rollback() keep the invariant: each uses at most its own   *)
(* timeout.                                                                 *)
LEMMA RecoversKeep ==
    ASSUME TypeOK, IInv, NEW r \in Runs, Recovers(r)
    PROVE  IInv' /\ [Claimed!Next]_(Claimed!vars)
<1> DEFINE m0 == run[r]
<1>1. m0 \in Memories /\ m0.left \in Nat /\ LeftEnough(pc[r], m0.left)
  BY DEF TypeOK, IInv, RecoveryInv, Memories
<1>2. {"not_available", "failed", "restored"} \subseteq Statuses
  BY DEF Statuses
<1>3. {"rb_push", "rb_move", "rb_start", "rb_write"} \subseteq RecoverStages
  BY DEF RecoverStages
<1>4. /\ InstallTicks \in Nat /\ QuickTicks \in Nat /\ RecoveryTicks \in Nat
      /\ InstallTicks + QuickTicks + QuickTicks < RecoveryTicks
  BY TicksAssumption
<1>5. CASE RestorePackage(r)
  <2>1. PICK m \in Elapse(m0, InstallTicks) \cup {m0},
             status \in {"not_available", "restored", "failed"} :
            Step(r, [m EXCEPT !.rb.apk = status], "rb_push")
    BY <1>5 DEF RestorePackage
  <2> DEFINE n == [m EXCEPT !.rb.apk = status]
  <2>2. /\ m \in Memories /\ m.holds = m0.holds
        /\ m.left \in Nat /\ m.left >= m0.left - InstallTicks
    BY <1>1, <1>4, ElapseKeeps
  <2>3. n \in Memories /\ n.holds = m0.holds /\ n.left = m.left
    BY <1>2, <2>2, RestoreTyped, StatusKeeps
  <2>4. LeftEnough("rb_push", m.left)
    BY <1>1, <1>4, <1>5, <2>2 DEF LeftEnough, RestorePackage
  <2>5. Step(r, n, "rb_push") /\ UNCHANGED disk
    BY <1>5, <2>1 DEF RestorePackage
  <2> HIDE DEF n
  <2> QED BY <1>3, <2>3, <2>4, <2>5, RestoreKeeps
<1>6. CASE PushPrior(r)
  <2>1. PICK m \in Elapse(m0, QuickTicks) \cup {m0} :
            \/ \E part \in Contents, pushed \in BOOLEAN :
                  Step(r, [m EXCEPT !.staged = part, !.pushed = pushed], "rb_move")
            \/ \E part \in Contents : Step(r, [m EXCEPT !.staged = part], "rb_move")
            \/ \E status \in {"not_available", "failed"} :
                  Step(r, [m EXCEPT !.rb.config = status], "rb_start")
    <3>1. {"absent", "torn", m0.prior.config} \subseteq Contents
      BY <1>1 DEF Memories, Contents
    <3> QED BY <1>6, <3>1 DEF PushPrior
  <2>2. /\ m \in Memories /\ m.holds = m0.holds
        /\ m.left \in Nat /\ m.left >= m0.left - QuickTicks
    BY <1>1, <1>4, ElapseKeeps
  <2>3. UNCHANGED disk
    BY <1>6 DEF PushPrior
  <2>4. LeftEnough("rb_move", m.left) /\ LeftEnough("rb_start", m.left)
    <3>1. m0.left >= RecoveryTicks - InstallTicks
      BY <1>1, <1>6 DEF LeftEnough, PushPrior
    <3>2. m.left >= RecoveryTicks - InstallTicks - QuickTicks
      BY <1>1, <1>4, <2>2, <3>1
    <3> QED BY <1>4, <2>2, <3>2 DEF LeftEnough
  <2>5. ASSUME NEW part \in Contents, NEW pushed \in BOOLEAN,
               Step(r, [m EXCEPT !.staged = part, !.pushed = pushed], "rb_move")
        PROVE  IInv' /\ [Claimed!Next]_(Claimed!vars)
    <3> DEFINE n == [m EXCEPT !.staged = part, !.pushed = pushed]
    <3>1. n \in Memories /\ n.holds = m0.holds /\ n.left = m.left
      BY <2>2 DEF Memories
    <3>2. Step(r, n, "rb_move")
      BY <2>5
    <3> HIDE DEF n
    <3> QED BY <1>3, <2>3, <2>4, <3>1, <3>2, RestoreKeeps
  <2>6. ASSUME NEW part \in Contents, Step(r, [m EXCEPT !.staged = part], "rb_move")
        PROVE  IInv' /\ [Claimed!Next]_(Claimed!vars)
    <3> DEFINE n == [m EXCEPT !.staged = part]
    <3>1. n \in Memories /\ n.holds = m0.holds /\ n.left = m.left
      BY <2>2 DEF Memories
    <3>2. Step(r, n, "rb_move")
      BY <2>6
    <3> HIDE DEF n
    <3> QED BY <1>3, <2>3, <2>4, <3>1, <3>2, RestoreKeeps
  <2>7. ASSUME NEW status \in {"not_available", "failed"},
               Step(r, [m EXCEPT !.rb.config = status], "rb_start")
        PROVE  IInv' /\ [Claimed!Next]_(Claimed!vars)
    <3> DEFINE n == [m EXCEPT !.rb.config = status]
    <3>1. n \in Memories /\ n.holds = m0.holds /\ n.left = m.left
      BY <1>2, <2>2, RestoreTyped, StatusKeeps
    <3>2. Step(r, n, "rb_start")
      BY <2>7
    <3> HIDE DEF n
    <3> QED BY <1>3, <2>3, <2>4, <3>1, <3>2, RestoreKeeps
  <2> QED BY <2>1, <2>5, <2>6, <2>7
<1>7. CASE MovePrior(r)
  <2>1. PICK m \in Elapse(m0, QuickTicks), status \in {"restored", "failed"} :
            Step(r, [m EXCEPT !.rb.config = status], "rb_start")
    BY <1>7 DEF MovePrior
  <2> DEFINE n == [m EXCEPT !.rb.config = status]
  <2>2. /\ m \in Memories /\ m.holds = m0.holds
        /\ m.left \in Nat /\ m.left >= m0.left - QuickTicks
    BY <1>1, <1>4, ElapseKeeps
  <2>3. n \in Memories /\ n.holds = m0.holds /\ n.left = m.left
    BY <1>2, <2>2, RestoreTyped, StatusKeeps
  <2>4. LeftEnough("rb_start", m.left)
    BY <1>1, <1>4, <1>7, <2>2 DEF LeftEnough, MovePrior
  <2>5. Step(r, n, "rb_start") /\ UNCHANGED disk
    BY <1>7, <2>1 DEF MovePrior
  <2> HIDE DEF n
  <2> QED BY <1>3, <2>3, <2>4, <2>5, RestoreKeeps
<1>8. CASE RestoreForeground(r)
  <2>1. PICK status \in {"not_available", "restored", "failed"} :
            Step(r, [m0 EXCEPT !.rb.fg = status], "rb_write")
    BY <1>8 DEF RestoreForeground
  <2> DEFINE n == [m0 EXCEPT !.rb.fg = status]
  <2>2. n \in Memories /\ n.holds = m0.holds /\ n.left = m0.left
    BY <1>1, <1>2, RestoreTyped, StatusKeeps
  <2>3. LeftEnough("rb_write", m0.left)
    BY <1>1, <1>4, <1>8 DEF LeftEnough, RestoreForeground
  <2>4. Step(r, n, "rb_write") /\ UNCHANGED disk
    BY <1>8, <2>1 DEF RestoreForeground
  <2> HIDE DEF n
  <2> QED BY <1>3, <2>2, <2>3, <2>4, RestoreKeeps
<1>9. CASE RecordRollback(r)
  <2>1. RecordsKept /\ Step(r, m0, "fin_receipt") /\ (m0.holds => Owns(r))
    BY <1>9, RecordsKeptBy DEF RecordRollback, Owns
  <2>2. "fin_receipt" \in PlainStages
    BY DEF PlainStages, Stages, FinishStages, ValidatedStages, RecoverStages
  <2> QED BY <1>1, <2>1, <2>2, PlainStepKeeps
<1> QED BY <1>5, <1>6, <1>7, <1>8, <1>9 DEF Recovers

(* A result that could not be written leaves the claim alone.               *)
LEMMA UnwrittenKeeps ==
    ASSUME NEW m \in Memories
    PROVE  Unwritten(m).holds = m.holds
BY DEF Unwritten, Memories

(* The stages of finish() keep the invariant.                               *)
LEMMA FinishesKeep ==
    ASSUME TypeOK, IInv, NEW r \in Runs, Finishes(r)
    PROVE  IInv' /\ [Claimed!Next]_(Claimed!vars)
<1> DEFINE m0 == run[r]
<1>1. m0 \in Memories /\ (m0.holds => Owns(r))
  BY DEF TypeOK, Owns
<1>2. {"fin_claim", "fin_evidence", "fin_reclaim", "fin_out", "cleanup", "done"}
          \subseteq PlainStages
  BY DEF PlainStages, Stages, FinishStages, EndStages, ValidatedStages, RecoverStages
<1>3. UNCHANGED disk => RecordsKept
  BY RecordsKeptBy
<1>4. CASE FinalizeReceipt(r)
  <2> DEFINE m == [m0 EXCEPT !.doc = FailedReceipt(m0)]
  <2>1. FailedReceipt(m0) \in Receipts
    BY <1>1, FailedReceiptTyped
  <2>2. m \in Memories /\ m.holds = m0.holds
    BY <1>1, <2>1 DEF Memories
  <2>3. \/ Step(r, m0, "fin_claim")
        \/ Step(r, m, "fin_claim")
        \/ ValidReceipt(m.doc) /\ Step(r, m, "fin_receipt_write")
    BY <1>4 DEF FinalizeReceipt
  <2>4. UNCHANGED disk
    BY <1>4 DEF FinalizeReceipt
  <2>5. LeftEnough("fin_receipt_write", m.left) /\ "fin_receipt_write" \in Stages
    BY DEF LeftEnough, Stages, FinishStages
  <2> HIDE DEF m
  <2>6. CASE Step(r, m0, "fin_claim")
    BY <1>1, <1>2, <1>3, <2>4, <2>6, PlainStepKeeps
  <2>7. CASE Step(r, m, "fin_claim")
    BY <1>1, <1>2, <1>3, <2>2, <2>4, <2>7, PlainStepKeeps
  <2>8. CASE ValidReceipt(m.doc) /\ Step(r, m, "fin_receipt_write")
    BY <1>1, <1>3, <2>2, <2>4, <2>5, <2>8, StepKeeps
  <2> QED BY <2>3, <2>6, <2>7, <2>8
<1>5. CASE PersistFinalized(r)
  <2>1. pc[r] \in ValidatedStages /\ Step(r, m0, "fin_claim")
    BY <1>5 DEF PersistFinalized, ValidatedStages
  <2>2. \/ disk' = [disk EXCEPT ![Mine(r)].receipt = m0.doc]
        \/ UNCHANGED disk
    BY <1>5 DEF PersistFinalized
  <2> QED BY <1>1, <1>2, <1>3, <2>1, <2>2, ReceiptWriteKeeps, PlainStepKeeps
<1>6. CASE FinishClaim(r)
  <2> DEFINE ok == m0.failure = "none"
             claimed == m0.claim # "none"
             m == [m0 EXCEPT
                      !.ok = ok,
                      !.claim = IF ~claimed THEN @
                                ELSE IF ok THEN "completed" ELSE "failed",
                      !.evidence.result = IF ~claimed THEN @
                                          ELSE IF ok THEN "passed" ELSE "failed"]
  <2>1. m \in Memories /\ m.holds = m0.holds
    BY <1>1 DEF Memories, ClaimStates, EvidenceFiles, Results
  <2>2. Unwritten(m) \in Memories /\ Unwritten(m).holds = m0.holds
    BY <2>1, UnwrittenTyped, UnwrittenKeeps
  <2>3. RecordsKept
    BY <1>3, <1>6, RecordsKeptBy DEF FinishClaim
  <2>4. Step(r, m, "fin_evidence") \/ Step(r, Unwritten(m), "fin_evidence")
    BY <1>6 DEF FinishClaim
  <2> HIDE DEF m
  <2> QED BY <1>1, <1>2, <2>1, <2>2, <2>3, <2>4, PlainStepKeeps
<1>7. CASE FinishEvidence(r)
  <2>1. Unwritten(m0) \in Memories /\ Unwritten(m0).holds = m0.holds
    BY <1>1, UnwrittenTyped, UnwrittenKeeps
  <2>2. RecordsKept
    BY <1>3, <1>7, RecordsKeptBy DEF FinishEvidence
  <2>3. \/ Step(r, m0, "fin_out")
        \/ Step(r, Unwritten(m0), "fin_reclaim")
        \/ Step(r, Unwritten(m0), "fin_out")
    BY <1>7 DEF FinishEvidence
  <2> QED BY <1>1, <1>2, <2>1, <2>2, <2>3, PlainStepKeeps
<1>8. CASE FinishReclaim(r)
  <2>1. RecordsKept /\ Step(r, m0, "fin_out")
    BY <1>3, <1>8, RecordsKeptBy DEF FinishReclaim
  <2> QED BY <1>1, <1>2, <2>1, PlainStepKeeps
<1>9. CASE Report(r)
  <2> DEFINE m == [m0 EXCEPT !.exit =
                      IF m0.failure # "none" THEN m0.failure
                      ELSE IF m0.ok THEN "ok" ELSE "failed"]
  <2>1. m \in Memories /\ m.holds = m0.holds
    BY <1>1 DEF Memories, Failures
  <2>2. /\ UNCHANGED disk
        /\ Step(r, m, "cleanup") \/ Fail(r, m0, "failed") \/ Escape(r)
    BY <1>9 DEF Report
  <2> HIDE DEF m
  <2>3. CASE Step(r, m, "cleanup")
    BY <1>1, <1>2, <1>3, <2>1, <2>2, <2>3, PlainStepKeeps
  <2>4. CASE Fail(r, m0, "failed")
    <3>1. "failed" \in Failures
      BY DEF Failures
    <3> QED BY <1>1, <1>3, <2>2, <2>4, <3>1, FailKeeps
  <2>5. CASE Escape(r)
    <3> DEFINE n == [m0 EXCEPT !.exit = "failed"]
    <3>1. n \in Memories /\ n.holds = m0.holds
      BY <1>1 DEF Memories, Failures
    <3>2. Step(r, n, "escaped") /\ "escaped" \in PlainStages
      BY <2>5 DEF Escape, PlainStages, Stages, EndStages, ValidatedStages, RecoverStages
    <3> HIDE DEF n
    <3> QED BY <1>1, <1>3, <2>2, <3>1, <3>2, PlainStepKeeps
  <2> QED BY <2>2, <2>3, <2>4, <2>5
<1>10. CASE Cleanup(r)
  BY <1>1, <1>2, <1>3, <1>10, PlainStepKeeps DEF Cleanup
<1> QED BY <1>4, <1>5, <1>6, <1>7, <1>8, <1>9, <1>10 DEF Finishes

(* Starting, the deadline, failing reads, signals and kills keep the        *)
(* invariant.                                                               *)
LEMMA EnvironmentKeeps ==
    ASSUME TypeOK, IInv, NEW r \in Runs,
           Start(r) \/ DeadlineExpires(r) \/ ReadFails(r) \/ Signal(r) \/ Kill(r)
    PROVE  IInv' /\ [Claimed!Next]_(Claimed!vars)
<1> DEFINE m0 == run[r]
<1>1. /\ m0 \in Memories /\ (m0.holds => Owns(r))
      /\ m0.left \in Nat /\ LeftEnough(pc[r], m0.left)
  BY DEF TypeOK, Owns, IInv, RecoveryInv, Memories
<1>2. {"failed", "usage"} \subseteq Failures /\ "failed" \in Statuses
  BY DEF Failures, Statuses
<1>3. {"inputs", "fin_claim", "escaped", "dead"} \subseteq PlainStages
  BY DEF PlainStages, Stages, TryStages, FinishStages, EndStages, ValidatedStages,
         RecoverStages
<1>4. RecordsKept /\ UNCHANGED disk
  BY RecordsKeptBy DEF Start, DeadlineExpires, ReadFails, Signal, Kill
<1>5. CASE Start(r)
  <2> DEFINE m == [m0 EXCEPT !.started = wall]
  <2>1. m \in Memories /\ m.holds = m0.holds
    BY <1>1 DEF Memories, TypeOK
  <2>2. Step(r, m, "inputs")
    BY <1>5 DEF Start
  <2> HIDE DEF m
  <2> QED BY <1>1, <1>3, <1>4, <2>1, <2>2, PlainStepKeeps
<1>6. CASE DeadlineExpires(r)
  BY <1>1, <1>2, <1>4, <1>6, FailKeeps DEF DeadlineExpires
<1>7. CASE ReadFails(r)
  <2>1. PICK m \in Elapse(m0, CommandTicks), failure \in {"failed", "usage"} :
            Fail(r, m, failure)
    BY <1>7 DEF ReadFails
  <2>2. m \in Memories /\ m.holds = m0.holds
    BY <1>1, ElapseKeeps, TicksAssumption
  <2> QED BY <1>1, <1>2, <1>4, <2>1, <2>2, FailKeeps
<1>8. CASE Signal(r)
  <2>1. ASSUME NEW m \in Memories, NEW s \in {"rb_push", "rb_start", "rb_write"},
               Step(r, m, s), m.holds = m0.holds, m.left = m0.left,
               pc[r] \in {"rb_apk", "rb_push", "rb_move", "rb_start"},
               pc[r] = "rb_apk" => s = "rb_push",
               pc[r] \in {"rb_push", "rb_move"} => s = "rb_start",
               pc[r] = "rb_start" => s = "rb_write"
        PROVE  IInv' /\ [Claimed!Next]_(Claimed!vars)
    <3>1. LeftEnough(s, m.left)
      BY <1>1, <2>1, TicksAssumption DEF LeftEnough
    <3>2. s \in RecoverStages
      BY <2>1 DEF RecoverStages
    <3> QED BY <1>4, <2>1, <3>1, <3>2, RestoreKeeps
  <2>2. CASE Fail(r, m0, "failed")
    BY <1>1, <1>2, <1>4, <2>2, FailKeeps
  <2>3. CASE Step(r, m0, "fin_claim")
    BY <1>1, <1>3, <1>4, <2>3, PlainStepKeeps
  <2>4. CASE Escape(r)
    <3> DEFINE m == [m0 EXCEPT !.exit = "failed"]
    <3>1. m \in Memories /\ m.holds = m0.holds
      BY <1>1 DEF Memories, Failures
    <3>2. Step(r, m, "escaped")
      BY <2>4 DEF Escape
    <3> HIDE DEF m
    <3> QED BY <1>1, <1>3, <1>4, <3>1, <3>2, PlainStepKeeps
  <2>5. CASE pc[r] = "rb_apk" /\ Step(r, [m0 EXCEPT !.rb.apk = "failed"], "rb_push")
    BY <1>1, <1>2, <2>1, <2>5, RestoreTyped, StatusKeeps
  <2>6. CASE /\ pc[r] \in {"rb_push", "rb_move"}
             /\ Step(r, [m0 EXCEPT !.rb.config = "failed"], "rb_start")
    BY <1>1, <1>2, <2>1, <2>6, RestoreTyped, StatusKeeps
  <2>7. CASE pc[r] = "rb_start" /\ Step(r, [m0 EXCEPT !.rb.fg = "failed"], "rb_write")
    BY <1>1, <1>2, <2>1, <2>7, RestoreTyped, StatusKeeps
  <2> QED BY <1>8, <2>2, <2>3, <2>4, <2>5, <2>6, <2>7 DEF Signal
<1>9. CASE Kill(r)
  BY <1>1, <1>3, <1>4, <1>9, PlainStepKeeps DEF Kill
<1> QED BY <1>5, <1>6, <1>7, <1>8, <1>9

(* The initial states satisfy the invariant and map to an unspent approval. *)
LEMMA InitInvariant == Init => IInv /\ Claimed!Init
<1> SUFFICES ASSUME Init PROVE IInv /\ Claimed!Init
  OBVIOUS
<1>1. \A r \in Runs : ~Owns(r) /\ pc[r] = "idle"
  BY DEF Init, Owns, NewRun
<1>2. \A a \in Approvals : ~disk[a].dir /\ disk[a].receipt = NoReceipt
  BY DEF Init, NoDirectory
<1>3. ClaimInv
  BY <1>1 DEF ClaimInv, OneExecutorPerApproval
<1>4. ReceiptInv /\ RecoveryInv
  BY <1>1, <1>2 DEF ReceiptInv, ReceiptOnDiskValid, RecoveryInv, ValidatedStages, LeftEnough
<1> QED BY <1>1, <1>2, <1>3, <1>4 DEF IInv, Claimed!Init

(* Every step, and stuttering, keeps the invariant and maps to a step, or to*)
(* no step, of the one-use approval.                                        *)
LEMMA NextInvariant ==
    TypeOK /\ IInv /\ [Next]_vars => IInv' /\ [Claimed!Next]_(Claimed!vars)
<1> SUFFICES ASSUME TypeOK, IInv, [Next]_vars
             PROVE  IInv' /\ [Claimed!Next]_(Claimed!vars)
  OBVIOUS
<1>1. ASSUME NEW r \in Runs, Start(r) \/ Proceed(r) \/ ReadFails(r) \/ Signal(r) \/ Kill(r)
      PROVE  IInv' /\ [Claimed!Next]_(Claimed!vars)
  BY <1>1, ClaimsKeep, WorksKeep, AcceptsKeep, RecoversKeep, FinishesKeep,
     EnvironmentKeeps DEF Proceed
<1>2. CASE UNCHANGED <<pc, run, disk>>
  <2>1. \A r \in Runs : Owns(r)' <=> Owns(r)
    BY <1>2 DEF Owns
  <2>2. IInv'
    BY <1>2, <2>1 DEF IInv, ClaimInv, OneExecutorPerApproval, ReceiptInv,
                      ReceiptOnDiskValid, RecoveryInv
  <2>3. UNCHANGED Claimed!vars
    BY <1>2, <2>1 DEF Claimed!vars
  <2> QED BY <2>2, <2>3
<1>3. Tick \/ ClockStep \/ UNCHANGED vars => UNCHANGED <<pc, run, disk>>
  BY DEF Tick, ClockStep, vars
<1> QED BY <1>1, <1>2, <1>3 DEF Next

(* The three parts of the inductive invariant hold in every state.          *)
THEOREM InvariantHolds == Spec => []IInv
BY InitTyped, NextTyped, InitInvariant, NextInvariant, PTL DEF Spec

(* One approval creates at most one executing claim, for any number of runs *)
(* and approvals and any sequence of faults.                                *)
THEOREM OneUseOfAnApproval == Spec => []OneExecutorPerApproval
BY InvariantHolds, PTL DEF IInv, ClaimInv

(* The claim store implements the one-use approval: each step of a delivery *)
(* spends an unspent approval, abandons a claim, or is none of its business. *)
THEOREM ImplementsOneUse == Spec => OneUse
<1>1. Init => Claimed!Init
  BY InitInvariant
<1>2. TypeOK /\ IInv /\ [Next]_vars => [Claimed!Next]_(Claimed!vars)
  BY NextInvariant
<1> QED BY <1>1, <1>2, TypeCorrect, InvariantHolds, PTL DEF Spec, OneUse, Claimed!Spec

(* receipt.json satisfies the receipt-v1 contract in every state, whatever  *)
(* failed and however the host clock jumped.                                *)
THEOREM ReceiptAlwaysValid == Spec => []ReceiptOnDiskValid
BY InvariantHolds, PTL DEF IInv, ReceiptInv

(* What is left at each restore is more than nothing: the timeouts of the   *)
(* three commands before the last one sum to less than the deadline.        *)
LEMMA TimeIsLeft == TypeOK /\ RecoveryInv => RecoveryNeverStarved
<1> SUFFICES ASSUME TypeOK, RecoveryInv, NEW r \in Runs, pc[r] \in RecoverStages
             PROVE  run[r].left > 0
  BY DEF RecoveryNeverStarved
<1>1. run[r].left \in Nat
  BY DEF TypeOK, Memories
<1> QED BY <1>1, TicksAssumption DEF RecoveryInv, LeftEnough, RecoverStages

(* Every restore command of a rollback starts with time left, whenever the  *)
(* delivery deadline ran out and whatever the earlier restores took.        *)
THEOREM RecoveryHasTime == Spec => []RecoveryNeverStarved
BY TypeCorrect, InvariantHolds, TimeIsLeft, PTL DEF IInv
=============================================================================

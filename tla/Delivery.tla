------------------------------ MODULE Delivery ------------------------------
(* The one-command delivery runner (tools/delivery/deliver.py): a run reads *)
(* an approval, claims it in the durable claim store, snapshots the device, *)
(* installs and configures the release, verifies it, and either completes   *)
(* the receipt or restores what it found.  Several runs may be started, with *)
(* the same or with different approvals, against one device.                *)
(*                                                                          *)
(* A run's own variables are one record (run[r]); pc[r] names the call it   *)
(* is about to make.  disk[a] is the claim directory of approval a.  Time   *)
(* inside a run is counted in ticks of 30 seconds, wall is the host clock.  *)
EXTENDS Integers, Sequences, ReceiptContract

CONSTANTS
    Runs, Approvals,
    ApprovalOf,        \* the approval file each run is started with
    ApprovedAt,        \* its approved_at
    MaxAge, MaxSkew,   \* APPROVAL_MAX_AGE_SECONDS, ..._FUTURE_SKEW_SECONDS
    InitialDevices,    \* what a run can find on the device
    DeadlineTicks,     \* the delivery deadline
    RecoveryTicks,     \* the deadline of rollback()
    CommandTicks,      \* most time an acceptance stage may take
    InstallTicks,      \* timeout of the restoring install -r
    QuickTicks,        \* timeout of a push and of a mv
    MaxClock,          \* bound: the host clock stops here
    Faults, MaxFaults  \* which faults happen, and bound: how many

FaultKinds == {"command", "validator", "write", "signal", "kill", "clock"}
Contents == {"absent", "prior", "torn"} \cup Approvals
Packages == {"absent", "prior", "release"}
Foregrounds == {"none", "other", "clock"}
Devices == [apk : Packages, config : Contents, fg : Foregrounds, boot : BOOLEAN]

ASSUME RunsAssumption == ApprovalOf \in [Runs -> Approvals]
ASSUME ClockAssumption ==
    /\ ApprovedAt \in [Approvals -> Nat]
    /\ MaxAge \in Nat /\ MaxSkew \in Nat /\ MaxClock \in Nat \ {0}
ASSUME TicksAssumption ==
    /\ {DeadlineTicks, RecoveryTicks} \subseteq Nat \ {0}
    /\ {CommandTicks, InstallTicks, QuickTicks} \subseteq Nat \ {0}
    /\ InstallTicks + QuickTicks + QuickTicks < RecoveryTicks
ASSUME FaultsAssumption == Faults \subseteq FaultKinds /\ MaxFaults \in Nat
ASSUME DevicesAssumption == InitialDevices \subseteq Devices

VARIABLES
    pc,       \* the next call of each run
    run,      \* the fields of each run's Delivery object
    disk,     \* the claim directories under the state directory
    device,   \* the Android TV the runs are pointed at
    wall,     \* the host clock
    faults    \* the faults that have happened, in order

vars == <<pc, run, disk, device, wall, faults>>
-----------------------------------------------------------------------------
ClaimStages == {"write_receipt", "write_claim", "write_evidence"}
SnapshotStages == {"snapshot_apk", "snapshot_config", "snapshot_write"}
InstallStages == {"install", "deliver", "deliver_write", "push", "publish"}
AcceptStages == {"identity", "launch", "home", "restart_home", "back",
                 "restart_back", "reboot", "boot", "soak", "complete",
                 "complete_write"}
RecoverStages == {"rb_apk", "rb_push", "rb_move", "rb_start", "rb_write"}
FinishStages == {"fin_receipt", "fin_receipt_write", "fin_claim",
                 "fin_evidence", "fin_reclaim", "fin_out"}
TryStages == {"inputs", "release", "preflight", "check", "mkdir"}
    \cup ClaimStages \cup SnapshotStages \cup InstallStages \cup AcceptStages
EndStages == {"done", "escaped", "dead"}
Stages == {"idle", "cleanup"}
    \cup TryStages \cup RecoverStages \cup FinishStages \cup EndStages

(* Stages that only read from the device or from the network: a command of *)
(* theirs that fails or times out changes nothing but the run itself.       *)
ReadStages == {"inputs", "release", "preflight", "snapshot_apk",
               "snapshot_config", "identity", "soak"}
CommandStages == ReadStages \cup
    {"install", "push", "publish", "launch", "home", "restart_home", "back",
     "restart_back", "reboot", "boot"}

NoReceipt == [history |-> <<>>, state |-> "built", verification |-> "pending",
              verifiedAt |-> NoTime, rollback |-> FALSE]
Statuses == {"not_needed", "unavailable", "not_available", "restored", "failed"}
Results == {"none", "executing", "passed", "failed"}
ClaimStates == {"none", "executing", "completed", "failed"}
ClaimFiles == [state : ClaimStates, ok : BOOLEAN]
EvidenceFiles == [prior : BOOLEAN, result : Results]
Failures == {"none", "failed", "usage", "replay"}

Memories ==
    [started : Nat, left : Nat,
     doc : Receipts,                       \* release_receipt
     holds : BOOLEAN,                      \* claim_file is not None
     claim : ClaimStates, ok : BOOLEAN,    \* receipt["claim"], receipt["ok"]
     evidence : EvidenceFiles,             \* private_evidence
     touched : BOOLEAN,                    \* install_started
     prior : [apk : Packages, config : Contents, fg : Foregrounds],
     staged : Contents, pushed : BOOLEAN,  \* the rollback temporary, first
     rb : [apk : Statuses, config : Statuses, fg : Statuses],
     failure : Failures,                   \* the exception finish() reports
     exit : Failures \cup {"running", "ok"}]

Directories ==
    [dir : BOOLEAN, receipt : Receipts, claim : ClaimFiles,
     evidence : EvidenceFiles]

NoEvidence == [prior |-> FALSE, result |-> "none"]
NewRun ==
    [started |-> NoTime, left |-> DeadlineTicks, doc |-> NoReceipt,
     holds |-> FALSE, claim |-> "none", ok |-> FALSE,
     evidence |-> [prior |-> FALSE, result |-> "executing"],
     touched |-> FALSE,
     prior |-> [apk |-> "absent", config |-> "absent", fg |-> "none"],
     staged |-> "absent", pushed |-> FALSE,
     rb |-> [apk |-> "not_needed", config |-> "not_needed", fg |-> "not_needed"],
     failure |-> "none", exit |-> "running"]
NoDirectory ==
    [dir |-> FALSE, receipt |-> NoReceipt,
     claim |-> [state |-> "none", ok |-> FALSE], evidence |-> NoEvidence]

Init ==
    /\ pc = [r \in Runs |-> "idle"]
    /\ run = [r \in Runs |-> NewRun]
    /\ disk = [a \in Approvals |-> NoDirectory]
    /\ device \in InitialDevices
    /\ wall = 1
    /\ faults = <<>>
-----------------------------------------------------------------------------
Step(r, m, stage) ==
    /\ run' = [run EXCEPT ![r] = m]
    /\ pc' = [pc EXCEPT ![r] = stage]

Fault(kind) ==
    /\ kind \in Faults
    /\ Len(faults) < MaxFaults
    /\ faults' = Append(faults, kind)

(* Mutant: the recovery runs under what is left of the delivery deadline.   *)
RecoveringOnOldDeadline(m) ==
    [m EXCEPT !.staged = "absent", !.pushed = FALSE,
              !.rb = [apk |-> "unavailable", config |-> "unavailable",
                      fg |-> "unavailable"]]

(* rollback() starts with a deadline of its own and nothing restored.       *)
Recovering(m) ==
    [m EXCEPT !.left = RecoveryTicks, !.staged = "absent", !.pushed = FALSE,
              !.rb = [apk |-> "unavailable", config |-> "unavailable",
                      fg |-> "unavailable"]]

(* An exception inside the try of run().                                    *)
Fail(r, m, failure) ==
    IF m.touched
    THEN Step(r, Recovering([m EXCEPT !.failure = failure]), "rb_apk")
    ELSE Step(r, [m EXCEPT !.failure = failure], "fin_receipt")

(* Mutant: a command may outlive the deadline.                              *)
ElapseUnbounded(m, n) == {[m EXCEPT !.left = m.left - t] : t \in 0..n}

(* What a run remembers after a command with a timeout of n ticks: command() *)
(* never waits longer than the deadline leaves.                             *)
Elapse(m, n) ==
    {[m EXCEPT !.left = m.left - t] :
        t \in {u \in 0..m.left : u <= n}}

(* Mutant: the deadline is not looked at by the commands that change the    *)
(* device, which then wait for ever.                                        *)
DeadlineExpiresWhileReading(r) ==
    /\ pc[r] \in ReadStages
    /\ run[r].left = 0
    /\ Fail(r, run[r], "failed")
    /\ UNCHANGED <<disk, device, wall, faults>>

(* Deadline.remaining raises before the next command is even started.       *)
DeadlineExpires(r) ==
    /\ pc[r] \in CommandStages
    /\ run[r].left = 0
    /\ Fail(r, run[r], "failed")
    /\ UNCHANGED <<disk, device, wall, faults>>

(* A command of a reading stage exits non-zero, times out, or prints what   *)
(* the stage does not accept.                                               *)
ReadFails(r) ==
    /\ pc[r] \in ReadStages
    /\ Fault("command")
    /\ \E m \in Elapse(run[r], CommandTicks), failure \in {"failed", "usage"} :
          Fail(r, m, failure)
    /\ UNCHANGED <<disk, device, wall>>

Mine(r) == ApprovalOf[r]
-----------------------------------------------------------------------------
(* Before the claim.                                                        *)

Start(r) ==
    /\ pc[r] = "idle"
    /\ Step(r, [run[r] EXCEPT !.started = wall], "inputs")
    /\ UNCHANGED <<disk, device, wall, faults>>

(* require_fresh_approval                                                   *)
Fresh(a) ==
    /\ ApprovedAt[a] <= wall + MaxSkew
    /\ wall <= ApprovedAt[a] + MaxAge

(* _build_release_receipt                                                   *)
PublishedReceipt(started) ==
    [history |-> <<[state |-> "built", at |-> started],
                   [state |-> "published", at |-> started]>>,
     state |-> "published", verification |-> "pending",
     verifiedAt |-> NoTime, rollback |-> FALSE]

StaticInputs(r) ==
    /\ pc[r] = "inputs"
    /\ run[r].left > 0
    /\ \E m \in Elapse(run[r], CommandTicks) :
          IF Fresh(Mine(r))
          THEN Step(r, [m EXCEPT !.doc = PublishedReceipt(m.started)], "release")
          ELSE Fail(r, m, "failed")
    /\ UNCHANGED <<disk, device, wall, faults>>

AcquireRelease(r) ==
    /\ pc[r] = "release"
    /\ run[r].left > 0
    /\ \E m \in Elapse(run[r], CommandTicks) : Step(r, m, "preflight")
    /\ UNCHANGED <<disk, device, wall, faults>>

Preflight(r) ==
    /\ pc[r] = "preflight"
    /\ run[r].left > 0
    /\ \E m \in Elapse(run[r], CommandTicks) : Step(r, m, "check")
    /\ UNCHANGED <<disk, device, wall, faults>>

(* Mutant: the validator's verdict is not looked at.                        *)
ValidateNothing(r, m, next) ==
    /\ Step(r, m, next)
    /\ UNCHANGED faults

(* _validate_release_receipt, run on the document a run holds in memory: on *)
(* to the next stage, or an exception.  The validator has a deadline of its *)
(* own; it may also crash, time out or be missing.                          *)
Validate(r, m, next) ==
    \/ /\ ValidReceipt(m.doc)
       /\ Step(r, m, next)
       /\ UNCHANGED faults
    \/ /\ ~ValidReceipt(m.doc)
       /\ Fail(r, m, "failed")
       /\ UNCHANGED faults
    \/ /\ Fault("validator")
       /\ Fail(r, m, "failed")

(* claim(), up to the claim store: freshness again, then the contract.      *)
CheckClaim(r) ==
    /\ pc[r] = "check"
    /\ \/ /\ Fresh(Mine(r))
          /\ Validate(r, run[r], "mkdir")
       \/ /\ ~Fresh(Mine(r))
          /\ Fail(r, run[r], "failed")
          /\ UNCHANGED faults
    /\ UNCHANGED <<disk, device, wall>>

(* Mutant: mkdir(exist_ok=True).                                            *)
MakeClaimDirectoryExistOk(r) ==
    /\ pc[r] = "mkdir"
    /\ disk' = [disk EXCEPT ![Mine(r)].dir = TRUE]
    /\ Step(r, run[r], "write_receipt")
    /\ UNCHANGED <<device, wall, faults>>

(* The atomic mkdir that spends the approval.                               *)
MakeClaimDirectory(r) ==
    /\ pc[r] = "mkdir"
    /\ \/ /\ ~disk[Mine(r)].dir
          /\ disk' = [disk EXCEPT ![Mine(r)].dir = TRUE]
          /\ Step(r, run[r], "write_receipt")
          /\ UNCHANGED faults
       \/ /\ disk[Mine(r)].dir
          /\ Fail(r, run[r], "replay")
          /\ UNCHANGED <<disk, faults>>
       \/ /\ Fault("write")
          /\ Fail(r, run[r], "usage")
          /\ UNCHANGED disk
    /\ UNCHANGED <<device, wall>>
-----------------------------------------------------------------------------
(* The claim's three files.  atomic_write replaces a file or leaves it.     *)

WriteFails(r, m, failure) ==
    /\ Fault("write")
    /\ Fail(r, m, failure)
    /\ UNCHANGED disk

WriteReceipt(r) ==
    /\ pc[r] = "write_receipt"
    /\ LET m == [run[r] EXCEPT !.holds = TRUE, !.claim = "executing"]
       IN  \/ /\ disk' = [disk EXCEPT ![Mine(r)].receipt = m.doc]
              /\ Step(r, m, "write_claim")
              /\ UNCHANGED faults
           \/ WriteFails(r, m, "usage")
    /\ UNCHANGED <<device, wall>>

WriteClaim(r) ==
    /\ pc[r] = "write_claim"
    /\ \/ /\ disk' = [disk EXCEPT ![Mine(r)].claim =
                            [state |-> "executing", ok |-> FALSE]]
          /\ Step(r, run[r], "write_evidence")
          /\ UNCHANGED faults
       \/ WriteFails(r, run[r], "usage")
    /\ UNCHANGED <<device, wall>>

WriteEvidence(r) ==
    /\ pc[r] = "write_evidence"
    /\ \/ /\ disk' = [disk EXCEPT ![Mine(r)].evidence = run[r].evidence]
          /\ Step(r, run[r], "snapshot_apk")
          /\ UNCHANGED faults
       \/ WriteFails(r, run[r], "failed")
    /\ UNCHANGED <<device, wall>>
-----------------------------------------------------------------------------
(* snapshot_prior                                                           *)

SnapshotPackage(r) ==
    /\ pc[r] = "snapshot_apk"
    /\ run[r].left > 0
    /\ \E m \in Elapse(run[r], CommandTicks) :
          Step(r, [m EXCEPT !.prior.apk = device.apk, !.prior.fg = device.fg],
               "snapshot_config")
    /\ UNCHANGED <<disk, device, wall, faults>>

(* "test -f" answers 1 for an absent file; so does an adb that could not    *)
(* reach the device, and that answer is taken for absence too.              *)
SnapshotConfig(r) ==
    /\ pc[r] = "snapshot_config"
    /\ run[r].left > 0
    /\ \E m \in Elapse(run[r], CommandTicks) :
          \/ /\ Step(r, [m EXCEPT !.prior.config = device.config],
                      "snapshot_write")
             /\ UNCHANGED faults
          \/ /\ Fault("command")
             /\ Step(r, [m EXCEPT !.prior.config = "absent"], "snapshot_write")
    /\ UNCHANGED <<disk, device, wall>>

(* Mutant: the result of the evidence write is ignored.                     *)
SnapshotWriteIgnored(r) ==
    /\ pc[r] = "snapshot_write"
    /\ LET m == [run[r] EXCEPT !.evidence.prior = TRUE]
       IN  /\ \/ /\ disk' = [disk EXCEPT ![Mine(r)].evidence = m.evidence]
                 /\ UNCHANGED faults
              \/ Fault("write") /\ UNCHANGED disk
           /\ Step(r, m, "install")
    /\ UNCHANGED <<device, wall>>

SnapshotWrite(r) ==
    /\ pc[r] = "snapshot_write"
    /\ LET m == [run[r] EXCEPT !.evidence.prior = TRUE]
       IN  \/ /\ disk' = [disk EXCEPT ![Mine(r)].evidence = m.evidence]
              /\ Step(r, m, "install")
              /\ UNCHANGED faults
           \/ WriteFails(r, m, "failed")
    /\ UNCHANGED <<device, wall>>
-----------------------------------------------------------------------------
(* install_and_configure                                                    *)

(* A command of at most n ticks that turns the device into effect.  What    *)
(* the stage then observes is accepted or not; and a command that fails or  *)
(* times out leaves one of the devices in partial, effect included: killing *)
(* the adb client does not undo what the device was already told.           *)
Command(r, m0, n, effect, partial, accepted, next) ==
    /\ m0.left > 0
    /\ \E m \in Elapse(m0, n) :
          \/ /\ device' = effect
             /\ IF accepted THEN Step(r, m, next) ELSE Fail(r, m, "failed")
             /\ UNCHANGED faults
          \/ /\ Fault("command")
             /\ device' \in partial \cup {device, effect}
             /\ Fail(r, m, "failed")
    /\ UNCHANGED <<disk, wall>>

(* install_started is set before the command, not after it.                 *)
Install(r) ==
    /\ pc[r] = "install"
    /\ Command(r, [run[r] EXCEPT !.touched = TRUE], CommandTicks,
               [device EXCEPT !.apk = "release"], {}, TRUE, "deliver")

(* _mark_release_delivered: memory first, then the validator, then disk.    *)
Delivered(doc) ==
    [doc EXCEPT !.history = Append(@, [state |-> "delivered", at |-> wall]),
                !.state = "delivered"]

MarkDelivered(r) ==
    /\ pc[r] = "deliver"
    /\ Validate(r, [run[r] EXCEPT !.doc = Delivered(@)], "deliver_write")
    /\ UNCHANGED <<disk, device, wall>>

PersistReceipt(r, stage, next) ==
    /\ pc[r] = stage
    /\ \/ /\ disk' = [disk EXCEPT ![Mine(r)].receipt = run[r].doc]
          /\ Step(r, run[r], next)
          /\ UNCHANGED faults
       \/ WriteFails(r, run[r], "failed")
    /\ UNCHANGED <<device, wall>>

PersistDelivered(r) == PersistReceipt(r, "deliver_write", "push")

(* The config goes to a temporary of this claim, and only a push that       *)
(* succeeded is followed by the mv that publishes it.                       *)
PushConfig(r) ==
    /\ pc[r] = "push"
    /\ Command(r, run[r], CommandTicks, device, {}, TRUE, "publish")

PublishConfig(r) ==
    /\ pc[r] = "publish"
    /\ Command(r, run[r], CommandTicks, [device EXCEPT !.config = Mine(r)],
               {}, TRUE, "identity")
-----------------------------------------------------------------------------
(* Acceptance.                                                              *)

(* status.json and the resumed activity as the stages demand them.          *)
Shows(d, a, boot) ==
    /\ d.apk = "release"
    /\ d.config = a
    /\ d.fg = "clock"
    /\ d.boot = boot

VerifyIdentity(r) ==
    /\ pc[r] = "identity"
    /\ Command(r, run[r], CommandTicks, device, {}, device.apk = "release", "launch")

Launched == [device EXCEPT !.fg = "clock", !.boot = FALSE]
Stopped == [device EXCEPT !.fg = "other"]

Launch(r) ==
    /\ pc[r] = "launch"
    /\ Command(r, run[r], CommandTicks, Launched, {},
               Shows(Launched, Mine(r), FALSE), "home")

PressHome(r) ==
    /\ pc[r] = "home"
    /\ Command(r, run[r], CommandTicks, Stopped, {}, TRUE, "restart_home")

PressBack(r) ==
    /\ pc[r] = "back"
    /\ Command(r, run[r], CommandTicks, Stopped, {}, TRUE, "restart_back")

(* _restart: force-stop, then start and verify.                             *)
Restart(r, stage, next) ==
    /\ pc[r] = stage
    /\ Command(r, run[r], CommandTicks, Launched, {Stopped},
               Shows(Launched, Mine(r), FALSE), next)

Reboot(r) ==
    /\ pc[r] = "reboot"
    /\ Command(r, run[r], CommandTicks, [device EXCEPT !.fg = "none"], {}, TRUE, "boot")

(* The device comes back, and its BootReceiver starts the clock.            *)
VerifyBoot(r) ==
    /\ pc[r] = "boot"
    /\ LET booted == [device EXCEPT !.fg = "clock", !.boot = TRUE]
       IN  Command(r, run[r], CommandTicks, booted,
                   {[device EXCEPT !.fg = "other"]},
                   Shows(booted, Mine(r), TRUE), "soak")

Soak(r) ==
    /\ pc[r] = "soak"
    /\ Command(r, run[r], CommandTicks, device, {},
               Shows(device, Mine(r), TRUE), "complete")

(* _complete_release_receipt                                                *)
CompleteReceipt(r) ==
    /\ pc[r] = "complete"
    /\ Validate(r, [run[r] EXCEPT !.doc.verification = "passed",
                                  !.doc.verifiedAt = wall], "complete_write")
    /\ UNCHANGED <<disk, device, wall>>

PersistCompleted(r) == PersistReceipt(r, "complete_write", "fin_claim")
-----------------------------------------------------------------------------
(* rollback: three restores, each tried whatever became of the others.      *)

RestorePackage(r) ==
    /\ pc[r] = "rb_apk"
    /\ LET prior == run[r].prior.apk
           inTime == run[r].left > 0
           after == IF inTime THEN [device EXCEPT !.apk = prior] ELSE device
           status == IF inTime THEN "restored" ELSE "failed"
       IN  \/ /\ prior = "absent"
              /\ Step(r, [run[r] EXCEPT !.rb.apk = "not_available"], "rb_push")
              /\ UNCHANGED <<device, faults>>
           \/ /\ prior # "absent"
              /\ \E m \in Elapse(run[r], InstallTicks) :
                    \/ /\ device' = after
                       /\ Step(r, [m EXCEPT !.rb.apk = status], "rb_push")
                       /\ UNCHANGED faults
                    \/ /\ Fault("command")
                       /\ device' \in {device, after}
                       /\ Step(r, [m EXCEPT !.rb.apk = "failed"], "rb_push")
    /\ UNCHANGED <<disk, wall>>

(* A push that fails may leave nothing, a part or all of the file under its *)
(* temporary name.  One that exits non-zero is followed by the mv all the   *)
(* same; one that times out is not.                                         *)
PushPrior(r) ==
    /\ pc[r] = "rb_push"
    /\ LET prior == run[r].prior.config
           inTime == run[r].left > 0
       IN  \/ /\ prior = "absent"
              /\ Step(r, [run[r] EXCEPT !.rb.config = "not_available"], "rb_start")
              /\ UNCHANGED faults
           \/ /\ prior # "absent"
              /\ \E m \in Elapse(run[r], QuickTicks) :
                    \/ /\ IF inTime
                          THEN Step(r, [m EXCEPT !.staged = prior, !.pushed = TRUE],
                                    "rb_move")
                          ELSE Step(r, [m EXCEPT !.rb.config = "failed"], "rb_start")
                       /\ UNCHANGED faults
                    \/ /\ Fault("command")
                       /\ \/ \E part \in {"absent", "torn", prior} :
                                Step(r, [m EXCEPT !.staged = part], "rb_move")
                          \/ Step(r, [m EXCEPT !.rb.config = "failed"], "rb_start")
    /\ UNCHANGED <<disk, device, wall>>

(* The restore counts only if the push and the mv both succeeded.           *)
MovePrior(r) ==
    /\ pc[r] = "rb_move"
    /\ LET moves == run[r].left > 0 /\ run[r].staged # "absent"
           after == IF moves THEN [device EXCEPT !.config = run[r].staged] ELSE device
           status == IF moves /\ run[r].pushed THEN "restored" ELSE "failed"
       IN  \E m \in Elapse(run[r], QuickTicks) :
              \/ /\ device' = after
                 /\ Step(r, [m EXCEPT !.rb.config = status], "rb_start")
                 /\ UNCHANGED faults
              \/ /\ Fault("command")
                 /\ device' \in {device, after}
                 /\ Step(r, [m EXCEPT !.rb.config = "failed"], "rb_start")
    /\ UNCHANGED <<disk, wall>>

(* am start of the foreground component the snapshot found, if any.         *)
RestoreForeground(r) ==
    /\ pc[r] = "rb_start"
    /\ LET prior == run[r].prior.fg
           inTime == run[r].left > 0
           after == IF inTime THEN [device EXCEPT !.fg = prior] ELSE device
           status == IF inTime THEN "restored" ELSE "failed"
       IN  \/ /\ prior = "none"
              /\ Step(r, [run[r] EXCEPT !.rb.fg = "not_available"], "rb_write")
              /\ UNCHANGED <<device, faults>>
           \/ /\ prior # "none"
              /\ device' = after
              /\ Step(r, [run[r] EXCEPT !.rb.fg = status], "rb_write")
              /\ UNCHANGED faults
           \/ /\ prior # "none"
              /\ Fault("command")
              /\ device' \in {device, after}
              /\ Step(r, [run[r] EXCEPT !.rb.fg = "failed"], "rb_write")
    /\ UNCHANGED <<disk, wall>>

(* The evidence write of rollback() ignores its result.                     *)
RecordRollback(r) ==
    /\ pc[r] = "rb_write"
    /\ \/ /\ disk' = [disk EXCEPT ![Mine(r)].evidence = run[r].evidence]
          /\ UNCHANGED faults
       \/ /\ Fault("write")
          /\ UNCHANGED disk
    /\ Step(r, run[r], "fin_receipt")
    /\ UNCHANGED <<device, wall>>

(* Mutant: the package alone makes the restore complete.                    *)
RestoreCompletedByPackage(m) == m.prior.apk # "absent" /\ m.rb.apk = "restored"

(* The disposition in_place_restore_completed.                              *)
RestoreCompleted(m) ==
    /\ m.prior.apk # "absent" /\ m.rb.apk = "restored"
    /\ m.prior.config # "absent" /\ m.rb.config = "restored"
-----------------------------------------------------------------------------
(* finish: the receipt of a failed run, claim.json, the evidence, stdout.   *)

FailedReceipt(m) ==
    LET rolled == m.doc.state = "delivered" /\ RestoreCompleted(m)
        entry == [state |-> "rolled_back", at |-> wall]
    IN  [m.doc EXCEPT !.verification = "failed", !.verifiedAt = wall,
                      !.history = IF rolled THEN Append(@, entry) ELSE @,
                      !.state = IF rolled THEN "rolled_back" ELSE @,
                      !.rollback = @ \/ rolled]

(* Mutant: a verification that was decided once is not decided again.       *)
SettleableOnce(m) ==
    m.holds /\ m.doc.state = "delivered" /\ m.doc.verification = "pending"

Settleable(m) == m.holds /\ m.doc.state \in {"delivered", "rolled_back"}

(* _finalize_failed_release_receipt; what goes wrong in it is only recorded. *)
FinalizeReceipt(r) ==
    /\ pc[r] = "fin_receipt"
    /\ LET m == [run[r] EXCEPT !.doc = FailedReceipt(run[r])]
       IN  \/ /\ ~Settleable(run[r])
              /\ Step(r, run[r], "fin_claim")
              /\ UNCHANGED faults
           \/ /\ Settleable(run[r]) /\ ValidReceipt(m.doc)
              /\ Step(r, m, "fin_receipt_write")
              /\ UNCHANGED faults
           \/ /\ Settleable(run[r]) /\ ~ValidReceipt(m.doc)
              /\ Step(r, m, "fin_claim")
              /\ UNCHANGED faults
           \/ /\ Settleable(run[r]) /\ Fault("validator")
              /\ Step(r, m, "fin_claim")
    /\ UNCHANGED <<disk, device, wall>>

PersistFinalized(r) ==
    /\ pc[r] = "fin_receipt_write"
    /\ \/ /\ disk' = [disk EXCEPT ![Mine(r)].receipt = run[r].doc]
          /\ UNCHANGED faults
       \/ /\ Fault("write")
          /\ UNCHANGED disk
    /\ Step(r, run[r], "fin_claim")
    /\ UNCHANGED <<device, wall>>

(* Mutant: a result that could not be written stays a success.              *)
UnwrittenIgnored(m) == m

(* A result that could not be written turns a success into a failure.       *)
Unwritten(m) ==
    IF m.failure = "none"
    THEN [m EXCEPT !.ok = FALSE, !.evidence.result = "failed"]
    ELSE m

FinishClaim(r) ==
    /\ pc[r] = "fin_claim"
    /\ LET ok == run[r].failure = "none"
           claimed == run[r].claim # "none"
           m == [run[r] EXCEPT
                    !.ok = ok,
                    !.claim = IF ~claimed THEN @
                              ELSE IF ok THEN "completed" ELSE "failed",
                    !.evidence.result = IF ~claimed THEN @
                                        ELSE IF ok THEN "passed" ELSE "failed"]
       IN  \/ /\ IF m.holds
                 THEN disk' = [disk EXCEPT ![Mine(r)].claim =
                                  [state |-> m.claim, ok |-> m.ok]]
                 ELSE UNCHANGED disk
              /\ Step(r, m, "fin_evidence")
              /\ UNCHANGED faults
           \/ /\ m.holds /\ Fault("write")
              /\ Step(r, Unwritten(m), "fin_evidence")
              /\ UNCHANGED disk
    /\ UNCHANGED <<device, wall>>

FinishEvidence(r) ==
    /\ pc[r] = "fin_evidence"
    /\ \/ /\ IF run[r].holds
             THEN disk' = [disk EXCEPT ![Mine(r)].evidence = run[r].evidence]
             ELSE UNCHANGED disk
          /\ Step(r, run[r], "fin_out")
          /\ UNCHANGED faults
       \/ /\ run[r].holds /\ Fault("write")
          /\ Step(r, Unwritten(run[r]),
                  IF run[r].failure = "none" THEN "fin_reclaim" ELSE "fin_out")
          /\ UNCHANGED disk
    /\ UNCHANGED <<device, wall>>

(* claim.json once more, with ok false; its claim state is not revised.     *)
FinishReclaim(r) ==
    /\ pc[r] = "fin_reclaim"
    /\ \/ /\ disk' = [disk EXCEPT ![Mine(r)].claim =
                            [state |-> run[r].claim, ok |-> run[r].ok]]
          /\ UNCHANGED faults
       \/ /\ Fault("write")
          /\ UNCHANGED disk
    /\ Step(r, run[r], "fin_out")
    /\ UNCHANGED <<device, wall>>

(* An exception that leaves run(): the process ends with code 1.            *)
Escape(r) == Step(r, [run[r] EXCEPT !.exit = "failed"], "escaped")

(* The record goes to stdout and the exit code is chosen; a stdout that     *)
(* cannot be written is in finish(True) one more failure that run()         *)
(* catches, in finish(False) an exception that nobody does ...              *)
Report(r) ==
    /\ pc[r] = "fin_out"
    /\ \/ /\ Step(r, [run[r] EXCEPT !.exit =
                        IF run[r].failure # "none" THEN run[r].failure
                        ELSE IF run[r].ok THEN "ok" ELSE "failed"], "cleanup")
          /\ UNCHANGED faults
       \/ /\ Fault("write")
          /\ IF run[r].failure = "none" THEN Fail(r, run[r], "failed") ELSE Escape(r)
    /\ UNCHANGED <<disk, device, wall>>

(* ... and the temporary directory of the run is removed.                   *)
Cleanup(r) ==
    /\ pc[r] = "cleanup"
    /\ Step(r, run[r], "done")
    /\ UNCHANGED <<disk, device, wall, faults>>
-----------------------------------------------------------------------------
(* The environment.                                                         *)

(* SIGINT or SIGTERM: an exception wherever the run happens to be.  Inside  *)
(* the try of run() it is one more failure, even after finish(True) began;  *)
(* inside a try of rollback() or finish() it fails what that try protects;  *)
(* between those it leaves run(), and main() reports it.                    *)
Signal(r) ==
    /\ Fault("signal")
    /\ \/ /\ \/ pc[r] \in TryStages
             \/ pc[r] \in FinishStages /\ run[r].failure = "none"
          /\ Fail(r, run[r], "failed")
       \/ /\ pc[r] = "rb_apk"
          /\ Step(r, [run[r] EXCEPT !.rb.apk = "failed"], "rb_push")
       \/ /\ pc[r] \in {"rb_push", "rb_move"}
          /\ Step(r, [run[r] EXCEPT !.rb.config = "failed"], "rb_start")
       \/ /\ pc[r] = "rb_start"
          /\ Step(r, [run[r] EXCEPT !.rb.fg = "failed"], "rb_write")
       \/ /\ pc[r] \in {"fin_receipt", "fin_receipt_write"}
          /\ run[r].failure # "none"
          /\ Step(r, run[r], "fin_claim")
       \/ /\ \/ pc[r] \in RecoverStages \cup {"cleanup"}
             \/ pc[r] \in FinishStages /\ run[r].failure # "none"
          /\ Escape(r)
    /\ UNCHANGED <<disk, device, wall>>

Kill(r) ==
    /\ Fault("kill")
    /\ pc[r] \notin EndStages \cup {"idle"}
    /\ Step(r, run[r], "dead")
    /\ UNCHANGED <<disk, device, wall>>

Tick ==
    /\ wall < MaxClock
    /\ wall' = wall + 1
    /\ UNCHANGED <<pc, run, disk, device, faults>>

(* The host clock is set back.                                              *)
ClockStep ==
    /\ Fault("clock")
    /\ wall' \in 1..(wall - 1)
    /\ UNCHANGED <<pc, run, disk, device>>
-----------------------------------------------------------------------------
Claims(r) ==
    \/ StaticInputs(r) \/ AcquireRelease(r) \/ Preflight(r) \/ CheckClaim(r)
    \/ MakeClaimDirectory(r) \/ WriteReceipt(r) \/ WriteClaim(r) \/ WriteEvidence(r)

Works(r) ==
    \/ SnapshotPackage(r) \/ SnapshotConfig(r) \/ SnapshotWrite(r)
    \/ Install(r) \/ MarkDelivered(r) \/ PersistDelivered(r)
    \/ PushConfig(r) \/ PublishConfig(r)

Accepts(r) ==
    \/ VerifyIdentity(r) \/ Launch(r)
    \/ PressHome(r) \/ Restart(r, "restart_home", "back")
    \/ PressBack(r) \/ Restart(r, "restart_back", "reboot")
    \/ Reboot(r) \/ VerifyBoot(r) \/ Soak(r)
    \/ CompleteReceipt(r) \/ PersistCompleted(r)

Recovers(r) ==
    \/ RestorePackage(r) \/ PushPrior(r) \/ MovePrior(r) \/ RestoreForeground(r)
    \/ RecordRollback(r)

Finishes(r) ==
    \/ FinalizeReceipt(r) \/ PersistFinalized(r) \/ FinishClaim(r)
    \/ FinishEvidence(r) \/ FinishReclaim(r) \/ Report(r) \/ Cleanup(r)

Proceed(r) ==
    \/ Claims(r) \/ Works(r) \/ Accepts(r) \/ Recovers(r) \/ Finishes(r)
    \/ DeadlineExpires(r)

Next ==
    \/ \E r \in Runs : Start(r) \/ Proceed(r) \/ ReadFails(r) \/ Signal(r) \/ Kill(r)
    \/ Tick
    \/ ClockStep

Spec == Init /\ [][Next]_vars

(* The interpreter keeps executing a run that was started: each command has *)
(* a timeout.  Nobody has to start a run, and no fault has to happen.       *)
FairSpec == Spec /\ \A r \in Runs : WF_vars(Proceed(r))
-----------------------------------------------------------------------------
(* Properties.                                                              *)

(* Every variable has the shape the program gives it.                       *)
TypeOK ==
    /\ pc \in [Runs -> Stages]
    /\ run \in [Runs -> Memories]
    /\ disk \in [Approvals -> Directories]
    /\ device \in Devices
    /\ wall \in Nat
    /\ faults \in Seq(FaultKinds)

Ended(r) == pc[r] \in EndStages
Owns(r) == run[r].holds \/ pc[r] = "write_receipt"

(* No other run has touched the device.                                     *)
Alone(r) == \A q \in Runs \ {r} : ~run[q].touched
AtMostOne(kind) ==
    \A i, j \in 1..Len(faults) : faults[i] = kind /\ faults[j] = kind => i = j
OnlyFaults(kinds) == \A i \in 1..Len(faults) : faults[i] \in kinds

(* One approval creates at most one executing claim: two runs started with  *)
(* the same approval never both get past the claim directory, not even when *)
(* the first was interrupted or killed (delivery/README.md, one-use claim). *)
OneExecutorPerApproval ==
    \A r, s \in Runs :
        r # s /\ ApprovalOf[r] = ApprovalOf[s] => ~(Owns(r) /\ Owns(s))

(* The claim store implements the one-use approval.                         *)
Claimed == INSTANCE OneUseApproval
    WITH spent <- {a \in Approvals : disk[a].dir},
         executors <- {r \in Runs : Owns(r)}
OneUse == Claimed!Spec

(* Once the run that owns a claim has ended, however it ended, no other run *)
(* changes a file of that claim: the record of an interrupted delivery is   *)
(* not overwritten by a replay.                                             *)
EndedRecordIsFinal ==
    [][\A r \in Runs :
          Owns(r) /\ Ended(r) => disk'[ApprovalOf[r]] = disk[ApprovalOf[r]]]_vars

(* receipt.json always satisfies the receipt-v1 contract, whatever failed   *)
(* and whatever the host clock did: memory is validated before each write.  *)
ReceiptOnDiskValid ==
    \A a \in Approvals :
        disk[a].receipt # NoReceipt => ValidReceipt(disk[a].receipt)

(* The device is changed only after the claim, its receipt and the record   *)
(* of the captured prior state are on disk.                                 *)
RecordedBeforeTouched ==
    \A r \in Runs : run[r].touched =>
        /\ disk[Mine(r)].dir
        /\ disk[Mine(r)].receipt # NoReceipt
        /\ disk[Mine(r)].claim.state # "none"
        /\ disk[Mine(r)].evidence.prior

(* Running out of the delivery deadline never suppresses a restore: each    *)
(* command of rollback() starts with time left, also when every one before  *)
(* it used up its timeout.                                                  *)
RecoveryNeverStarved ==
    \A r \in Runs : pc[r] \in RecoverStages => run[r].left > 0

(* A receipt that says rolled_back tells the truth about the device: the    *)
(* captured package and config are the ones installed, unless another run   *)
(* has touched the device: nothing locks it.                                *)
RolledBackIsRestored ==
    \A r \in Runs :
        Owns(r) /\ Alone(r) /\ disk[Mine(r)].receipt.state = "rolled_back" =>
        /\ device.apk = run[r].prior.apk
        /\ device.config = run[r].prior.config

(* Exit code 0 means that all three files say so, durably, and that the     *)
(* device runs the release with the approved config, unless another run has *)
(* touched it.                                                              *)
ExitZeroMeansAccepted ==
    \A r \in Runs : run[r].exit = "ok" =>
        /\ disk[Mine(r)].receipt.verification = "passed"
        /\ disk[Mine(r)].claim = [state |-> "completed", ok |-> TRUE]
        /\ disk[Mine(r)].evidence.result = "passed"
        /\ Alone(r) => Shows(device, Mine(r), TRUE)

(* As long as files can be written, the validator runs and the clock does   *)
(* not jump back, a run that ended by itself left three files that agree    *)
(* with each other and with its exit code, wherever one signal hit it.      *)
(* A second signal can hit the very code that settles the receipt.          *)
RecordsAgree ==
    OnlyFaults({"command", "signal"}) /\ AtMostOne("signal") =>
        \A r \in Runs : pc[r] = "done" /\ run[r].holds =>
            LET d == disk[Mine(r)]
                accepted == run[r].exit = "ok"
            IN  /\ d.claim = IF accepted THEN [state |-> "completed", ok |-> TRUE]
                             ELSE [state |-> "failed", ok |-> FALSE]
                /\ d.evidence.result = IF accepted THEN "passed" ELSE "failed"
                /\ (d.receipt.verification = "passed") <=> accepted

(* A started run ends: it returns, a signal carries it out of run(), or it  *)
(* is killed.                                                               *)
EveryRunEnds == \A r \in Runs : pc[r] = "inputs" ~> Ended(r)

(* delivery/README.md: receipt.json "advances to delivered after the APK    *)
(* install succeeds, and records final verification or a completed in-place *)
(* rollback".                                                               *)
DeliveryRecorded ==
    \A r \in Runs :
        pc[r] = "done" /\ run[r].doc.state \in {"delivered", "rolled_back"} =>
            disk[Mine(r)].receipt.state = run[r].doc.state

(* The same sentence, where the receipt had advanced to delivered and the   *)
(* in-place restore was completed.                                          *)
RollbackRecorded ==
    \A r \in Runs :
        /\ pc[r] = "done"
        /\ RestoreCompleted(run[r])
        /\ disk[Mine(r)].receipt.state # "published"
        => disk[Mine(r)].receipt.state = "rolled_back"

(* delivery/README.md: the run captures the "existing config without        *)
(* changing the device" before it installs.                                 *)
PriorConfigCaptured ==
    \A r \in Runs : pc[r] = "install" => run[r].prior.config = device.config
=============================================================================

# TX10 Clock: a TLA+ verification project

TX10 Clock is a wall clock for television boxes. The repository holds an Android
app, a Linux kiosk and an Apple TV port of the same clock face, and the tools that
build, release and deliver it. This directory holds TLA+ modules of the parts that
decide something over time, the TLC configurations that check them, and proofs for
every value of their constants.

    tlc -config delivery_one.cfg MCDelivery      (any run: PROJECT.json lists them)
    tlapm DeliveryProofs.tla                     (any module named ...Proofs)

## 1. Inventory

### Delivery runner: `tools/delivery/deliver.py`

One command takes an approval file and brings a published release onto an Android TV
over adb.

- *State.* The fields of a `Delivery` object, three files per approval in the claim
  store (`receipt.json`, `claim.json`, `private-evidence.json`), the device (package,
  `config.json`, foreground activity, boot status), the host clock and a deadline.
- *Operations.* static inputs, release acquisition, preflight, `claim`, `snapshot_prior`,
  `install_and_configure`, identity check, launch, Home and Back with restarts, reboot,
  soak, completion of the receipt, `rollback`, `finish`.
- *Interaction.* adb commands with timeouts; the receipt validator as a subprocess;
  the claim store is shared by every run on the host; signals become exceptions.
- *What is hard.* Several runs with one approval; a command whose answer is lost after
  it took effect; a signal at any instant, also in the code that settles an earlier
  failure; death between two of the files; the deadline of the delivery against the one
  of the recovery; a wall clock that is set back.
- *Correct when.* An approval is executed at most once; nothing on the device changes
  before the claim, the receipt and the prior state are durable; every receipt on disk is
  valid; `rolled_back` is true of the device; exit code 0 is true of all three files and of
  the device; every run ends.

### Receipt contract: `tools/receipt/validate_receipt.py`

A stateless validator. Its semantic half constrains the history of delivery states, the
verification and the rollback member relative to each other. Shape, patterns and hygiene
rules are decided per field.

### Configuration store: `ConfigStore.java`, `ExternalConfig.java`

The document in force, where it came from and why the last one was rejected. `reload()`
takes three looks at a file that others rename over; `status.json` describes the result.
Correct when a bad, absent or half-exchanged file never moves the last accepted document.

### Android app

`MainActivity` (lifecycle, reload on resume, status), `BootReceiver` (start at boot),
`AppState` (a preference that is written later), `ClockView` (drawing). Everything runs
on the main thread; the system kills, destroys and reboots at will. Correct when the
status tells what is shown, a document in place at a resume is shown, and the receiver
starts the clock when it may and only then.

### Linux kiosk: `linux/.../Main.java`

The same store, polled by a one-second timer on the event thread through the file's
modification time. Correct when no change of the file is missed.

### Burn-in offset: `BurnInOffset.java`, `BurnInOffset.swift`

A pure function from the local minute and an amplitude to a shift, written twice.
Correct when the shift is bounded, moves every minute, uses every position equally, and
both ports agree.

### Apple TV core and app: `ConfigProvider.swift`, `ClockViewController.swift`, `TickSound.swift`

- *State.* `config.json` and `status.json` in Caches, a mirror of the last accepted
  document in the preferences, the store, the view, the timer of the provider, the sound
  player with its engine.
- *Operations.* `viewDidAppear` and the life-cycle notifications (`start`, `resume`,
  `pause`), `reloadNow` (seed from the mirror, reload, mirror, publish), `apply`, the timer,
  the notifications of the audio system. `config-push.sh` replaces the file from outside.
- *What is hard.* Two copies that are written one after the other; the mirror reads the
  file a second time; the system purges Caches while the app does not run; preferences
  reach the disk later; the engine may be refused or interrupted at any time.
- *Correct when.* The last accepted document survives every purge; screen, status and
  sound are those of one configuration; a document that stays is picked up.

### Document validators: `validate_config.py`, `validate_receipt.py`, `validate_release_evidence.py`

One command line each: arguments, a file that is read, parsed, checked for version, shape,
rules and private content, and a verdict or a canonical form. No state outlives a run, but
a printed form is saved, edited and given back. Hard: an input may be refused at seven
places, and rules index into members that only a complete shape guarantees; the config
rules exist twice (validator and published schema); the form is printed after the scan.
Correct when every input ends in one verdict, both forms of the rules agree, a canonical
form is stable and passes the scan.

### ADB preflight: `adb_preflight.py`

A sequence of read-only queries (state, device list, SDK, ABI, package, launcher, storage,
clock, zone) to one device, a redactor between every answer and its reader, a report and an
exit code. Hard: devices come and go between two queries; the redactor replaces text that
the checks want to read; the host clock is read once, before the queries whose time it then includes.
Correct when exit code 0 is true of one device, and a qualified device is accepted.

### Release workflow and signing scripts: `release.yml`, `release-*.sh`

Two clean builds of a tag on hosted runners, then one job on a self-hosted runner that
compares them, resolves the key, signs, assembles and validates the evidence, publishes and
cleans up. Hard: every job checks the tag out by its name and a tag can be moved; a manual
dispatch is in another concurrency group than the push; any step may fail with a keystore
on the runner. Correct when a published release is what its evidence says.

### Rendering, JSON parsers, CI checks

Pixels, text layout, character grammars and one-shot greps: no state, no concurrency.

## 2. Modules

| Module | Models |
| --- | --- |
| `ReceiptContract` | the semantic rules of `_check_semantics` |
| `OneUseApproval` | abstract: an approval is spent at most once, by one run |
| `Delivery` | `deliver.py`, every stage of `run()`, the claim store, the device |
| `MCDelivery` | instances of `Delivery` for TLC |
| `DeliveryProofs`, `DeliveryRecordProofs` | proofs about `Delivery` |
| `ConfigStore` | `ConfigStore.java` as operators on a store value |
| `LastKnownGood` | abstract: a clock looks at one instant and keeps the last accepted document |
| `AndroidClock`, `MCAndroidClock` | activity, receiver, preference, files; instance |
| `LinuxKiosk`, `MCLinuxKiosk` | runtime, timer, files; instance |
| `AppleTv`, `MCAppleTv` | provider, mirror, view controller, player, files; instance |
| `ConfigStoreProofs`, `AndroidClockProofs`, `LinuxKioskProofs`, `AppleTvProofs` | lemmas on the store; proofs about the three clocks |
| `BurnIn`, `MCBurnIn` | the shift of every frame, both ports; instance |
| `BurnInProofs` | proofs about `BurnIn` |
| `ConfigContract`, `EvidenceContract` | the rules of two of the document contracts |
| `ContractTool` | the command line of the three validators |
| `Preflight` | `adb_preflight.py` with devices that come and go |
| `ReleaseWorkflow` | `release.yml` and the scripts it runs |
| `HostTools`, `MCHostTools` | a session with one of the last three; instance |
| `HostToolsProofs` | proofs about the last three and the session |

`Delivery` uses `ReceiptContract` for every validation and refines `OneUseApproval`.
`AndroidClock`, `LinuxKiosk` and `AppleTv` extend `ConfigStore` and refine `LastKnownGood`:
the Swift store is the Java one statement for statement. `ReleaseWorkflow` takes its last
gate from `EvidenceContract`, `ContractTool` its documents from `ConfigContract`.

### Delivery

`pc[r]` names the call run `r` is about to make, `run[r]` is the `Delivery` object,
`disk[a]` the claim directory of approval `a`. Each action is one call that can fail or be
interrupted by itself, with every assignment the code makes before the next such call; an
`atomic_write` is one step because it renames. `Fail` is the `except` of `run()`: to
`rollback` when `install_started` is set, otherwise to `finish`. `Signal` has the cases the
code has: inside the `try` of `run()` it is a failure, inside one of the inner `try`s of
`rollback` and `finish` it fails only what that `try` protects, and between them it leaves
`run()` for `main`.

What is abstracted:

- time inside a run is counted in ticks of 30 seconds. The timeouts of a restoring
  install, a push and a move are constants; a command takes any number of ticks up to its
  timeout. The floor of a tenth of a second that `command` puts under a timeout is left
  out: it lets a command start, never succeed;
- the verdicts of a stage that only reads (lock, APK and evidence comparison, log
  patterns, preflight) are one choice: accept or fail;
- a device has a package (absent, prior, release), a config (absent, prior, torn, or that
  of an approval), a foreground and a boot flag;
- writing the report to stdout may fail like any other write, and then takes the path of
  a failed delivery, as the code does;
- a kill stops the process; what an unsynced directory loses in a power cut is not modelled.

### ConfigStore, AndroidClock, LinuxKiosk

A document is accepted, oversized or invalid (for any reason but size, an `IOException`
included, whose reason the code calls MALFORMED). `Reload` is one look; the clock modules
interleave the three looks with renames of the file. In `AndroidClock` the main thread is a
stage: no lifecycle callback or broadcast interrupts another, but the process may die
between any two steps. `prefs` has what the process sees and what is on disk, since
`apply()` returns before it writes. One activity is followed, the one on top: when the
receiver's intent opens a second one over it, the covered one is dropped from the model.
External storage is mounted, and the system performs the launch that the receiver asks for.
A preference that a backup restores on another box is not modelled. In all three clocks
`unwritten` remembers that the last write of `status.json` failed; it guards nothing.

In `LinuxKiosk` a tick first notes the modification time, then takes the looks, replaces
renderer and time source, and publishes. A rename may bring any modification time,
earlier or equal ones too.

### AppleTv

`reloadNow` runs on the main thread as a sequence of stages, one for each access to a file
or to the preferences: is the file gone, seed, the three looks of the store, the second
read for the mirror, the status, `onReload`, and for a resume the activation of player and
view. Edits, purges (only while the app is not in front), kills and losses of power come
between any two. `prefs` has what the app sees and what is on disk: a kill keeps the first,
a loss of power the second. `player` has the mode and the activity that the code stores and
what the engine really plays; `trouble` remembers that the system refused or interrupted it.
`course`, `kept` and `unwritten` are history for the properties and guard nothing.

The audio session, the engine and the samples are one outcome, started or refused.
`KeepAwake` sets two flags of the system and is left out. A second `viewDidAppear` of a
running app is a `Resume`.

### ConfigContract and ContractTool

A document has the members that the rules relate (locale policy and tag, zone policy and
zone id, pixel shift and radius), both numbers, and for all other members the codes that
they are refused with: a field that is missing or too many, a value of another type, a
string that its enumeration does not have. A number is an integer, a float with an
integer's value (`4.0`), or another thing, because the schema and the validator read the
second differently. A zone id is a
sequence of segments, each a word in a letter case, because `_canonical_zone_id` changes the
case and the scan depends on it; some words make it too long. `SchemaAccepts` is written
from `emit_schema` and the conditional fragments,
`StructureErrors` and `SemanticErrors` from the checks. In `ContractTool` a run of a tool is
the sequence args, read, parse, version, shape, rules, scan, report; an exception that the
code does not catch is `Crash`. `RunAgain` is the operator who saves a printed form, spells
it in another case and runs the tool on it. What the input is before it is a document (bytes,
size, strictness, depth, version) is a record of facts; bytes that are not UTF-8 are an error
of the read, or lone surrogates where a stdin of the C locale escapes them. The receipt and the evidence are
known here only by which of the three checks they fail; their rules are `ReceiptContract`
(used by `Delivery`) and `EvidenceContract` (used by `ReleaseWorkflow`).

### Preflight

Each action is one adb query with the check that reads it. A situation fixes the facts of
each device, the environment and in which answers a secret occurs as text; the redactor
garbles such an answer, and the check then reads the fact or nothing. Attached devices
change between queries; a query without a serial goes to the only device that is present,
as adb does. Time passes in every query up to the timeout.

### ReleaseWorkflow

`phase[w]` is the job and step of run `w`. `Start` obeys the concurrency group, `TakeRunner`
the single self-hosted runner. `Build`, `TakeRunner` check the tag out anew, so `MoveTag`
gives one run different commits. A commit is what it builds (version, bytes, native or
not); a build that is not reproducible is `odd`. `EmitEvidence` assembles the document and
requires the validator; `Cleanup` is the `if: always()` step. The key provider, Gradle,
apksigner and GitHub are external: their outcome is a choice. The death of the runner
itself with a keystore on it is left out: `Cleanup` always comes.

### HostTools

The three tools share no state. `HostTools` is a session with one of them while the others
rest, so its states are the sum of theirs and not the product.

### BurnIn

`drawn` is the shift of the last frame, `second` the local wall clock, which advances by
half minutes, jumps by half an hour or an hour at the end of an hour, and lies before or
after the local epoch. The Swift operators are written with rounding toward zero and the
port's correction.

## 3. Runs

| Run | States | Shows |
| --- | --- | --- |
| `delivery_one` | 1.3 million | one delivery, three devices, any two faults |
| `delivery_shared` | 210 thousand | two runs, one approval, one fault |
| `delivery_clock` | violation | clock set back: receipt stays at published |
| `delivery_signal` | violation | a restore whose record a signal swallows |
| `delivery_snapshot` | violation | a config taken for absent |
| `android` | 360 thousand | two edits, a reboot, a failing read and write, a kill |
| `linux` | 29 thousand | three edits with two times, two starts, one fault of each kind |
| `linux_startup` | violation | a file in place at the start is never shown |
| `apple_tv` | 360 thousand | an edit, purges, a loss of power, any two of five faults |
| `burn_in` | 15 thousand | seven hours around the epoch, every amplitude |
| `host_tools` | 1.1 million | validators, preflight, two runs of the workflow |
| `config_canonical` | violation | a canonical form that the scan refuses |

**delivery_one** checks that the types hold; that every receipt on disk is valid
(`ReceiptOnDiskValid`); that the device is touched only after the record is durable
(`RecordedBeforeTouched`); that every restore command has time left
(`RecoveryNeverStarved`); that `rolled_back` is true of the device
(`RolledBackIsRestored`); that exit code 0 is true of files and device
(`ExitZeroMeansAccepted`); and that the three files agree (`RecordsAgree`, for failing
commands and one signal: a second signal, or files that cannot be written, leave what
the earlier write left). Two faults are the smallest number in which recovery itself
fails; the third would meet the same stages. The approval is fresh at one time only and
the clock takes three values, so both ends of freshness are met. The deadline is two
ticks, so it can expire at each stage.

**delivery_shared** checks the claim store with two runs: one executor per approval, the
refinement of `OneUseApproval`, the record of an ended run never changes
(`EndedRecordIsFinal`), every started run ends (`EveryRunEnds`). Two runs are enough to
race; a third meets the same directory. The proof below covers any number.

**android** checks the refinement of `LastKnownGood`, that the status of a clock at rest
tells what it shows (`StatusTellsTheScreen`: a write that failed excuses the status until
the next write that succeeds, so a clock that published once and never again is caught), that the receiver never starts an app that
nobody has opened (`NoHijack`), that an accepted document in place at a resume is shown
(`PickedUp`) and that the clock comes up after a boot (`ComesUp`). Two edits are enough to
put one file in front of `size` and another in front of `readAllBytes`; one boot separates
the memory of a process from its files. `PickedUp` excuses a read that failed, `ComesUp` a
kill, and both a file that is replaced first.

**linux** checks the same refinement, the status, and that a file whose time differs from
the noted one is shown unless it is replaced first. Three edits reach a change before, under
and after a reload; two times make a rename with an equal time happen.

**apple_tv** checks that a document which a reload accepted with nothing in between is in
force after every later reload (`NeverLost`), until the operator changes the file, a read
or write of the reload fails, or the power is lost before the preferences are on disk; that
screen, status and sound agree at rest and nothing sounds, moves or polls in the background
(`RestAgrees`; it excuses a status until the next write and a refused or interrupted sound
until the next rebuild that succeeds, and a pause forgets the refusal, so that the next
resume tries again); the refinement of `LastKnownGood`, which covers the seed and the second
read; and that a document that stays is shown by the timer although a read may fail
(`PickedUp`). The initial file is any; one edit may come between any two accesses of a
reload, and purges are not bounded. Two faults let a failing read or write meet a kill, a
refused engine or an interruption; the documents have sounds that differ from each other and from the default.

**host_tools** checks the validators, the preflight and the workflow.

- `AlwaysAVerdict`: an input ends in exit code 0 without an error or in another with a verdict
  that names one, in one place. Inputs have at most one defect outside the document, and
  every combination of the three checks; a document may have several errors. Undecodable
  bytes that are escaped instead of refused are excused: they end in a traceback.
- `SchemaMatchesIngestion`: the validator accepts nothing that the published schema rejects,
  and refuses of what the schema accepts exactly a number written as a float and private
  content; a printed form satisfies the schema. `config/README.md` says more than that, as
  listed below. Numbers at both sides of each bound, in each of the three writings.
- `CanonicalSettles`: however a printed form is respelled, the tool prints it again. Two
  rounds are enough: the second starts from a form, as every later one would.
- `AcceptedMeetsAll`: exit code 0 means that one device, the right one, answered everything
  and meets every condition; its clock may be further behind by the time of the queries.
- `QualifiedIsAccepted`: a device that meets every condition, whose answers are not garbled,
  is accepted. Two devices, two changes of what is plugged in (a full swap), one query that fails, a skew at either side of
  each bound (10 seconds, queries of at most 1).
- `ReleaseTellsTheTruth`: version, bytes, reproducibility claim and commit of a release are
  those of its evidence, and no keystore stays on an idle runner. Two runs in the two groups
  that exist for a tag, one move of the tag, four commits (documents only, another version,
  native code, the program), three sets of SDK packages on the runner. The commit is claimed only for a tag that was
  not moved while the run was under way.

**burn_in** checks the bound, uniform coverage over a cycle, the agreement of the ports, and
over steps that every minute and every change of the zone's offset moves the picture, by
one pixel unless the cycle wraps. Seven hours are more than the longest cycle (289 minutes).

Deadlock is not checked: a delivery ends, and the clocks rest when the bounded
environment does.

### Fairness

`EveryRunEnds` assumes weak fairness of `Proceed(r)`: the interpreter executes a run that
was started, because each command has a timeout. It does not assume that runs are started.
`PickedUp` and `ComesUp` assume weak fairness of what the main thread does by itself
(Android delivers the broadcast and runs the looper) and, in the kiosk, of the event
thread, on which the timer repeats. In `AppleTv` it is weak fairness of the main thread
and of its timer, which repeats while the app is in front. Nobody has to open the app,
edit a file, or reboot.

### What the violations say

1. `delivery_clock`. `_mark_release_delivered` stamps `delivered` with the host clock. If
   the clock was set back since `published`, the validator refuses the document, a healthy
   installation is rolled back, and the receipt stays at `published`; the README of the
   delivery says it advances to `delivered` and records a completed rollback.
2. `delivery_signal`. `finish` catches `DeliveryFailure` around settling the receipt, and a
   signal raises one: a restore that was completed is then never recorded.
3. `delivery_snapshot`. `adb shell test -f` exits 1 for an absent file, and adb exits 1 when
   it cannot reach the device. An existing config is taken for absent and overwritten
   with no copy.
4. `config_canonical`. The validator scans the document and then prints its canonical form,
   whose zone id has other letters. `Area/users/x` is accepted and printed as `Area/Users/X`,
   which contains `/Users/` and which the same tool refuses; `config/README.md` says that
   the canonical form cannot contain a private path.
5. `linux_startup`. The kiosk notes the time of `config.json` at its start and does not read
   it: the document that was in place is ignored until it is touched.

### Known without a run

Met while modelling and not a run of their own. In the first four the code does less than
a document or a message says; a property states exactly what is left, and the model has
the step.

- `config/README.md:57-60` says that schema-based authoring cannot produce a document that
  fails at ingestion. `shiftRadiusPx: 4.0` is an integer for the draft 2020-12 schema and
  `type_invalid` for the validator, and private content is looked for by the validator
  alone, likewise a document over 8 KiB or with duplicate keys (`SchemaMatchesIngestion`
  names the first two and speaks of inputs without the last two);
- `config/README.md:72-73` says that a stdin whose bytes are not UTF-8 is an `io_error`.
  Under a C locale Python escapes such bytes, and the `encode` of `parse_config`
  (`validate_config.py:647`) raises an error that nobody catches (`AlwaysAVerdict` says so);
- `config-push.sh:61` says that the app applies a pushed document on its next resume. One
  that arrives between the look for the file and the write that seeds it from the mirror
  is overwritten and never shown (`PickedUp` speaks of documents that stay);
- a document that the Apple TV accepted and that is removed, or replaced by a rejected one,
  before the second read is in force and not mirrored: after a purge and a restart the one
  before it is back (`NeverLost` ends with every edit);
- `reload()` returns early for an absent file and keeps the reason of an earlier rejection,
  which `docs/external-config.md` describes as that of the most recent reload;
- the receipt and evidence validators do not catch `UnicodeDecodeError` and
  `RecursionError`: they end with a traceback and exit code 1 (`AlwaysAVerdict` says so);
- a preflight whose `--out` cannot be written prints a report that is ok and exits with 2;
- the skew of a device includes the time of the queries before it, so a clock that is behind
  by more than the bound may pass (`AcceptedMeetsAll` gives the amount).

## 4. Proofs

Every module named `...Proofs` is checked by tlapm without any unproved step. The proofs
assume only the named ASSUMEs of the modules, which TLC evaluates in the runs:
`RunsAssumption` (each run has an approval), `ClockAssumption`, `TicksAssumption` (an install
and two transfers fit into the recovery deadline strictly, as 180 + 30 + 30 < 300 seconds
do), `FaultsAssumption`, `DevicesAssumption`; `BurnInAssumption` (amplitudes lie in 0..8);
`DocumentsAssumption` (the classes of documents are disjoint), `AndroidAssumption`,
`KioskAssumption`, `AppleAssumption` (the bounds are numbers, each document has a sound);
`ToolAssumption` (an input is facts about its bytes and a document of the tool),
`PreflightAssumption` (serials differ from the values that stand for no serial, facts have
their types), `WorkflowAssumption` (no run is the idle runner, native code is a yes or no).
Nothing is assumed of the number of runs, approvals, documents, devices, commits or faults.

**Delivery.** `TypeCorrect` is inductive by itself and used by all the others. The next ones
follow from `IInv == ClaimInv /\ ReceiptInv /\ RecoveryInv`:

- `ClaimInv` relates the stage of each run to the directory: a run that holds the claim, or
  has made the directory and not yet written into it, has its directory on disk, and no
  other run with the same approval does. `OneExecutorPerApproval` alone is not inductive:
  it does not say that the directory of an executor exists, which is what makes `mkdir`
  refuse the second run.
- `ReceiptInv` says that the document in memory at every stage that writes it passed
  validation since it was changed. `ReceiptOnDiskValid` alone does not constrain the memory
  that a later step writes.
- `RecoveryInv` gives, for each stage of `rollback`, the time that the commands still to
  come may take. `RecoveryNeverStarved` says only that some is left.

`InvariantHolds` is `Init => IInv` and one case per action; `OneUseOfAnApproval`,
`ImplementsOneUse` (each step spends, abandons or stutters), `ReceiptAlwaysValid` and
`RecoveryHasTime` follow.

**The record of a delivery.** `DeliveryRecordProofs` adds `RecordInv`: for every run, its
stage, its memory and its directory agree. A run that has written the receipt has it on disk
from then on, likewise the claim file and the evidence, and *from the first touch of the
device on this no longer depends on the stage*, because a failure, a signal or a kill may
send such a run anywhere. `RecordedFirst` is its projection. `EndedRecordStays` needs
`ClaimInv` besides: only the run that owns a directory writes to it, and an ended run takes
no step.

**The outcome of a delivery.** What a receipt says at the end was decided many steps
earlier, so the three outcome properties share one invariant over `RecordInv`:

- `DecidedInv`: a run that is still trying has no failure and an open receipt; the memory
  says `restored` only in a stage after the restoring command succeeded, and a success
  only after each of its files was written. The receipt on disk may say `rolled_back` only
  when the memory does.
- `DeviceInv`: what the memory believes restored is on the device, and the device shows the
  release at every stage that follows its acceptance. Both hold for a run that is `Alone`:
  nothing in the code locks a device, so a second run with another approval may install in
  between. The properties make the same exception, and the hazard is listed.
- `AgreeInv`: with failing commands and one signal, which file of a run already says what,
  stage by stage, and that a receipt which an exception finds accepted means that the one
  signal has been spent: without it the revision of the receipt could be hit as well.
- `DatedInv`: while the clock goes forward nothing in a memory is dated after now, so the
  validator does not refuse what `finish` writes.

`OutcomeHolds` is one case per action; `RolledBackTellsTheTruth`, `AcceptedIsTrue` and
`FilesAgree` are its projections.

**The clocks.** `ConfigStoreProofs` has what one look of `reload` does to a store. For
`AndroidClock` the invariant says who reloads at each stage (`StageInv`), that an activity
which does not live holds nothing (`StoreInv`), that a preference or a pending start implies
an opened app (`LaunchInv`), and from which stage on screen and status are those of the store
(`ScreenInv`): `StatusTellsTheScreen` speaks of rest only, and says nothing of the step that
leads there. The kiosk has the same with fewer parts. For `AppleTv`, `RestInv` and
`ScreenInv` do that for view, status and player; `CourseInv` says what an undisturbed reload
has seen so far at each of its stages, and `KeptInv` that the document to be kept is in the
mirror, that the file is that document or gone, and that an undisturbed reload carries it
from there into force: `NeverLost` alone says nothing of the mirror, which is what a purge
leaves. Each refinement of `LastKnownGood` is
one case per action, with the instant of a look as the abstract step.

**BurnIn.** Lemmas on quotients and remainders come first (existence, uniqueness, the
quotient in a square, rounding toward zero with a correction is rounding down). Then the
scan: a cell lies in the grid, no two cells share a position, the next cell is one pixel
away, the corners are the ends. The machine's invariant is that a frame is the shift of its
second and config. Theorems: `AmplitudeKept`, `PortsAgree`, `NeverStandsStill` (over zone
changes too, since no cycle divides 29, 31, 59 or 61), `OnePixelAtATime` and
`EveryPositionVisited` (each position has an index of the scan, and each index a minute of
the cycle), for every time of the wall clock and every amplitude.

**Host tools.** `HostInvariant` has one invariant for each tool; a step of one leaves the
others alone. The seven theorems of `HostToolsProofs` are projections of it.

- *Validators.* `ToolInv` says at each stage which errors have been collected: those of
  the shape, then of shape and rules, then of the scan too, unless the input was refused
  before it was a document. `AlwaysAVerdict` speaks of the end only. `SchemaBoundsIngestion`
  rests on a document being free of `StructureErrors` and `SemanticErrors` exactly when
  `SchemaAccepts` it and none of its numbers is written as a float, for every document;
  `FormIsIdentity` rests on lemmas on the canonical zone id: respelling the
  segments of a form keeps their words and number, and the canonical case depends on those
  alone, so the form of a respelled form is that form.
- *Preflight.* `PreflightInv` carries the checks in the order of the report (`InOrder`), the
  one device that all answers come from and what each passed check says of it (`OneDevice`),
  the time that has gone by at each query (`OnTime`, which is where the tolerance of
  `AcceptedMeetsAll` comes from), and for the other direction that a qualified device has
  passed every check so far (`Qualifies`). The last one is not a consequence of the others:
  they say what a pass means, not when a check must pass.
- *Release workflow.* `ReleaseInv` says that one job has the runner and only a job leaves a
  keystore (`OneJob`), that a run whose tag did not move since it began has built and
  checked out one commit (`OneCommit`), and that what it compared, signed and recorded is
  its own (`OwnBuilds`, `OwnEvidence`), which is carried into the release (`Published`).
  `ReleaseTellsTheTruth` speaks of the release alone, which comes from a run that may have
  checked the tag out three times.

**Model-checked only.** The liveness properties `EveryRunEnds`, `PickedUp` and `ComesUp`,
which are outside the prover's reach, and the properties that a run shows violated. Every
safety and action property that a passing run checks is also a theorem. No proof needs
induction over data: histories, fault lists and check lists are related to the state by
quantifying over their indices.

## 5. Plan

In order of weight:

1. *Done:* the delivery runner, the store and its three clocks, the burn-in shift, the
   validators, the preflight and the release workflow, modelled and checked; every safety
   property of a passing run proved.
2. The composition of `Delivery` with `AndroidClock`: the status that the delivery reads
   after the reboot is the one the app writes (a status of the boot before is a listed
   hazard).
3. A power cut in the claim store: what an `fsync` of the file without one of its directory
   may lose (a listed hazard).
4. Proofs: the safety half of the liveness properties (an order on the stages of a run that
   every step descends).

## 6. Not modelled

Rendering and text layout (`ClockRenderer`, `ClockFormat`, the Linux `Canvas` and `Paint`,
their Swift twins) are pixels and are covered by the repository's golden images. The
JSON parsers are deterministic over characters; a model would restate the grammar.
CI checks, build and install scripts run once over a tree. Enumerations and flags of the
documents that no rule relates are known by the codes they are refused with. Power loss of unsynced directories,
two approvals against one device, a status of the boot before, a failed read in the kiosk,
a launch whose record did not reach the disk and
a push between the look and the seed of the Apple TV are listed as hazards with the reason
why no property covers them.

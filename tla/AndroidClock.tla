---------------------------- MODULE AndroidClock ----------------------------
(* The Android app: MainActivity on its main thread, the BootReceiver, the  *)
(* preference that remembers the first launch, and the files config.json    *)
(* and status.json, of which the first is replaced from outside at any time. *)
(* The app has one activity instance; Android may destroy it, kill its      *)
(* process or reboot the device between any two steps.                      *)
EXTENDS Naturals, FiniteSets, ConfigStore

CONSTANTS
    NoAutoStart,          \* the accepted documents with bootStart false
    Faults,               \* which faults happen, each at most once
    MaxEdits, MaxBoots    \* bounds: replacements of config.json, reboots

FaultKinds == {"read", "write", "kill"}

ASSUME AndroidAssumption ==
    /\ NoAutoStart \subseteq Accepted
    /\ Faults \subseteq FaultKinds
    /\ MaxEdits \in Nat /\ MaxBoots \in Nat

VARIABLES
    config, status,   \* the two files
    prefs,            \* launchedOnce: as this process sees it, and on disk
    task,             \* the activity, as the system sees it
    stage, reader,    \* what the main thread does, and for whom it reloads
    store,            \* configStore of the activity
    bootStore,        \* the store that onReceive creates
    view,             \* the clock view
    fromBoot,         \* launchedFromBoot, from the intent of the activity
    announced,        \* BOOT_COMPLETED was sent
    starting,         \* a startActivity of the receiver is under way
    edits, boots,     \* counted for their bounds
    faults,           \* the faults that have happened
    unwritten,        \* kept for the properties: the last write of status.json
                      \* failed;
    opened            \* an activity was created since the install

reports == <<status, unwritten>>
files == <<config, reports>>
receiver == <<bootStore, announced, starting>>
activity == <<store, view, fromBoot>>
bounds == <<edits, boots>>
vars == <<files, prefs, task, stage, reader, activity, receiver, bounds, faults,
          opened>>
-----------------------------------------------------------------------------
Tasks == {"none", "saved", "paused", "resumed"}
Views == [shown : Accepted \cup {Defaults}, running : BOOLEAN]
Blank == [shown |-> Defaults, running |-> FALSE]

Init ==
    /\ config \in Documents \cup {NoFile}
    /\ status = NoFile /\ unwritten = FALSE
    /\ prefs = [memory |-> FALSE, disk |-> FALSE]
    /\ task = "none"
    /\ stage = "idle" /\ reader = "none"
    /\ store = NewStore /\ bootStore = NewStore
    /\ view = Blank
    /\ fromBoot = FALSE
    /\ announced = TRUE /\ starting = FALSE
    /\ edits = 0 /\ boots = 0
    /\ faults = {}
    /\ opened = FALSE

Fault(kind) ==
    /\ kind \in Faults \ faults
    /\ faults' = faults \cup {kind}
-----------------------------------------------------------------------------
(* MainActivity.                                                            *)

(* onCreate: the launch is recorded (apply() writes it later), and the      *)
(* activity gets a store of its own.  onResume follows.                     *)
Create(boot) ==
    /\ fromBoot' = boot
    /\ prefs' = [prefs EXCEPT !.memory = TRUE]
    /\ store' = NewStore
    /\ view' = Blank
    /\ task' = "resumed"
    /\ opened' = TRUE

Gone == store' = NewStore /\ view' = Blank /\ fromBoot' = FALSE

Resume == stage' = "isfile" /\ reader' = "activity"

(* The launcher, the recents list or "am start" brings the clock up.  A     *)
(* killed activity comes back with the intent it was created with.          *)
Open ==
    /\ stage = "idle"
    /\ \/ task = "none" /\ Create(FALSE)
       \/ task = "saved" /\ Create(fromBoot)
       \/ /\ task = "paused"
          /\ task' = "resumed"
          /\ UNCHANGED <<activity, prefs, opened>>
    /\ Resume
    /\ UNCHANGED <<files, receiver, bounds, faults>>

(* The activity that the receiver asked for: a new one, or the one there    *)
(* is.  A task that the launcher started is of another intent, and a new    *)
(* activity covers the old one, which is not followed any further.          *)
Launch ==
    /\ starting
    /\ stage = "idle"
    /\ \/ /\ \/ task = "none" /\ Create(TRUE) /\ Resume
             \/ task = "saved" /\ Create(fromBoot) /\ Resume
             \/ /\ task = "paused" /\ Resume
                /\ task' = "resumed"
                /\ UNCHANGED <<activity, prefs, opened>>
             \/ /\ task = "resumed"
                /\ UNCHANGED <<activity, prefs, opened, task, stage, reader>>
          /\ starting' = FALSE
       \/ /\ task # "none"
          /\ task' = "none" /\ Gone
          /\ UNCHANGED <<prefs, opened, stage, reader, starting>>
    /\ UNCHANGED <<files, bootStore, announced, bounds, faults>>

(* One look of a reload() at the file, or an IOException in its place.      *)
Look ==
    /\ stage \in ReloadStages
    /\ LET s == IF reader = "activity" THEN store ELSE bootStore
           after == IF reader = "activity" THEN "apply" ELSE "decide"
           Goes(t, next) ==
               /\ IF reader = "activity"
                  THEN store' = t /\ UNCHANGED bootStore
                  ELSE bootStore' = t /\ UNCHANGED store
               /\ stage' = IF next = "done" THEN after ELSE next
       IN  \/ /\ LET r == Reload(s, stage, config) IN Goes(r.store, r.next)
              /\ UNCHANGED faults
           \/ /\ stage # "isfile"
              /\ Fault("read")
              /\ Goes(Refused(s, "invalid"), "done")
    /\ UNCHANGED <<files, prefs, task, reader, view, fromBoot, announced,
                   starting, bounds, opened>>

(* Mutant: a config is applied only when the clock starts.                  *)
ApplyOnce ==
    /\ stage = "apply"
    /\ view' = [shown |-> IF view = Blank THEN store.current ELSE view.shown,
                running |-> TRUE]
    /\ stage' = "publish"
    /\ UNCHANGED <<files, prefs, task, reader, store, fromBoot, receiver, bounds,
                   faults, opened>>

Apply ==
    /\ stage = "apply"
    /\ view' = [shown |-> store.current, running |-> TRUE]
    /\ stage' = "publish"
    /\ UNCHANGED <<files, prefs, task, reader, store, fromBoot, receiver, bounds,
                   faults, opened>>

(* Mutant: the status never mentions the boot.                              *)
PublishWithoutBoot ==
    /\ stage = "publish"
    /\ status' = StatusOf(store, FALSE) /\ unwritten' = FALSE
    /\ stage' = "idle" /\ reader' = "none"
    /\ UNCHANGED <<config, prefs, task, activity, receiver, bounds, faults, opened>>

(* publishStatus; a write that fails is logged and forgotten.               *)
Publish ==
    /\ stage = "publish"
    /\ \/ /\ status' = StatusOf(store, fromBoot) /\ unwritten' = FALSE
          /\ UNCHANGED faults
       \/ /\ Fault("write")
          /\ unwritten' = TRUE /\ UNCHANGED status
    /\ stage' = "idle" /\ reader' = "none"
    /\ UNCHANGED <<config, prefs, task, activity, receiver, bounds, opened>>

(* onPause: Home, or another activity on top.                               *)
Pause ==
    /\ stage = "idle" /\ task = "resumed"
    /\ task' = "paused"
    /\ view' = [view EXCEPT !.running = FALSE]
    /\ UNCHANGED <<files, prefs, stage, reader, store, fromBoot, receiver, bounds,
                   faults, opened>>

(* Back finishes the activity, the system may destroy it.                   *)
Destroy ==
    /\ stage = "idle" /\ task = "paused"
    /\ task' = "none" /\ Gone
    /\ UNCHANGED <<files, prefs, stage, reader, receiver, bounds, faults, opened>>
-----------------------------------------------------------------------------
(* AppState and BootReceiver.                                               *)

(* apply() returns at once; the file follows.                               *)
Flush ==
    /\ prefs.disk # prefs.memory
    /\ prefs' = [prefs EXCEPT !.disk = prefs.memory]
    /\ UNCHANGED <<files, task, stage, reader, activity, receiver, bounds, faults,
                   opened>>

(* Mutant: launchedOnce is true for an app that knows nothing of it.        *)
OnReceiveUnasked ==
    /\ ~announced
    /\ stage = "idle"
    /\ announced' = TRUE
    /\ bootStore' = NewStore
    /\ stage' = "isfile" /\ reader' = "receiver"
    /\ UNCHANGED <<files, prefs, task, activity, starting, bounds, faults, opened>>

OnReceive ==
    /\ ~announced
    /\ stage = "idle"
    /\ announced' = TRUE
    /\ bootStore' = NewStore
    /\ IF prefs.memory
       THEN stage' = "isfile" /\ reader' = "receiver"
       ELSE UNCHANGED <<stage, reader>>
    /\ UNCHANGED <<files, prefs, task, activity, starting, bounds, faults, opened>>

(* Mutant: the condition on bootStart the wrong way round.                  *)
DecideInverted ==
    /\ stage = "decide"
    /\ starting' = (bootStore.current \in NoAutoStart)
    /\ stage' = "idle" /\ reader' = "none" /\ bootStore' = NewStore
    /\ UNCHANGED <<files, prefs, task, activity, announced, bounds, faults, opened>>

Decide ==
    /\ stage = "decide"
    /\ starting' = (bootStore.current \notin NoAutoStart)
    /\ stage' = "idle" /\ reader' = "none" /\ bootStore' = NewStore
    /\ UNCHANGED <<files, prefs, task, activity, announced, bounds, faults, opened>>
-----------------------------------------------------------------------------
(* The environment.                                                         *)

(* config.json is renamed over, or removed.                                 *)
Edit ==
    /\ edits < MaxEdits
    /\ edits' = edits + 1
    /\ config' \in (Documents \cup {NoFile}) \ {config}
    /\ UNCHANGED <<reports, prefs, task, stage, reader, activity, receiver, boots,
                   faults, opened>>

ProcessGone ==
    /\ prefs' = [prefs EXCEPT !.memory = prefs.disk]
    /\ stage' = "idle" /\ reader' = "none"
    /\ store' = NewStore /\ bootStore' = NewStore /\ view' = Blank

(* The process dies: a paused activity is remembered with its intent, a     *)
(* crashed or stopped one is not.  An activity that the receiver started    *)
(* is the system's to bring up.                                             *)
Kill ==
    /\ Fault("kill")
    /\ ProcessGone
    /\ task' = IF task = "paused" THEN "saved" ELSE "none"
    /\ fromBoot' = IF task = "paused" THEN fromBoot ELSE FALSE
    /\ UNCHANGED <<files, announced, starting, bounds, opened>>

(* Power loss or reboot.                                                    *)
Reboot ==
    /\ boots < MaxBoots
    /\ boots' = boots + 1
    /\ ProcessGone
    /\ task' = "none" /\ fromBoot' = FALSE
    /\ announced' = FALSE /\ starting' = FALSE
    /\ UNCHANGED <<files, edits, faults, opened>>
-----------------------------------------------------------------------------
(* What the main thread does by itself.                                     *)
MainThread == Look \/ Apply \/ Publish \/ OnReceive \/ Decide \/ Launch

Next ==
    \/ MainThread \/ Open \/ Pause \/ Destroy \/ Flush
    \/ Edit \/ Kill \/ Reboot

Spec == Init /\ [][Next]_vars

(* The main thread runs and the broadcast is delivered; nobody has to open  *)
(* the app, edit the file or reboot.                                        *)
FairSpec == Spec /\ WF_vars(MainThread)
-----------------------------------------------------------------------------
(* Properties.                                                              *)

(* Every variable has the shape the app gives it.                           *)
TypeOK ==
    /\ config \in Documents \cup {NoFile}
    /\ status \in StatusFiles \cup {NoFile}
    /\ prefs \in [memory : BOOLEAN, disk : BOOLEAN]
    /\ task \in Tasks
    /\ stage \in ReloadStages \cup {"idle", "apply", "publish", "decide"}
    /\ reader \in {"none", "activity", "receiver"}
    /\ store \in Stores /\ bootStore \in Stores
    /\ view \in Views
    /\ {fromBoot, announced, starting, unwritten, opened} \subseteq BOOLEAN
    /\ edits \in 0..MaxEdits /\ boots \in 0..MaxBoots
    /\ faults \subseteq FaultKinds

(* However config.json is replaced between the looks of a reload, the       *)
(* activity's store behaves like one that looks at one instant and keeps    *)
(* the last accepted document.                                              *)
Good == INSTANCE LastKnownGood
    WITH file <- config, alive <- task \in {"paused", "resumed"},
         inForce <- store.current
KeepsLastGood == Good!Spec

(* A clock in the foreground that has come to rest shows what is in force,  *)
(* and its status.json says so and is of this launch: what the delivery     *)
(* reads from the file is what a viewer sees.  A status that could not be   *)
(* written is out of date until the next one that can, and no longer.       *)
StatusTellsTheScreen ==
    task = "resumed" /\ stage = "idle" =>
        /\ view = [shown |-> store.current, running |-> TRUE]
        /\ status = StatusOf(store, fromBoot) \/ unwritten

(* The receiver never brings the clock up on a box where nobody has opened  *)
(* it since the install (AppState, external-config.md "Boot behaviour").    *)
NoHijack == starting \/ reader = "receiver" => opened

(* An accepted document that is in place when the clock resumes, and stays, *)
(* is shown, however often others came before.                              *)
PickedUp ==
    \A d \in Accepted :
        (reader = "activity" /\ stage = "isfile" /\ config = d)
            ~> (view.shown = d \/ config # d \/ task # "resumed" \/ "read" \in faults)

(* After a boot the clock comes up by itself when a launch was recorded and *)
(* the file does not ask for the contrary.                                  *)
ComesUp ==
    (~announced /\ prefs.disk /\ config \in Accepted \ NoAutoStart)
        ~> (task # "none" \/ config \notin Accepted \ NoAutoStart \/ "kill" \in faults)
=============================================================================

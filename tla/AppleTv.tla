------------------------------- MODULE AppleTv -------------------------------
(* The tvOS app: ClockViewController, the ConfigProvider with its timer and *)
(* its mirror of the last accepted document in the preferences, and the     *)
(* TickSoundPlayer, all on the main thread.  config.json and status.json    *)
(* are in Caches, which the system purges while the app does not run.  An   *)
(* operator replaces config.json at any time.                               *)
EXTENDS Naturals, FiniteSets, ConfigStore

CONSTANTS
    TickOf,              \* tickSound of each configuration
    Faults,              \* which faults happen, each at most once
    MaxFaults,           \* bounds: how many of them,
    MaxEdits, MaxBoots   \* replacements of config.json, losses of power

Ticks == {"off", "minute", "second"}
FaultKinds == {"read", "write", "kill", "audio", "interruption"}

ASSUME AppleAssumption ==
    /\ TickOf \in [Accepted \cup {Defaults} -> Ticks]
    /\ TickOf[Defaults] = "minute"
    /\ Faults \subseteq FaultKinds
    /\ {MaxFaults, MaxEdits, MaxBoots} \subseteq Nat

VARIABLES
    config, status,   \* the two files
    prefs,            \* the mirror: as the app sees it, and on disk
    app,              \* not running, in the background, in front
    stage, reader,    \* what the main thread does, and for whom it reloads
    timer,            \* the timer of the provider is scheduled
    store,            \* ConfigStore
    view,             \* the clock view
    player,           \* TickSoundPlayer: mode and active; what the engine plays
    edits, boots, faults,
    unwritten,        \* kept for the properties: the last write of status.json
    course, kept      \* failed; how the last reload went; the document that
                      \* must not be lost

reports == <<status, unwritten>>
files == <<config, reports>>
screen == <<store, view>>
bounds == <<edits, boots, faults>>
ghosts == <<course, kept>>
vars == <<files, prefs, app, stage, reader, timer, screen, player, bounds, ghosts>>

Blank == [shown |-> Defaults, running |-> FALSE]
NewPlayer == [mode |-> "minute", active |-> FALSE, engine |-> "off", trouble |-> FALSE]

Init ==
    /\ config \in Documents \cup {NoFile} /\ status = NoFile
    /\ unwritten = FALSE
    /\ prefs = [memory |-> NoFile, disk |-> NoFile]
    /\ app = "none"
    /\ stage = "idle" /\ reader = "none" /\ timer = FALSE
    /\ store = NewStore /\ view = Blank /\ player = NewPlayer
    /\ edits = 0 /\ boots = 0 /\ faults = {}
    /\ course = "disturbed" /\ kept = NoFile

Fault(kind) ==
    /\ kind \in Faults \ faults
    /\ Cardinality(faults) < MaxFaults
    /\ faults' = faults \cup {kind}
    /\ UNCHANGED <<edits, boots>>
-----------------------------------------------------------------------------
(* TickSoundPlayer.                                                         *)

(* rebuild: the engine stops, and starts again for an active player with a  *)
(* mode.  The audio session or the engine may refuse; nobody hears of it.   *)
Rebuilt(p) ==
    IF ~p.active \/ p.mode = "off"
    THEN [p EXCEPT !.engine = "off", !.trouble = FALSE]
    ELSE [p EXCEPT !.engine = p.mode, !.trouble = FALSE]

Rebuild(p) ==
    \/ player' = Rebuilt(p) /\ UNCHANGED bounds
    \/ /\ Rebuilt(p).engine # "off" /\ Fault("audio")
       /\ player' = [p EXCEPT !.engine = "off", !.trouble = TRUE]

SetMode(mode) ==
    IF mode = player.mode THEN UNCHANGED <<player, bounds>>
    ELSE Rebuild([player EXCEPT !.mode = mode])

SetActive(active) ==
    IF active = player.active THEN UNCHANGED <<player, bounds>>
    ELSE Rebuild([player EXCEPT !.active = active])

(* Another app takes the audio, or the route changes: the engine stops.     *)
Interrupted ==
    /\ player.engine # "off" /\ Fault("interruption")
    /\ player' = [player EXCEPT !.engine = "off", !.trouble = TRUE]
    /\ UNCHANGED <<files, prefs, app, stage, reader, timer, screen, ghosts>>

(* The end of an interruption, a change of the engine's configuration, a    *)
(* reset of the media services.                                             *)
Notified ==
    /\ app # "none" /\ stage = "idle"
    /\ Rebuild(player)
    /\ UNCHANGED <<files, prefs, app, stage, reader, timer, screen, ghosts>>
-----------------------------------------------------------------------------
(* ConfigProvider.reloadNow, step by step.                                  *)

(* course: the file was accepted, was not, or there was an edit or a fault. *)
Courses == {"undisturbed", "accepted", "disturbed"}
Disturbed == course' = "disturbed"

BeginReload(for) == stage' = "vanished" /\ reader' = for /\ course' = "undisturbed"

(* seedFromMirrorIfNeeded: is the file gone, and is there a mirror.         *)
LookForFile ==
    /\ stage = "vanished"
    /\ stage' = IF config = NoFile /\ prefs.memory # NoFile THEN "seed" ELSE "isfile"
    /\ UNCHANGED <<files, prefs, app, reader, timer, screen, player, bounds, ghosts>>

(* The mirrored document is renamed into place, whatever is there by now.   *)
Seed ==
    /\ stage = "seed"
    /\ \/ config' = prefs.memory /\ UNCHANGED <<bounds, ghosts>>
       \/ Fault("write") /\ Disturbed /\ UNCHANGED <<config, kept>>
    /\ stage' = "isfile"
    /\ UNCHANGED <<reports, prefs, app, reader, timer, screen, player>>

(* One look of store.reload() at the file, or an error in its place.        *)
Look ==
    /\ stage \in ReloadStages
    /\ LET Goes(t, next) ==
               /\ store' = t
               /\ stage' = IF next = "done" THEN "mirror" ELSE next
       IN  \/ /\ LET r == Reload(store, stage, config) IN Goes(r.store, r.next)
              /\ course' = IF stage = "read" /\ config \in Accepted /\ course # "disturbed"
                           THEN "accepted" ELSE course
              /\ UNCHANGED bounds
           \/ /\ stage # "isfile" /\ Fault("read")
              /\ Goes(Refused(store, "invalid"), "done")
              /\ Disturbed
    /\ UNCHANGED <<files, prefs, app, reader, timer, view, player, kept>>

(* Mutant: what is in the file is mirrored without a second look at it.     *)
MirrorUnchecked ==
    /\ stage = "mirror"
    /\ prefs' = [prefs EXCEPT !.memory = IF config = NoFile THEN @ ELSE config]
    /\ stage' = "publish"
    /\ UNCHANGED <<files, app, reader, timer, screen, player, bounds, ghosts>>

(* Mutant: a mirror that is there is not replaced.                          *)
MirrorOnce ==
    /\ stage = "mirror"
    /\ prefs' = [prefs EXCEPT !.memory =
          IF config \in Accepted /\ @ = NoFile THEN config ELSE @]
    /\ stage' = "publish"
    /\ UNCHANGED <<files, app, reader, timer, screen, player, bounds, ghosts>>

(* mirrorAcceptedDocument: the file is read and parsed once more.           *)
Mirror ==
    /\ stage = "mirror"
    /\ \/ /\ prefs' = [prefs EXCEPT !.memory = IF config \in Accepted THEN config ELSE @]
          /\ UNCHANGED <<bounds, ghosts>>
       \/ Fault("read") /\ Disturbed /\ UNCHANGED <<prefs, kept>>
    /\ stage' = "publish"
    /\ UNCHANGED <<files, app, reader, timer, screen, player>>

(* publishStatus: an error is dropped.                                      *)
Publish ==
    /\ stage = "publish"
    /\ \/ status' = StatusOf(store, FALSE) /\ unwritten' = FALSE /\ UNCHANGED bounds
       \/ Fault("write") /\ unwritten' = TRUE /\ UNCHANGED status
    /\ stage' = "apply"
    /\ UNCHANGED <<config, prefs, app, reader, timer, screen, player, ghosts>>

Applied ==
    /\ stage = "apply"
    /\ view' = [view EXCEPT !.shown = store.current]
    /\ kept' = IF course = "accepted" /\ kept = NoFile THEN store.current ELSE kept
    /\ stage' = IF reader = "resume" THEN "activate" ELSE "idle"
    /\ reader' = IF reader = "resume" THEN reader ELSE "none"
    /\ UNCHANGED <<files, prefs, app, timer, store, course>>

(* Mutant: the mode is stored and the engine is left as it is.              *)
ApplyQuietly ==
    /\ Applied
    /\ player' = [player EXCEPT !.mode = TickOf[store.current]]
    /\ UNCHANGED bounds

(* onReload: ClockViewController.apply.                                     *)
Apply == Applied /\ SetMode(TickOf[store.current])

(* Mutant: the timer is taken for one that is there.                        *)
ActivateUntimed ==
    /\ stage = "activate"
    /\ SetActive(TRUE)
    /\ view' = [view EXCEPT !.running = TRUE]
    /\ stage' = "idle" /\ reader' = "none"
    /\ UNCHANGED <<files, prefs, app, timer, store, ghosts>>

(* The rest of start() and of resume().                                     *)
Activate ==
    /\ stage = "activate"
    /\ timer' = TRUE
    /\ SetActive(TRUE)
    /\ view' = [view EXCEPT !.running = TRUE]
    /\ stage' = "idle" /\ reader' = "none"
    /\ UNCHANGED <<files, prefs, app, store, ghosts>>

TimerFires ==
    /\ timer /\ app = "front" /\ stage = "idle"
    /\ BeginReload("timer")
    /\ UNCHANGED <<files, prefs, app, timer, screen, player, bounds, kept>>
-----------------------------------------------------------------------------
(* ClockViewController.                                                     *)

(* A launch, a return to the foreground, or another viewDidAppear.          *)
Resume ==
    /\ stage = "idle"
    /\ app' = "front"
    /\ BeginReload("resume")
    /\ UNCHANGED <<files, prefs, timer, screen, player, bounds, kept>>

Pause ==
    /\ app = "front" /\ stage = "idle"
    /\ app' = "back"
    /\ view' = [view EXCEPT !.running = FALSE]
    /\ SetActive(FALSE)
    /\ timer' = FALSE
    /\ UNCHANGED <<files, prefs, stage, reader, store, ghosts>>
-----------------------------------------------------------------------------
(* The environment.                                                         *)

(* The preferences reach the disk a while after they were set.              *)
Flush ==
    /\ prefs.disk # prefs.memory
    /\ prefs' = [prefs EXCEPT !.disk = prefs.memory]
    /\ UNCHANGED <<files, app, stage, reader, timer, screen, player, bounds, ghosts>>

Edit ==
    /\ edits < MaxEdits
    /\ edits' = edits + 1
    /\ config' \in (Documents \cup {NoFile}) \ {config}
    /\ Disturbed /\ kept' = NoFile
    /\ UNCHANGED <<reports, prefs, app, stage, reader, timer, screen, player, boots, faults>>

(* The system needs room.                                                   *)
Purge ==
    /\ app # "front"
    /\ config' \in {config, NoFile} /\ status' \in {status, NoFile}
    /\ <<config', status'>> # <<config, status>>
    /\ UNCHANGED <<unwritten, prefs, app, stage, reader, timer, screen, player, bounds, ghosts>>

ProcessGone ==
    /\ app' = "none" /\ stage' = "idle" /\ reader' = "none" /\ timer' = FALSE
    /\ store' = NewStore /\ view' = Blank /\ player' = NewPlayer
    /\ Disturbed
    /\ UNCHANGED files

(* The preferences are with a daemon, and outlive the app.                  *)
Kill ==
    /\ app # "none"
    /\ Fault("kill")
    /\ ProcessGone
    /\ UNCHANGED <<prefs, kept>>

(* What has not reached the disk is lost.                                   *)
PowerLoss ==
    /\ boots < MaxBoots
    /\ boots' = boots + 1
    /\ ProcessGone
    /\ prefs' = [prefs EXCEPT !.memory = prefs.disk]
    /\ kept' = IF prefs.memory = prefs.disk THEN kept ELSE NoFile
    /\ UNCHANGED <<edits, faults>>
-----------------------------------------------------------------------------
MainThread == LookForFile \/ Seed \/ Look \/ Mirror \/ Publish \/ Apply \/ Activate

Next ==
    \/ MainThread \/ TimerFires \/ Resume \/ Pause
    \/ Interrupted \/ Notified
    \/ Flush \/ Edit \/ Purge \/ Kill \/ PowerLoss

Spec == Init /\ [][Next]_vars

(* The main thread runs, and so does its timer.  Nobody has to bring the    *)
(* app up, edit the file or end an interruption.                            *)
FairSpec == Spec /\ WF_vars(MainThread) /\ WF_vars(TimerFires)
-----------------------------------------------------------------------------
(* Properties.                                                              *)

(* Every variable has the shape the app gives it; the mirror holds only     *)
(* documents that are accepted.                                             *)
TypeOK ==
    /\ config \in Documents \cup {NoFile} /\ status \in StatusFiles \cup {NoFile}
    /\ prefs \in [memory : Accepted \cup {NoFile}, disk : Accepted \cup {NoFile}]
    /\ app \in {"none", "back", "front"}
    /\ stage \in ReloadStages \cup
          {"idle", "vanished", "seed", "mirror", "publish", "apply", "activate"}
    /\ reader \in {"none", "resume", "timer"}
    /\ timer \in BOOLEAN /\ unwritten \in BOOLEAN
    /\ store \in Stores
    /\ view \in [shown : Accepted \cup {Defaults}, running : BOOLEAN]
    /\ player \in [mode : Ticks, active : BOOLEAN, engine : Ticks, trouble : BOOLEAN]
    /\ edits \in 0..MaxEdits /\ boots \in 0..MaxBoots /\ faults \subseteq FaultKinds
    /\ course \in Courses /\ kept \in Accepted \cup {NoFile}

(* However the file is replaced, purged or seeded between the looks, the    *)
(* store behaves like one that looks at one instant and keeps the last      *)
(* accepted document.                                                       *)
Good == INSTANCE LastKnownGood
    WITH file <- config, alive <- app # "none", inForce <- store.current
KeepsLastGood == Good!Spec

(* appletv/README.md: "a purge never loses the last-known-good".  A         *)
(* document that a reload accepted with nothing in between is in force      *)
(* after every later reload, through purges, ends of the process and, once  *)
(* the preferences are on disk, losses of power, until the operator changes *)
(* the file or a read or a write of the reload fails.                       *)
NeverLost ==
    kept # NoFile /\ app = "front" /\ stage = "idle" /\ course # "disturbed"
        => view.shown = kept

(* At rest in front, the screen, status.json and the sound are those of the *)
(* configuration in force, but for a status that could not be written, until *)
(* the next one that can, and for a sound that was refused or interrupted,  *)
(* until the next rebuild that succeeds; in the background there is neither *)
(* a sound nor a timer, and the refusal is forgotten: the next resume tries *)
(* again.                                                                   *)
RestAgrees ==
    /\ app = "front" /\ stage = "idle" =>
          /\ view = [shown |-> store.current, running |-> TRUE]
          /\ status = StatusOf(store, FALSE) \/ unwritten
          /\ player.engine = TickOf[store.current] \/ (player.trouble /\ player.engine = "off")
    /\ app = "back" =>
          player.engine = "off" /\ ~player.trouble /\ ~timer /\ ~view.running

(* An accepted document that is in place and stays is shown, without a      *)
(* resume, and although a read may fail: the timer looks again.             *)
PickedUp ==
    \A d \in Accepted :
        (app = "front" /\ config = d) ~> (view.shown = d \/ config # d \/ app # "front")
=============================================================================

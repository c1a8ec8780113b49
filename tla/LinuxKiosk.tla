----------------------------- MODULE LinuxKiosk -----------------------------
(* The Linux kiosk (linux/.../Main.java): one event thread, on which a timer *)
(* of one second compares the modification time of config.json with the one *)
(* it knows, reloads the file when they differ, and publishes status.json.  *)
(* The file is replaced from outside at any time, between any two looks.    *)
EXTENDS Naturals, ConfigStore

CONSTANTS
    Stamps,               \* modification times of a file, in milliseconds
    Faults,               \* which faults happen, each at most once
    MaxEdits, MaxStarts   \* bounds: replacements of config.json, process starts

FaultKinds == {"read", "write", "kill"}

ASSUME KioskAssumption ==
    /\ Stamps \subseteq Nat \ {0}
    /\ Faults \subseteq FaultKinds
    /\ MaxEdits \in Nat /\ MaxStarts \in Nat

VARIABLES
    config, mtime, status,     \* the files, and what lastModified() says
    running,                   \* the process lives
    stage,                     \* what the event thread does
    store, lastConfigMtime,    \* the Runtime
    shown,                     \* the config of the renderer and the time source
    edits, starts,             \* counted for their bounds
    faults,                    \* the faults that have happened
    unwritten                  \* kept for a property: the last write of
                               \* status.json failed

reports == <<status, unwritten>>
runtime == <<store, lastConfigMtime>>
vars == <<config, mtime, reports, running, stage, runtime, shown, edits, starts,
          faults>>
-----------------------------------------------------------------------------
(* lastModified() of a file that is not there is 0.                         *)
FileAt(document, t) ==
    /\ config' = document
    /\ mtime' = IF document = NoFile THEN 0 ELSE t

Init ==
    /\ \E d \in Documents \cup {NoFile}, t \in Stamps :
           config = d /\ mtime = IF d = NoFile THEN 0 ELSE t
    /\ status = NoFile /\ unwritten = FALSE
    /\ running = FALSE /\ stage = "idle"
    /\ store = NewStore /\ lastConfigMtime = 0
    /\ shown = Defaults
    /\ edits = 0 /\ starts = 0
    /\ faults = {}

Fault(kind) ==
    /\ kind \in Faults \ faults
    /\ faults' = faults \cup {kind}

(* runKiosk: the Runtime notes the time of the file without reading it, the *)
(* screen starts with the defaults and the status follows.                  *)
Start ==
    /\ ~running
    /\ starts < MaxStarts
    /\ starts' = starts + 1
    /\ running' = TRUE /\ stage' = "publish"
    /\ store' = NewStore /\ lastConfigMtime' = mtime
    /\ shown' = Defaults
    /\ UNCHANGED <<config, mtime, reports, edits, faults>>

(* The tick: the time is noted first, the file read afterwards.             *)
Poll ==
    /\ running /\ stage = "idle"
    /\ mtime # lastConfigMtime
    /\ lastConfigMtime' = mtime
    /\ stage' = "isfile"
    /\ UNCHANGED <<config, mtime, reports, running, store, shown, edits, starts, faults>>

(* One look of the reload at the file, or an IOException in its place.      *)
Look ==
    /\ running /\ stage \in ReloadStages
    /\ LET Goes(r) == /\ store' = r.store
                      /\ stage' = IF r.next = "done" THEN "render" ELSE r.next
       IN  \/ Goes(Reload(store, stage, config)) /\ UNCHANGED faults
           \/ /\ stage # "isfile"
              /\ Fault("read")
              /\ Goes([store |-> Refused(store, "invalid"), next |-> "done"])
    /\ UNCHANGED <<config, mtime, reports, running, lastConfigMtime, shown, edits, starts>>

(* Mutant: the time of the file is noted when it has been read.             *)
RenderNotes ==
    /\ running /\ stage = "render"
    /\ shown' = store.current
    /\ lastConfigMtime' = mtime
    /\ stage' = "publish"
    /\ UNCHANGED <<config, mtime, reports, running, store, edits, starts, faults>>

(* The time source and the renderer are replaced.                           *)
Render ==
    /\ running /\ stage = "render"
    /\ shown' = store.current
    /\ stage' = "publish"
    /\ UNCHANGED <<config, mtime, reports, running, runtime, edits, starts, faults>>

(* Mutant: the status is written once, when the kiosk starts.               *)
PublishOnce ==
    /\ running /\ stage = "publish"
    /\ status' = IF status = NoFile THEN StatusOf(store, FALSE) ELSE status
    /\ unwritten' = FALSE
    /\ stage' = "idle"
    /\ UNCHANGED <<config, mtime, running, runtime, shown, edits, starts, faults>>

(* publishStatus; a write that fails is ignored.                            *)
Publish ==
    /\ running /\ stage = "publish"
    /\ \/ status' = StatusOf(store, FALSE) /\ unwritten' = FALSE /\ UNCHANGED faults
       \/ Fault("write") /\ unwritten' = TRUE /\ UNCHANGED status
    /\ stage' = "idle"
    /\ UNCHANGED <<config, mtime, running, runtime, shown, edits, starts>>
-----------------------------------------------------------------------------
(* The environment.                                                         *)

(* Another file takes the place of config.json.  A rename keeps the time of *)
(* the file it moves: it may be any, later, earlier or the same.            *)
Edit ==
    /\ edits < MaxEdits
    /\ edits' = edits + 1
    /\ \E d \in (Documents \cup {NoFile}) \ {config}, t \in Stamps : FileAt(d, t)
    /\ UNCHANGED <<reports, running, stage, runtime, shown, starts, faults>>

(* The process is stopped, or the power goes.                               *)
Kill ==
    /\ running
    /\ Fault("kill")
    /\ running' = FALSE /\ stage' = "idle"
    /\ store' = NewStore /\ shown' = Defaults
    /\ UNCHANGED <<config, mtime, reports, lastConfigMtime, edits, starts>>
-----------------------------------------------------------------------------
EventThread == Poll \/ Look \/ Render \/ Publish

Next == EventThread \/ Start \/ Edit \/ Kill

Spec == Init /\ [][Next]_vars

(* The timer fires every second and nothing on the event thread blocks.     *)
FairSpec == Spec /\ WF_vars(EventThread)
-----------------------------------------------------------------------------
(* Properties.                                                              *)

(* Every variable has the shape the kiosk gives it.                         *)
TypeOK ==
    /\ config \in Documents \cup {NoFile}
    /\ mtime \in Stamps \cup {0} /\ lastConfigMtime \in Stamps \cup {0}
    /\ config = NoFile <=> mtime = 0
    /\ status \in StatusFiles \cup {NoFile}
    /\ running \in BOOLEAN /\ unwritten \in BOOLEAN
    /\ stage \in ReloadStages \cup {"idle", "render", "publish"}
    /\ store \in Stores
    /\ shown \in Accepted \cup {Defaults}
    /\ edits \in 0..MaxEdits /\ starts \in 0..MaxStarts
    /\ faults \subseteq FaultKinds

(* However the file is replaced between the looks of a reload, the kiosk's  *)
(* store is one that looks at one instant and keeps the last accepted       *)
(* document.                                                                *)
Good == INSTANCE LastKnownGood
    WITH file <- config, alive <- running, inForce <- store.current
KeepsLastGood == Good!Spec

(* At rest, the time source and the renderer have the store's config and    *)
(* status.json says so.  A status that could not be written is out of date  *)
(* until the next one that can, and no longer.                              *)
StatusTellsTheScreen ==
    running /\ stage = "idle" =>
        /\ shown = store.current
        /\ status = StatusOf(store, FALSE) \/ unwritten

(* An accepted document whose time is not the one noted is shown, or it is  *)
(* replaced first: a file that changes under the tick that reloads it is    *)
(* reloaded by the next one.                                                *)
PickedUp ==
    \A d \in Accepted :
        (running /\ config = d /\ mtime # lastConfigMtime)
            ~> (shown = d \/ config # d \/ ~running \/ "read" \in faults)

(* linux/README.md: "Same file contract as the Android app", which reads    *)
(* the file whenever it comes up: a document in place is shown.             *)
ShowsTheFile ==
    \A d \in Accepted : (running /\ config = d) ~> (shown = d \/ config # d \/ ~running)
=============================================================================

------------------------- MODULE AndroidClockProofs -------------------------
(* The Android app, for every set of documents and any number of edits and  *)
(* reboots: its types, the receiver that hijacks no box, the status that    *)
(* tells what is shown, and the last accepted document that stays in force. *)
EXTENDS AndroidClock, ConfigStoreProofs

-----------------------------------------------------------------------------
(* What holds between any two steps of the main thread.                     *)

(* A launch was recorded only after an activity was created, and a receiver *)
(* that is at work, or asked for a start, found such a record.              *)
LaunchInv ==
    /\ prefs.memory \/ prefs.disk => opened
    /\ starting \/ reader = "receiver" => opened

(* The main thread reloads for an activity that is in front, or for the     *)
(* receiver; only the receiver decides, only the activity applies.          *)
StageInv ==
    /\ stage = "idle" <=> reader = "none"
    /\ stage \in {"apply", "publish"} => reader = "activity"
    /\ stage = "decide" => reader = "receiver"
    /\ reader = "activity" => task = "resumed"

(* An activity that does not live holds nothing.                            *)
StoreInv == task \notin {"paused", "resumed"} => store = NewStore

(* From the application of a reload on, the screen is that of the store,    *)
(* and from its publication on the status is.                               *)
ScreenInv ==
    task = "resumed" =>
        /\ stage = "publish" \/ reader # "activity" =>
              view = [shown |-> store.current, running |-> TRUE]
        /\ reader # "activity" /\ ~unwritten =>
              status = StatusOf(store, fromBoot)

IInv == TypeOK /\ LaunchInv /\ StageInv /\ StoreInv /\ ScreenInv
-----------------------------------------------------------------------------
LEMMA InitEstablishes == Init => IInv
<1> SUFFICES ASSUME Init PROVE IInv
  OBVIOUS
<1>1. prefs.memory = FALSE /\ prefs.disk = FALSE /\ prefs \in [memory : BOOLEAN, disk : BOOLEAN]
  BY DEF Init
<1>2. view \in Views
  BY DEF Init, Views, Blank
<1>3. TypeOK
  <2>1. {fromBoot, announced, starting, unwritten, opened} \subseteq BOOLEAN
    BY Zenon DEF Init
  <2>2. edits \in 0..MaxEdits /\ boots \in 0..MaxBoots
    BY AndroidAssumption DEF Init
  <2>3. store \in Stores /\ bootStore \in Stores
    BY NewStoreType DEF Init
  <2>4. config \in Documents \cup {NoFile} /\ status \in StatusFiles \cup {NoFile}
    BY DEF Init
  <2> QED
    BY <1>1, <1>2, <2>1, <2>2, <2>3, <2>4, Zenon DEF Init, TypeOK, Tasks
<1>4. LaunchInv
  BY <1>1 DEF Init, LaunchInv
<1>5. StageInv /\ StoreInv /\ ScreenInv
  BY DEF Init, StageInv, StoreInv, ScreenInv
<1> QED BY <1>3, <1>4, <1>5 DEF IInv

LEMMA TypesKept == IInv /\ [Next]_vars => TypeOK'
<1> SUFFICES ASSUME IInv, [Next]_vars PROVE TypeOK'
  OBVIOUS
<1> USE DEF TypeOK
<1>0. TypeOK BY DEF IInv
<1>f. ASSUME NEW kind, Fault(kind) PROVE faults' \subseteq FaultKinds
  BY <1>0, <1>f, AndroidAssumption DEF Fault
<1>1. ASSUME UNCHANGED vars PROVE TypeOK'
  BY <1>0, <1>1 DEF vars, files, reports, activity, receiver, bounds
<1>c. ASSUME NEW b \in BOOLEAN, Create(b)
      PROVE  /\ fromBoot' \in BOOLEAN /\ opened' \in BOOLEAN
             /\ prefs' \in [memory : BOOLEAN, disk : BOOLEAN]
             /\ task' \in Tasks /\ store' \in Stores /\ view' \in Views
  <2>1. view' \in Views BY <1>c DEF Create, Views, Blank
  <2>2. prefs' \in [memory : BOOLEAN, disk : BOOLEAN] BY <1>0, <1>c DEF Create
  <2>3. task' \in Tasks /\ store' \in Stores
    BY <1>c, NewStoreType DEF Create, Tasks
  <2> QED BY <1>c, <2>1, <2>2, <2>3, Zenon DEF Create
<1>g. ASSUME Gone
      PROVE store' \in Stores /\ view' \in Views /\ fromBoot' \in BOOLEAN
  <2>1. view' \in Views BY <1>g DEF Gone, Views, Blank
  <2> QED BY <1>g, <2>1, NewStoreType DEF Gone
<1>2. ASSUME Open PROVE TypeOK'
  <2>1. /\ stage' \in ReloadStages /\ reader' = "activity"
        /\ UNCHANGED <<files, receiver, bounds, faults>>
    BY <1>2 DEF Open, Resume, ReloadStages
  <2>2. /\ fromBoot' \in BOOLEAN /\ opened' \in BOOLEAN
        /\ prefs' \in [memory : BOOLEAN, disk : BOOLEAN]
        /\ task' \in Tasks /\ store' \in Stores /\ view' \in Views
    <3>1. CASE Create(FALSE) \/ Create(fromBoot)
      BY <1>0, <1>c, <3>1
    <3>2. CASE task' = "resumed" /\ UNCHANGED <<activity, prefs, opened>>
      BY <1>0, <3>2 DEF activity, Tasks
    <3> QED BY <1>2, <3>1, <3>2 DEF Open
  <2> QED BY <1>0, <2>1, <2>2 DEF files, reports, receiver, bounds
<1>3. ASSUME Launch PROVE TypeOK'
  <2>1. /\ (stage' \in ReloadStages /\ reader' = "activity") \/ UNCHANGED <<stage, reader>>
        /\ starting' = FALSE \/ starting' = starting
        /\ UNCHANGED <<files, bootStore, announced, bounds, faults>>
    BY <1>3 DEF Launch, Resume, ReloadStages
  <2>2. /\ fromBoot' \in BOOLEAN /\ opened' \in BOOLEAN
        /\ prefs' \in [memory : BOOLEAN, disk : BOOLEAN]
        /\ task' \in Tasks /\ store' \in Stores /\ view' \in Views
    <3>1. CASE Create(TRUE) \/ Create(fromBoot)
      BY <1>0, <1>c, <3>1
    <3>2. CASE (task' = "resumed" \/ task' = task) /\ UNCHANGED <<activity, prefs, opened>>
      BY <1>0, <3>2 DEF activity, Tasks
    <3>3. CASE task' = "none" /\ Gone /\ UNCHANGED <<prefs, opened>>
      BY <1>0, <1>g, <3>3 DEF Tasks
    <3> QED BY <1>3, <3>1, <3>2, <3>3 DEF Launch
  <2> QED BY <1>0, <2>1, <2>2 DEF files, reports, bounds
<1>4. ASSUME Look PROVE TypeOK'
  <2> DEFINE s == IF reader = "activity" THEN store ELSE bootStore
             r == Reload(s, stage, config)
  <2>1. s \in Stores /\ stage \in ReloadStages
    BY <1>0, <1>4 DEF Look
  <2>2. r.store \in Stores /\ r.next \in ReloadStages \cup {"done"}
        /\ Refused(s, "invalid") \in Stores
    BY <1>0, <2>1, ReloadKeepsTypes, RefusedKeepsTypes DEF Reasons
  <2>3. /\ \/ store' \in {r.store, Refused(s, "invalid")} /\ bootStore' = bootStore
           \/ bootStore' \in {r.store, Refused(s, "invalid")} /\ store' = store
        /\ stage' \in {r.next, "apply", "decide"} /\ stage' # "done"
        /\ faults' = faults \/ Fault("read")
        /\ UNCHANGED <<files, prefs, task, reader, view, fromBoot, announced, starting,
                       bounds, opened>>
    BY <1>4 DEF Look
  <2> HIDE DEF s, r
  <2>4. faults' \subseteq FaultKinds
    BY <1>0, <1>f, <2>3
  <2> QED BY <1>0, <2>2, <2>3, <2>4 DEF files, reports, bounds
<1>5. ASSUME Apply PROVE TypeOK'
  <2>1. view' \in Views
    BY <1>0, <1>5 DEF Apply, Views, Stores
  <2> QED BY <1>0, <1>5, <2>1 DEF Apply, files, reports, receiver, bounds
<1>6. ASSUME Publish PROVE TypeOK'
  <2>1. StatusOf(store, fromBoot) \in StatusFiles
    BY <1>0, StatusType
  <2>2. faults' \subseteq FaultKinds
    BY <1>0, <1>6, <1>f DEF Publish
  <2> QED BY <1>0, <1>6, <2>1, <2>2 DEF Publish, activity, receiver, bounds
<1>7. ASSUME Pause PROVE TypeOK'
  <2>1. view' \in Views
    BY <1>0, <1>7 DEF Pause, Views
  <2> QED BY <1>0, <1>7, <2>1 DEF Pause, files, reports, receiver, bounds, Tasks
<1>8. ASSUME Destroy PROVE TypeOK'
  BY <1>0, <1>8, <1>g DEF Destroy, files, reports, receiver, bounds, Tasks
<1>9. ASSUME Flush PROVE TypeOK'
  <2>1. prefs' \in [memory : BOOLEAN, disk : BOOLEAN]
    BY <1>0, <1>9 DEF Flush
  <2> QED BY <1>0, <1>9, <2>1 DEF Flush, files, reports, receiver, bounds, activity
<1>10. ASSUME OnReceive PROVE TypeOK'
  <2>1. (stage' \in ReloadStages /\ reader' = "receiver") \/ UNCHANGED <<stage, reader>>
    BY <1>10 DEF OnReceive, ReloadStages
  <2> QED BY <1>0, <1>10, <2>1, NewStoreType DEF OnReceive, files, reports, bounds, activity
<1>11. ASSUME Decide PROVE TypeOK'
  <2>1. starting' \in BOOLEAN
    BY <1>11 DEF Decide
  <2> QED BY <1>0, <1>11, <2>1, NewStoreType DEF Decide, files, reports, bounds, activity
<1>12. ASSUME Edit PROVE TypeOK'
  <2>1. edits' \in 0..MaxEdits
    BY <1>0, <1>12, AndroidAssumption DEF Edit
  <2> QED BY <1>0, <1>12, <2>1 DEF Edit, reports, receiver, activity
<1>p. ASSUME ProcessGone
      PROVE  /\ prefs' \in [memory : BOOLEAN, disk : BOOLEAN] /\ stage' = "idle"
             /\ reader' = "none" /\ store' \in Stores /\ bootStore' \in Stores
             /\ view' \in Views
  <2>1. prefs' \in [memory : BOOLEAN, disk : BOOLEAN]
    BY <1>0, <1>p DEF ProcessGone
  <2>2. view' \in Views
    BY <1>p DEF ProcessGone, Views, Blank
  <2> QED BY <1>p, <2>1, <2>2, NewStoreType DEF ProcessGone
<1>13. ASSUME Kill PROVE TypeOK'
  <2>1. faults' \subseteq FaultKinds
    BY <1>13, <1>f DEF Kill
  <2>2. task' \in Tasks /\ fromBoot' \in BOOLEAN
    BY <1>0, <1>13 DEF Kill, Tasks
  <2> QED BY <1>0, <1>13, <1>p, <2>1, <2>2 DEF Kill, files, reports, bounds
<1>14. ASSUME Reboot PROVE TypeOK'
  <2>1. boots' \in 0..MaxBoots
    BY <1>0, <1>14, AndroidAssumption DEF Reboot
  <2> QED BY <1>0, <1>14, <1>p, <2>1 DEF Reboot, files, reports, Tasks
<1> QED
  BY <1>1, <1>2, <1>3, <1>4, <1>5, <1>6, <1>7, <1>8, <1>9, <1>10, <1>11, <1>12, <1>13,
     <1>14 DEF Next, MainThread

LEMMA LaunchKept == IInv /\ [Next]_vars => LaunchInv'
<1> SUFFICES ASSUME IInv, [Next]_vars PROVE LaunchInv'
  OBVIOUS
<1> USE DEF LaunchInv
<1>0. TypeOK /\ LaunchInv BY DEF IInv
<1>1. ASSUME UNCHANGED vars PROVE LaunchInv'
  BY <1>0, <1>1 DEF vars, receiver, bounds, files, reports, activity
<1>2. ASSUME Look PROVE LaunchInv'
  BY <1>0, <1>2 DEF Look
<1>3. ASSUME Apply \/ Publish \/ Pause \/ Destroy \/ Edit PROVE LaunchInv'
  BY <1>0, <1>3 DEF Apply, Publish, Pause, Destroy, Edit, receiver
<1>4. ASSUME Open PROVE LaunchInv'
  BY <1>0, <1>4 DEF Open, Create, Resume, receiver, activity
<1>5. ASSUME Launch PROVE LaunchInv'
  <2>1. opened' = TRUE \/ (opened' = opened /\ prefs' = prefs)
    BY <1>5 DEF Launch, Create
  <2>2. reader' = "activity" \/ reader' = reader
    BY <1>5 DEF Launch, Resume
  <2>3. starting' = FALSE \/ starting' = starting
    BY <1>5 DEF Launch
  <2> QED BY <1>0, <2>1, <2>2, <2>3
<1>6. ASSUME Flush PROVE LaunchInv'
  <2>1. prefs'.memory = prefs.memory /\ prefs'.disk = prefs.memory
    BY <1>0, <1>6 DEF Flush, TypeOK
  <2>2. opened' = opened /\ starting' = starting /\ reader' = reader
    BY <1>6 DEF Flush, receiver
  <2> QED BY <1>0, <2>1, <2>2
<1>7. ASSUME OnReceive \/ Decide PROVE LaunchInv'
  BY <1>0, <1>7 DEF OnReceive, Decide, IInv, StageInv
<1>8. ASSUME Kill \/ Reboot PROVE LaunchInv'
  <2>1. prefs' = [prefs EXCEPT !.memory = prefs.disk] /\ reader' = "none"
    BY <1>8 DEF Kill, Reboot, ProcessGone
  <2>2. prefs'.memory = prefs.disk /\ prefs'.disk = prefs.disk
    BY <1>0, <2>1 DEF TypeOK
  <2>3. opened' = opened /\ (starting' = starting \/ starting' = FALSE)
    BY <1>8 DEF Kill, Reboot
  <2> QED BY <1>0, <2>1, <2>2, <2>3
<1> QED
  BY <1>1, <1>2, <1>3, <1>4, <1>5, <1>6, <1>7, <1>8 DEF Next, MainThread

LEMMA StageKept == IInv /\ [Next]_vars => StageInv'
<1> SUFFICES ASSUME IInv, [Next]_vars PROVE StageInv'
  OBVIOUS
<1> USE DEF StageInv
<1>0. TypeOK /\ StageInv BY DEF IInv
<1>1. ASSUME UNCHANGED vars PROVE StageInv'
  BY <1>0, <1>1 DEF vars
<1>2. ASSUME Look PROVE StageInv'
  <2>1. PICK s \in Stores : /\ Reload(s, stage, config).next \in ReloadStages \cup {"done"}
                            /\ \/ stage' = "isfile" \/ stage' = "size" \/ stage' = "read"
                               \/ stage' = IF reader = "activity" THEN "apply" ELSE "decide"
    <3> DEFINE s == IF reader = "activity" THEN store ELSE bootStore
    <3>1. s \in Stores BY <1>0 DEF TypeOK
    <3>2. Reload(s, stage, config).next \in ReloadStages \cup {"done"}
      BY <1>0, <1>2, <3>1, ReloadKeepsTypes DEF TypeOK, Look
    <3>3. \/ stage' = IF Reload(s, stage, config).next = "done"
                      THEN IF reader = "activity" THEN "apply" ELSE "decide"
                      ELSE Reload(s, stage, config).next
          \/ stage' = IF reader = "activity" THEN "apply" ELSE "decide"
      BY <1>2 DEF Look
    <3> HIDE DEF s
    <3> QED BY <3>1, <3>2, <3>3 DEF ReloadStages
  <2>2. reader' = reader /\ task' = task /\ stage # "idle"
    BY <1>2 DEF Look, ReloadStages
  <2>3. reader \in {"activity", "receiver"}
    BY <1>0, <2>2 DEF TypeOK
  <2> QED BY <1>0, <2>1, <2>2, <2>3
<1>3. ASSUME Apply \/ Publish \/ Pause \/ Destroy \/ Edit \/ Flush PROVE StageInv'
  BY <1>0, <1>3 DEF Apply, Publish, Pause, Destroy, Edit, Flush
<1>4. ASSUME Open \/ Launch PROVE StageInv'
  BY <1>0, <1>4 DEF Open, Launch, Create, Resume
<1>5. ASSUME OnReceive \/ Decide PROVE StageInv'
  BY <1>0, <1>5 DEF OnReceive, Decide
<1>6. ASSUME Kill \/ Reboot PROVE StageInv'
  BY <1>0, <1>6 DEF Kill, Reboot, ProcessGone
<1> QED
  BY <1>1, <1>2, <1>3, <1>4, <1>5, <1>6 DEF Next, MainThread

LEMMA StoreKept == IInv /\ [Next]_vars => StoreInv'
<1> SUFFICES ASSUME IInv, [Next]_vars PROVE StoreInv'
  OBVIOUS
<1> USE DEF StoreInv
<1>0. TypeOK /\ StageInv /\ StoreInv BY DEF IInv
<1>1. ASSUME UNCHANGED vars PROVE StoreInv'
  BY <1>0, <1>1 DEF vars, activity
<1>2. ASSUME Look PROVE StoreInv'
  <2>1. CASE reader = "activity"
    BY <1>0, <1>2, <2>1 DEF Look, StageInv
  <2>2. CASE reader # "activity"
    BY <1>0, <1>2, <2>2 DEF Look
  <2> QED BY <2>1, <2>2
<1>3. ASSUME Apply \/ Publish \/ Pause \/ Destroy \/ Edit \/ Flush PROVE StoreInv'
  BY <1>0, <1>3 DEF Apply, Publish, Pause, Destroy, Edit, Flush, activity, Gone
<1>4. ASSUME Open \/ Launch PROVE StoreInv'
  BY <1>0, <1>4 DEF Open, Launch, Create, Resume, activity, Gone
<1>5. ASSUME OnReceive \/ Decide PROVE StoreInv'
  BY <1>0, <1>5 DEF OnReceive, Decide, activity
<1>6. ASSUME Kill \/ Reboot PROVE StoreInv'
  BY <1>0, <1>6 DEF Kill, Reboot, ProcessGone
<1> QED
  BY <1>1, <1>2, <1>3, <1>4, <1>5, <1>6 DEF Next, MainThread

LEMMA ScreenKept == IInv /\ [Next]_vars => ScreenInv'
<1> SUFFICES ASSUME IInv, [Next]_vars PROVE ScreenInv'
  OBVIOUS
<1> USE DEF ScreenInv, reports
<1>0. TypeOK /\ StageInv /\ ScreenInv BY DEF IInv
<1>1. ASSUME UNCHANGED vars PROVE ScreenInv'
  BY <1>0, <1>1 DEF vars, activity, files, reports
<1>2. ASSUME Look PROVE ScreenInv'
  <2>1. task' = task /\ reader' = reader /\ view' = view /\ reports' = reports
        /\ fromBoot' = fromBoot /\ stage' # "publish"
    <3>1. Reload(IF reader = "activity" THEN store ELSE bootStore, stage, config).next # "publish"
      <4>1. (IF reader = "activity" THEN store ELSE bootStore) \in Stores
        BY <1>0 DEF TypeOK
      <4> QED BY <1>0, <1>2, <4>1, ReloadKeepsTypes DEF Look, ReloadStages, TypeOK
    <3> QED BY <1>2, <3>1 DEF Look, Fault, files, reports, bounds
  <2>2. CASE reader = "activity"
    BY <2>1, <2>2
  <2>3. CASE reader # "activity"
    <3>1. store' = store /\ stage # "publish"
      BY <1>2, <2>3 DEF Look, ReloadStages
    <3> QED BY <1>0, <2>1, <2>3, <3>1
  <2> QED BY <2>2, <2>3
<1>3. ASSUME Apply PROVE ScreenInv'
  BY <1>0, <1>3 DEF Apply, StageInv
<1>4. ASSUME Publish PROVE ScreenInv'
  <2>1. stage = "publish" /\ view' = view /\ store' = store /\ fromBoot' = fromBoot
        /\ task' = task /\ reader' = "none"
        /\ (status' = StatusOf(store, fromBoot) \/ unwritten')
    BY <1>4 DEF Publish, activity
  <2> QED BY <1>0, <2>1
<1>5. ASSUME Pause \/ Destroy PROVE ScreenInv'
  BY <1>5 DEF Pause, Destroy
<1>6. ASSUME Edit \/ Flush \/ OnReceive \/ Decide PROVE ScreenInv'
  <2>1. task' = task /\ view' = view /\ store' = store /\ fromBoot' = fromBoot
        /\ reports' = reports
    BY <1>6 DEF Edit, Flush, OnReceive, Decide, activity, files, reports
  <2>2. (reader' # "activity" /\ stage' # "publish" /\ reader # "activity")
        \/ (reader' = reader /\ stage' = stage)
    BY <1>0, <1>6 DEF Edit, Flush, OnReceive, Decide, StageInv
  <2> QED BY <1>0, <2>1, <2>2
<1>7. ASSUME Open PROVE ScreenInv'
  BY <1>7 DEF Open, Resume
<1>8. ASSUME Launch PROVE ScreenInv'
  <2>1. \/ reader' = "activity" /\ stage' = "isfile"
        \/ task' = "none"
        \/ UNCHANGED <<activity, task, stage, reader, reports>>
    BY <1>8 DEF Launch, Resume, files, reports, bounds
  <2> QED BY <1>0, <2>1 DEF activity
<1>9. ASSUME Kill \/ Reboot PROVE ScreenInv'
  BY <1>9 DEF Kill, Reboot
<1> QED
  BY <1>1, <1>2, <1>3, <1>4, <1>5, <1>6, <1>7, <1>8, <1>9 DEF Next, MainThread
-----------------------------------------------------------------------------
(* Theorems.                                                                *)

LEMMA InvariantHolds == Spec => []IInv
<1>1. IInv /\ [Next]_vars => IInv'
  BY TypesKept, LaunchKept, StageKept, StoreKept, ScreenKept DEF IInv
<1> QED BY <1>1, InitEstablishes, PTL DEF Spec

(* The files, reports, the preference, the activity, the stores and the view keep    *)
(* their shapes, for any documents, edits, reboots and faults.              *)
THEOREM TypeCorrect == Spec => []TypeOK
BY InvariantHolds, PTL DEF IInv

(* The receiver works for a launch that was recorded, and no launch is      *)
(* recorded on a box where nobody has opened the clock.                     *)
THEOREM NeverHijacks == Spec => []NoHijack
<1>1. IInv => NoHijack
  BY DEF IInv, LaunchInv, NoHijack
<1> QED BY <1>1, InvariantHolds, PTL

(* What status.json says of a clock at rest in front is what it shows,      *)
(* whatever replaced the file and killed the process before.                *)
THEOREM StatusIsTheScreen == Spec => []StatusTellsTheScreen
<1>1. IInv => StatusTellsTheScreen
  BY DEF IInv, StageInv, ScreenInv, StatusTellsTheScreen
<1> QED BY <1>1, InvariantHolds, PTL

-----------------------------------------------------------------------------
LEMMA InitMaps == Init => Good!Init
  BY NewStoreType DEF Init, Good!Init

LEMMA StepMaps == IInv /\ [Next]_vars => [Good!Next]_(Good!vars)
<1> SUFFICES ASSUME IInv, [Next]_vars PROVE [Good!Next]_(Good!vars)
  OBVIOUS
<1> USE DEF Good!Next, Good!vars
<1>0. TypeOK /\ StageInv /\ StoreInv BY DEF IInv
<1>s. ASSUME UNCHANGED <<config, task, store>> PROVE [Good!Next]_(Good!vars)
  BY <1>s
<1>b. ASSUME NEW b \in BOOLEAN, Create(b), task \notin {"paused", "resumed"},
             UNCHANGED config
      PROVE  [Good!Next]_(Good!vars)
  BY <1>0, <1>b, NewStoreType DEF Create, StoreInv, Good!Begin
<1>e. ASSUME task' \in {"none", "saved"}, store' = NewStore, UNCHANGED config
      PROVE  [Good!Next]_(Good!vars)
  BY <1>e, NewStoreType DEF Good!End
<1>1. CASE UNCHANGED vars
  BY <1>1, <1>s DEF vars, files, reports, activity
<1>2. CASE Look
  <2> DEFINE r == Reload(store, stage, config)
  <2>1. CASE reader = "activity"
    <3>1. store \in Stores /\ stage \in ReloadStages /\ config \in Documents \cup {NoFile}
      BY <1>0, <1>2 DEF Look, TypeOK
    <3>2. Refused(store, "invalid").current = store.current
      BY <3>1, RefusedKeepsTypes DEF Reasons
    <3>3. r.store.current = store.current
            \/ (config \in Accepted /\ r.store.current = config)
      BY <3>1, ReloadKeepsTypes
    <3>4. store' \in {r.store, Refused(store, "invalid")}
          /\ config' = config /\ task' = task
      BY <1>2, <2>1 DEF Look, files, reports
    <3>5. task = "resumed"
      BY <1>0, <2>1 DEF StageInv
    <3> HIDE DEF r
    <3>6. CASE store'.current = store.current
      BY <3>4, <3>6
    <3>7. CASE config \in Accepted /\ store'.current = config
      BY <3>4, <3>5, <3>7 DEF Good!Look
    <3> QED BY <3>2, <3>3, <3>4, <3>6, <3>7
  <2>2. CASE reader # "activity"
    BY <1>2, <2>2, <1>s DEF Look, files, reports
  <2> QED BY <2>1, <2>2
<1>3. CASE Apply \/ Publish \/ Flush \/ OnReceive \/ Decide
  BY <1>3, <1>s DEF Apply, Publish, Flush, OnReceive, Decide, files, reports, activity
<1>4. CASE Pause
  BY <1>4 DEF Pause, files, reports
<1>5. CASE Destroy
  BY <1>5, <1>e DEF Destroy, Gone, files, reports
<1>6. CASE Edit
  <2>1. config' \in Documents \cup {NoFile} /\ task' = task /\ store' = store
    BY <1>6 DEF Edit, activity
  <2> QED BY <2>1 DEF Good!Replace
<1>7. CASE Open
  <2>1. CASE task = "paused"
    BY <1>7, <2>1 DEF Open, files, reports, activity
  <2>2. CASE task # "paused"
    <3>1. PICK b \in BOOLEAN : Create(b)
      BY <1>0, <1>7, <2>2 DEF Open, TypeOK
    <3>2. task \notin {"paused", "resumed"} /\ UNCHANGED config
      BY <1>7, <2>2 DEF Open, files, reports
    <3> QED BY <1>b, <3>1, <3>2
  <2> QED BY <2>1, <2>2
<1>8. CASE Launch
  <2>0. UNCHANGED config
    BY <1>8 DEF Launch, files, reports
  <2>1. CASE task # "none" /\ task' = "none" /\ Gone
    BY <1>e, <2>0, <2>1 DEF Gone
  <2>2. CASE task \in {"none", "saved"} /\ (Create(TRUE) \/ Create(fromBoot))
    BY <1>0, <1>b, <2>0, <2>2 DEF TypeOK
  <2>3. CASE task \in {"paused", "resumed"} /\ task' = "resumed" /\ UNCHANGED activity
    BY <2>0, <2>3 DEF activity
  <2> QED BY <1>8, <2>1, <2>2, <2>3 DEF Launch
<1>9. CASE Kill
  BY <1>9, <1>e DEF Kill, ProcessGone, files, reports
<1>10. CASE Reboot
  BY <1>10, <1>e DEF Reboot, ProcessGone, files, reports
<1> QED
  BY <1>1, <1>2, <1>3, <1>4, <1>5, <1>6, <1>7, <1>8, <1>9, <1>10 DEF Next, MainThread

(* The activity keeps the last accepted document: its reload, in three      *)
(* looks at a file that is replaced under them, is a look at one instant.   *)
THEOREM KeepsTheLastGood == Spec => KeepsLastGood
BY InitMaps, StepMaps, InvariantHolds, PTL DEF Spec, KeepsLastGood, Good!Spec
=============================================================================

---------------------------- MODULE AppleTvProofs ----------------------------
(* The tvOS app, for every set of documents and any number of edits, losses *)
(* of power and faults.                                                     *)
EXTENDS AppleTv, ConfigStoreProofs

Players == [mode : Ticks, active : BOOLEAN, engine : Ticks, trouble : BOOLEAN]
Mirrors == [memory : Accepted \cup {NoFile}, disk : Accepted \cup {NoFile}]

(* The engine plays what mode and active ask for, unless it was refused or  *)
(* interrupted, which only an active player can be.                         *)
Sounds(p) ==
    \/ p.active /\ p.engine = p.mode
    \/ ~p.active /\ p.engine = "off" /\ ~p.trouble
    \/ p.active /\ p.engine = "off" /\ p.trouble
-----------------------------------------------------------------------------
(* The parts of the inductive invariant.                                    *)

(* The main thread reloads only for an app that is in front; a resume is    *)
(* what activates.                                                          *)
StageInv ==
    /\ stage = "idle" <=> reader = "none"
    /\ stage # "idle" => app = "front"
    /\ stage = "activate" => reader = "resume"
    /\ stage = "seed" => prefs.memory # NoFile

(* An app that does not run holds nothing, and one in the background is     *)
(* silent and still.                                                        *)
RestInv ==
    /\ app = "none" => store = NewStore
    /\ app # "front" => ~player.active
    /\ app = "back" => ~timer /\ ~view.running
    /\ Sounds(player)

(* From the application of a reload on, screen and mode are those of the    *)
(* store; a reload of the timer finds them running.                         *)
ScreenInv ==
    app = "front" =>
        /\ stage \in {"idle", "activate"} =>
              view.shown = store.current /\ player.mode = TickOf[store.current]
        /\ stage = "idle" \/ reader = "timer" => player.active /\ view.running
        /\ stage \in {"idle", "apply", "activate"} =>
              status = StatusOf(store, FALSE) \/ unwritten

(* A reload that accepted the file undisturbed is past its looks at it, has *)
(* it in force and, past the mirror, in the preferences.                    *)
CourseInv ==
    course = "accepted" =>
        /\ stage \notin ReloadStages \cup {"vanished", "seed"}
        /\ stage \in {"mirror", "publish", "apply"} =>
              store.current = config /\ config \in Accepted
        /\ stage \in {"publish", "apply"} => prefs.memory = config

(* A document to be kept is in the preferences, the file is that document   *)
(* or gone, and an undisturbed reload brings it back and into force.        *)
KeptInv ==
    kept # NoFile =>
        /\ prefs.memory = kept
        /\ config \in {kept, NoFile}
        /\ course # "disturbed" =>
              /\ stage \in ReloadStages => config = kept
              /\ stage \in {"mirror", "publish", "apply", "activate"} => store.current = kept
              /\ app = "front" /\ stage = "idle" => store.current = kept

IInv == TypeOK /\ StageInv /\ RestInv /\ ScreenInv /\ CourseInv /\ KeptInv
-----------------------------------------------------------------------------
LEMMA FaultTypes ==
    ASSUME NEW kind, Fault(kind), faults \subseteq FaultKinds
    PROVE  /\ faults' \subseteq FaultKinds /\ faults \subseteq faults' /\ kind \in faults'
           /\ edits' = edits /\ boots' = boots
  BY AppleAssumption DEF Fault

(* A rebuild keeps mode and active, and leaves an engine that is right.     *)
LEMMA RebuildTypes ==
    ASSUME NEW p \in Players, Rebuild(p), faults \subseteq FaultKinds
    PROVE  /\ player' \in Players /\ Sounds(player')
           /\ player'.mode = p.mode /\ player'.active = p.active
           /\ faults' \subseteq FaultKinds /\ faults \subseteq faults'
           /\ edits' = edits /\ boots' = boots
<1>1. CASE ~p.active \/ p.mode = "off"
  <2>1. Rebuilt(p) = [p EXCEPT !.engine = "off", !.trouble = FALSE]
    BY <1>1 DEF Rebuilt
  <2>2. Rebuilt(p).engine = "off"
    BY <2>1 DEF Players
  <2>3. player' = [p EXCEPT !.engine = "off", !.trouble = FALSE] /\ UNCHANGED bounds
    BY <2>1, <2>2 DEF Rebuild
  <2>4. player' \in Players /\ player'.mode = p.mode /\ player'.active = p.active
        /\ player'.engine = "off" /\ ~player'.trouble
    BY <2>3 DEF Players, Ticks
  <2>5. Sounds(player')
    BY <1>1, <2>4 DEF Sounds
  <2> QED BY <2>3, <2>4, <2>5 DEF bounds
<1>2. CASE p.active /\ p.mode # "off"
  <2>1. Rebuilt(p) = [p EXCEPT !.engine = p.mode, !.trouble = FALSE]
    BY <1>2 DEF Rebuilt
  <2>2. CASE player' = Rebuilt(p) /\ UNCHANGED bounds
    <3>1. player' \in Players /\ player'.mode = p.mode /\ player'.active = p.active
          /\ player'.engine = p.mode
      BY <2>1, <2>2 DEF Players
    <3> QED BY <1>2, <2>2, <3>1 DEF Sounds, bounds
  <2>3. CASE Fault("audio") /\ player' = [p EXCEPT !.engine = "off", !.trouble = TRUE]
    <3>1. player' \in Players /\ player'.mode = p.mode /\ player'.active = p.active
          /\ player'.engine = "off" /\ player'.trouble = TRUE
      BY <2>3 DEF Players, Ticks
    <3> QED BY <1>2, <2>3, <3>1, FaultTypes DEF Sounds
  <2> QED BY <2>2, <2>3 DEF Rebuild
<1> QED BY <1>1, <1>2

LEMMA SetModeTypes ==
    ASSUME NEW mode \in Ticks, SetMode(mode), player \in Players, Sounds(player),
           faults \subseteq FaultKinds
    PROVE  /\ player' \in Players /\ Sounds(player')
           /\ player'.mode = mode /\ player'.active = player.active
           /\ faults' \subseteq FaultKinds /\ faults \subseteq faults'
           /\ edits' = edits /\ boots' = boots
<1>1. CASE mode = player.mode
  BY <1>1 DEF SetMode, Sounds, bounds
<1>2. CASE mode # player.mode
  <2> DEFINE p == [player EXCEPT !.mode = mode]
  <2>1. p \in Players /\ p.mode = mode /\ p.active = player.active
    BY DEF Players
  <2>2. Rebuild(p)
    BY <1>2 DEF SetMode
  <2> HIDE DEF p
  <2> QED BY <2>1, <2>2, RebuildTypes
<1> QED BY <1>1, <1>2

LEMMA SetActiveTypes ==
    ASSUME NEW active \in BOOLEAN, SetActive(active), player \in Players, Sounds(player),
           faults \subseteq FaultKinds
    PROVE  /\ player' \in Players /\ Sounds(player')
           /\ player'.mode = player.mode /\ player'.active = active
           /\ faults' \subseteq FaultKinds /\ faults \subseteq faults'
           /\ edits' = edits /\ boots' = boots
<1>1. CASE active = player.active
  BY <1>1 DEF SetActive, Sounds, bounds
<1>2. CASE active # player.active
  <2> DEFINE p == [player EXCEPT !.active = active]
  <2>1. p \in Players /\ p.mode = player.mode /\ p.active = active
    BY DEF Players
  <2>2. Rebuild(p)
    BY <1>2 DEF SetActive
  <2> HIDE DEF p
  <2> QED BY <2>1, <2>2, RebuildTypes
<1> QED BY <1>1, <1>2
-----------------------------------------------------------------------------
(* The initial states.                                                      *)
LEMMA InitEstablishes == Init => IInv
<1> SUFFICES ASSUME Init PROVE IInv
  OBVIOUS
<1>1. edits \in 0..MaxEdits /\ boots \in 0..MaxBoots
  BY AppleAssumption DEF Init
<1>2. player \in Players /\ ~player.active /\ player.engine = "off"
      /\ ~player.trouble
  BY DEF Init, NewPlayer, Players, Ticks
<1>3. view \in [shown : Accepted \cup {Defaults}, running : BOOLEAN]
  BY DEF Init, Blank
<1>4. prefs \in Mirrors
  BY DEF Init, Mirrors
<1>5. TypeOK
  BY <1>1, <1>2, <1>3, <1>4, NewStoreType
     DEF Init, TypeOK, Players, Mirrors, Courses
<1> QED
  BY <1>2, <1>5
     DEF Init, IInv, StageInv, RestInv, ScreenInv, CourseInv, KeptInv, Sounds

(* What the invariant says of the types, in the names of this module.       *)
LEMMA Shapes ==
    ASSUME TypeOK
    PROVE  /\ player \in Players /\ prefs \in Mirrors
           /\ prefs.memory \in Accepted \cup {NoFile}
           /\ prefs.disk \in Accepted \cup {NoFile}
           /\ view \in [shown : Accepted \cup {Defaults}, running : BOOLEAN]
           /\ store.current \in Accepted \cup {Defaults}
           /\ NoFile \notin Accepted /\ Accepted \subseteq Documents
           /\ faults \subseteq FaultKinds
  BY DocumentsAssumption DEF TypeOK, Players, Mirrors, Stores, Documents

(* Each operation keeps the invariant: the reload.                          *)
LEMMA LookForFileKeeps == IInv /\ LookForFile => IInv'
<1> SUFFICES ASSUME IInv, LookForFile PROVE IInv'
  OBVIOUS
<1>1. TypeOK /\ StageInv /\ RestInv /\ ScreenInv /\ CourseInv /\ KeptInv
  BY DEF IInv
<1>2. /\ stage = "vanished" /\ stage' \in {"seed", "isfile"}
      /\ stage' = "seed" => prefs.memory # NoFile
      /\ stage' = "isfile" => config # NoFile \/ prefs.memory = NoFile
      /\ UNCHANGED <<config, status, unwritten, prefs, app, reader, timer, store, view, player,
                     edits, boots, faults, course, kept>>
  BY DEF LookForFile, files, reports, screen, bounds, ghosts
<1>3. TypeOK'
  BY <1>1, <1>2 DEF TypeOK, ReloadStages
<1>4. StageInv' /\ RestInv' /\ ScreenInv' /\ CourseInv'
  BY <1>1, <1>2 DEF StageInv, RestInv, ScreenInv, CourseInv
<1>5. KeptInv'
  BY <1>1, <1>2 DEF KeptInv, ReloadStages
<1> QED BY <1>3, <1>4, <1>5 DEF IInv

LEMMA SeedKeeps == IInv /\ Seed => IInv'
<1> SUFFICES ASSUME IInv, Seed PROVE IInv'
  OBVIOUS
<1>1. TypeOK /\ StageInv /\ RestInv /\ ScreenInv /\ CourseInv /\ KeptInv
  BY DEF IInv
<1>2. /\ stage = "seed" /\ stage' = "isfile" /\ kept' = kept
      /\ UNCHANGED <<status, unwritten, prefs, app, reader, timer, store, view, player>>
      /\ \/ config' = prefs.memory /\ UNCHANGED <<edits, boots, faults, course>>
         \/ Fault("write") /\ course' = "disturbed" /\ config' = config
  BY DEF Seed, reports, screen, bounds, ghosts, Disturbed
<1>3. faults' \subseteq FaultKinds /\ faults \subseteq faults'
      /\ edits' = edits /\ boots' = boots
  BY <1>1, <1>2, Shapes, FaultTypes
<1>4. config' \in Documents \cup {NoFile}
  BY <1>1, <1>2, Shapes DEF TypeOK
<1>5. TypeOK'
  BY <1>1, <1>2, <1>3, <1>4 DEF TypeOK, ReloadStages, Courses
<1>6. StageInv' /\ RestInv' /\ CourseInv'
  BY <1>1, <1>2 DEF StageInv, RestInv, CourseInv
<1>7. ScreenInv'
  BY <1>1, <1>2, <1>3 DEF StageInv, ScreenInv
<1>8. KeptInv'
  BY <1>1, <1>2 DEF KeptInv, ReloadStages
<1> QED BY <1>5, <1>6, <1>7, <1>8 DEF IInv

LEMMA LookKeeps == IInv /\ Look => IInv'
<1> SUFFICES ASSUME IInv, Look PROVE IInv'
  OBVIOUS
<1>1. TypeOK /\ StageInv /\ RestInv /\ ScreenInv /\ CourseInv /\ KeptInv
  BY DEF IInv
<1> DEFINE r == Reload(store, stage, config)
<1>2. /\ r.store \in Stores /\ r.next \in ReloadStages \cup {"done"}
      /\ Refused(store, "invalid") \in Stores
  BY <1>1, ReloadKeepsTypes, RefusedKeepsTypes DEF Look, TypeOK, Reasons
<1>3. config \in Accepted =>
        /\ stage = "isfile" => r.next = "size"
        /\ stage = "size" => r.next = "read"
        /\ stage = "read" => r.next = "done" /\ r.store.current = config
  BY <1>1, Shapes, DocumentsAssumption DEF Reload, Parsed, ReloadStages
<1>4. /\ stage \in ReloadStages /\ stage' \in ReloadStages \cup {"mirror"}
      /\ kept' = kept
      /\ UNCHANGED <<config, status, unwritten, prefs, app, reader, timer, view, player>>
      /\ \/ /\ store' = r.store
            /\ stage' = IF r.next = "done" THEN "mirror" ELSE r.next
            /\ course' = IF stage = "read" /\ config \in Accepted /\ course # "disturbed"
                         THEN "accepted" ELSE course
            /\ UNCHANGED <<edits, boots, faults>>
         \/ /\ Fault("read") /\ course' = "disturbed"
            /\ store' = Refused(store, "invalid") /\ stage' = "mirror"
  BY <1>2 DEF Look, files, reports, bounds, Disturbed
<1> HIDE DEF r
<1>5. /\ faults' \subseteq FaultKinds /\ faults \subseteq faults'
      /\ edits' = edits /\ boots' = boots
  BY <1>1, <1>4, Shapes, FaultTypes
<1>6. TypeOK'
  BY <1>1, <1>2, <1>4, <1>5 DEF TypeOK, ReloadStages, Courses
<1>7. StageInv' /\ RestInv'
  BY <1>1, <1>4 DEF StageInv, RestInv, ReloadStages
<1>8. ScreenInv'
  BY <1>1, <1>4 DEF StageInv, ScreenInv, ReloadStages
<1>9. CourseInv'
  <2> SUFFICES ASSUME course' = "accepted"
               PROVE  /\ stage' = "mirror"
                      /\ store'.current = config' /\ config' \in Accepted
    BY DEF CourseInv, ReloadStages
  <2>1. course # "accepted"
    BY <1>1, <1>4 DEF CourseInv
  <2> QED BY <1>3, <1>4, <2>1 DEF ReloadStages
<1>10. KeptInv'
  <2> SUFFICES ASSUME kept # NoFile, course' # "disturbed"
               PROVE  /\ stage' \in ReloadStages => config = kept
                      /\ stage' = "mirror" => store'.current = kept
    BY <1>1, <1>4 DEF KeptInv, ReloadStages
  <2>1. config = kept /\ config \in Accepted
    BY <1>1, <1>4 DEF KeptInv, TypeOK
  <2> QED BY <1>3, <1>4, <2>1 DEF ReloadStages
<1> QED BY <1>6, <1>7, <1>8, <1>9, <1>10 DEF IInv

LEMMA MirrorKeeps == IInv /\ Mirror => IInv'
<1> SUFFICES ASSUME IInv, Mirror PROVE IInv'
  OBVIOUS
<1>1. TypeOK /\ StageInv /\ RestInv /\ ScreenInv /\ CourseInv /\ KeptInv
  BY DEF IInv
<1>2. /\ stage = "mirror" /\ stage' = "publish" /\ kept' = kept
      /\ UNCHANGED <<config, status, unwritten, app, reader, timer, store, view, player>>
      /\ \/ /\ prefs' = [prefs EXCEPT !.memory =
                            IF config \in Accepted THEN config ELSE prefs.memory]
            /\ UNCHANGED <<edits, boots, faults, course>>
         \/ Fault("read") /\ course' = "disturbed" /\ prefs' = prefs
  BY DEF Mirror, files, reports, screen, bounds, ghosts, Disturbed
<1>3. faults' \subseteq FaultKinds /\ faults \subseteq faults'
      /\ edits' = edits /\ boots' = boots
  BY <1>1, <1>2, Shapes, FaultTypes
<1>4. /\ prefs' \in Mirrors
      /\ course' # "disturbed" =>
            /\ course' = course
            /\ prefs'.memory = IF config \in Accepted THEN config ELSE prefs.memory
      /\ course' = "disturbed" => prefs'.memory \in {config, prefs.memory}
      /\ prefs'.memory # prefs.memory => config \in Accepted /\ prefs'.memory = config
  BY <1>1, <1>2, Shapes DEF Mirrors
<1>5. TypeOK'
  BY <1>1, <1>2, <1>3, <1>4 DEF TypeOK, Courses, Mirrors
<1>6. StageInv' /\ RestInv'
  BY <1>1, <1>2 DEF StageInv, RestInv
<1>7. ScreenInv'
  BY <1>1, <1>2 DEF StageInv, ScreenInv
<1>8. CourseInv'
  BY <1>1, <1>2, <1>4 DEF CourseInv, ReloadStages
<1>9. KeptInv'
  <2> SUFFICES ASSUME kept # NoFile PROVE KeptInv'
    BY <1>2 DEF KeptInv
  <2>1. prefs.memory = kept /\ config \in {kept, NoFile} /\ NoFile \notin Accepted
    BY <1>1, Shapes DEF KeptInv
  <2>2. prefs'.memory = kept
    BY <1>4, <2>1
  <2> QED BY <1>1, <1>2, <1>4, <2>1, <2>2 DEF KeptInv, ReloadStages
<1> QED BY <1>5, <1>6, <1>7, <1>8, <1>9 DEF IInv

LEMMA PublishKeeps == IInv /\ Publish => IInv'
<1> SUFFICES ASSUME IInv, Publish PROVE IInv'
  OBVIOUS
<1>1. TypeOK /\ StageInv /\ RestInv /\ ScreenInv /\ CourseInv /\ KeptInv
  BY DEF IInv
<1>2. /\ stage = "publish" /\ stage' = "apply"
      /\ UNCHANGED <<config, prefs, app, reader, timer, store, view, player, course, kept>>
      /\ \/ /\ status' = StatusOf(store, FALSE) /\ unwritten' = FALSE
            /\ UNCHANGED <<edits, boots, faults>>
         \/ Fault("write") /\ unwritten' = TRUE /\ status' = status
  BY DEF Publish, screen, bounds, ghosts
<1>3. /\ faults' \subseteq FaultKinds /\ faults \subseteq faults'
      /\ edits' = edits /\ boots' = boots
      /\ status' = StatusOf(store, FALSE) \/ (status' = status /\ unwritten')
      /\ unwritten' \in BOOLEAN
  BY <1>1, <1>2, Shapes, FaultTypes
<1>4. status' \in StatusFiles \cup {NoFile}
  <2>1. StatusOf(store, FALSE) \in StatusFiles
    BY <1>1, StatusType DEF TypeOK
  <2>2. status \in StatusFiles \cup {NoFile}
    BY <1>1 DEF TypeOK
  <2> QED BY <1>3, <2>1, <2>2
<1>5. TypeOK'
  <2>1. UNCHANGED <<config, prefs, app, reader, timer, store, view, player, course,
                    kept, edits, boots>>
    BY <1>2, <1>3
  <2> QED BY <1>1, <1>2, <1>3, <1>4, <2>1 DEF TypeOK
<1>6. StageInv' /\ RestInv'
  BY <1>1, <1>2 DEF StageInv, RestInv
<1>7. ScreenInv'
  BY <1>1, <1>2, <1>3 DEF ScreenInv
<1>8. CourseInv' /\ KeptInv'
  BY <1>1, <1>2 DEF CourseInv, KeptInv, ReloadStages
<1> QED BY <1>5, <1>6, <1>7, <1>8 DEF IInv

LEMMA ApplyKeeps == IInv /\ Apply => IInv'
<1> SUFFICES ASSUME IInv, Apply PROVE IInv'
  OBVIOUS
<1>1. TypeOK /\ StageInv /\ RestInv /\ ScreenInv /\ CourseInv /\ KeptInv
  BY DEF IInv
<1>2. /\ stage = "apply" /\ view' = [view EXCEPT !.shown = store.current]
      /\ kept' = IF course = "accepted" /\ kept = NoFile THEN store.current ELSE kept
      /\ stage' = IF reader = "resume" THEN "activate" ELSE "idle"
      /\ reader' = IF reader = "resume" THEN reader ELSE "none"
      /\ UNCHANGED <<config, status, unwritten, prefs, app, timer, store, course>>
      /\ SetMode(TickOf[store.current])
  BY DEF Apply, Applied, files, reports
<1>3. TickOf[store.current] \in Ticks /\ Sounds(player)
  BY <1>1, Shapes, AppleAssumption DEF RestInv
<1>4. /\ player' \in Players /\ Sounds(player')
      /\ player'.mode = TickOf[store.current] /\ player'.active = player.active
      /\ faults' \subseteq FaultKinds /\ faults \subseteq faults'
      /\ edits' = edits /\ boots' = boots
  BY <1>1, <1>2, <1>3, Shapes, SetModeTypes
<1>5. /\ view' \in [shown : Accepted \cup {Defaults}, running : BOOLEAN]
      /\ view'.shown = store.current /\ view'.running = view.running
  BY <1>1, <1>2, Shapes
<1>6. kept' \in Accepted \cup {NoFile}
  BY <1>1, <1>2 DEF TypeOK, CourseInv
<1>7. TypeOK'
  BY <1>1, <1>2, <1>4, <1>5, <1>6 DEF TypeOK, Players
<1>8. StageInv' /\ CourseInv'
  BY <1>1, <1>2 DEF StageInv, CourseInv, ReloadStages, TypeOK
<1>9. RestInv'
  BY <1>1, <1>2, <1>4, <1>5 DEF StageInv, RestInv
<1>10. ScreenInv'
  <2>1. app = "front" /\ (reader = "timer" => player.active /\ view.running)
    BY <1>1, <1>2 DEF StageInv, ScreenInv
  <2>2. reader = "resume" \/ reader = "timer"
    BY <1>1, <1>2 DEF StageInv, TypeOK
  <2> QED BY <1>1, <1>2, <1>4, <1>5, <2>1, <2>2 DEF ScreenInv
<1>11. KeptInv'
  <2>1. CASE kept' = kept
    BY <1>1, <1>2, <2>1 DEF KeptInv, ReloadStages
  <2>2. CASE kept' # kept
    BY <1>1, <1>2, <2>2 DEF KeptInv, CourseInv, ReloadStages
  <2> QED BY <2>1, <2>2
<1> QED BY <1>7, <1>8, <1>9, <1>10, <1>11 DEF IInv

LEMMA ActivateKeeps == IInv /\ Activate => IInv'
<1> SUFFICES ASSUME IInv, Activate PROVE IInv'
  OBVIOUS
<1>1. TypeOK /\ StageInv /\ RestInv /\ ScreenInv /\ CourseInv /\ KeptInv
  BY DEF IInv
<1>2. /\ stage = "activate" /\ stage' = "idle" /\ reader' = "none" /\ timer' = TRUE
      /\ view' = [view EXCEPT !.running = TRUE]
      /\ UNCHANGED <<config, status, unwritten, prefs, app, store, course, kept>>
      /\ SetActive(TRUE)
  BY DEF Activate, files, reports, ghosts
<1>3. Sounds(player) /\ app = "front"
  BY <1>1, <1>2 DEF RestInv, StageInv
<1>4. /\ player' \in Players /\ Sounds(player')
      /\ player'.mode = player.mode /\ player'.active
      /\ faults' \subseteq FaultKinds /\ faults \subseteq faults'
      /\ edits' = edits /\ boots' = boots
  <2>1. player'.active = TRUE
    BY <1>1, <1>2, <1>3, Shapes, SetActiveTypes
  <2> QED BY <1>1, <1>2, <1>3, <2>1, Shapes, SetActiveTypes
<1>5. /\ view' \in [shown : Accepted \cup {Defaults}, running : BOOLEAN]
      /\ view'.shown = view.shown /\ view'.running
  <2>1. view'.running = TRUE
    BY <1>1, <1>2, Shapes
  <2> QED BY <1>1, <1>2, <2>1, Shapes
<1>6. TypeOK'
  BY <1>1, <1>2, <1>4, <1>5 DEF TypeOK, Players
<1>7. StageInv' /\ CourseInv' /\ KeptInv'
  BY <1>1, <1>2 DEF StageInv, CourseInv, KeptInv, ReloadStages
<1>8. RestInv'
  BY <1>1, <1>2, <1>3, <1>4 DEF RestInv
<1>9. ScreenInv'
  BY <1>1, <1>2, <1>3, <1>4, <1>5 DEF ScreenInv
<1> QED BY <1>6, <1>7, <1>8, <1>9 DEF IInv
(* The timer, the view controller and the audio notifications.              *)
LEMMA TimerFiresKeeps == IInv /\ TimerFires => IInv'
<1> SUFFICES ASSUME IInv, TimerFires PROVE IInv'
  OBVIOUS
<1>1. TypeOK /\ StageInv /\ RestInv /\ ScreenInv /\ CourseInv /\ KeptInv
  BY DEF IInv
<1>2. /\ app = "front" /\ stage = "idle"
      /\ stage' = "vanished" /\ reader' = "timer" /\ course' = "undisturbed"
      /\ UNCHANGED <<config, status, unwritten, prefs, app, timer, store, view, player,
                     edits, boots, faults, kept>>
  BY DEF TimerFires, BeginReload, files, reports, screen, bounds
<1>3. TypeOK'
  BY <1>1, <1>2 DEF TypeOK, Courses
<1>4. StageInv' /\ RestInv' /\ ScreenInv'
  BY <1>1, <1>2 DEF StageInv, RestInv, ScreenInv
<1>5. CourseInv' /\ KeptInv'
  BY <1>1, <1>2 DEF CourseInv, KeptInv, ReloadStages
<1> QED BY <1>3, <1>4, <1>5 DEF IInv

LEMMA ResumeKeeps == IInv /\ Resume => IInv'
<1> SUFFICES ASSUME IInv, Resume PROVE IInv'
  OBVIOUS
<1>1. TypeOK /\ StageInv /\ RestInv /\ ScreenInv /\ CourseInv /\ KeptInv
  BY DEF IInv
<1>2. /\ stage = "idle" /\ app' = "front"
      /\ stage' = "vanished" /\ reader' = "resume" /\ course' = "undisturbed"
      /\ UNCHANGED <<config, status, unwritten, prefs, timer, store, view, player,
                     edits, boots, faults, kept>>
  BY DEF Resume, BeginReload, files, reports, screen, bounds
<1>3. TypeOK'
  BY <1>1, <1>2 DEF TypeOK, Courses
<1>4. StageInv' /\ RestInv' /\ ScreenInv'
  BY <1>1, <1>2 DEF StageInv, RestInv, ScreenInv
<1>5. CourseInv' /\ KeptInv'
  BY <1>1, <1>2 DEF CourseInv, KeptInv, ReloadStages
<1> QED BY <1>3, <1>4, <1>5 DEF IInv

LEMMA PauseKeeps == IInv /\ Pause => IInv'
<1> SUFFICES ASSUME IInv, Pause PROVE IInv'
  OBVIOUS
<1>1. TypeOK /\ StageInv /\ RestInv /\ ScreenInv /\ CourseInv /\ KeptInv
  BY DEF IInv
<1>2. /\ stage = "idle" /\ app' = "back" /\ timer' = FALSE
      /\ view' = [view EXCEPT !.running = FALSE]
      /\ SetActive(FALSE)
      /\ UNCHANGED <<config, status, unwritten, prefs, stage, reader, store, course, kept>>
  BY DEF Pause, files, reports, ghosts
<1>3. Sounds(player)
  BY <1>1 DEF RestInv
<1>4. /\ player' \in Players /\ Sounds(player') /\ ~player'.active
      /\ faults' \subseteq FaultKinds
      /\ edits' = edits /\ boots' = boots
  <2>1. player'.active = FALSE
    BY <1>1, <1>2, <1>3, Shapes, SetActiveTypes
  <2> QED BY <1>1, <1>2, <1>3, <2>1, Shapes, SetActiveTypes
<1>5. /\ view' \in [shown : Accepted \cup {Defaults}, running : BOOLEAN]
      /\ ~view'.running
  <2>1. view'.running = FALSE
    BY <1>1, <1>2, Shapes
  <2> QED BY <1>1, <1>2, <2>1, Shapes
<1>6. TypeOK'
  BY <1>1, <1>2, <1>4, <1>5 DEF TypeOK, Players
<1>7. StageInv' /\ CourseInv' /\ KeptInv'
  BY <1>1, <1>2 DEF StageInv, CourseInv, KeptInv, ReloadStages
<1>8. RestInv' /\ ScreenInv'
  BY <1>2, <1>4, <1>5 DEF RestInv, ScreenInv
<1> QED BY <1>6, <1>7, <1>8 DEF IInv

LEMMA InterruptedKeeps == IInv /\ Interrupted => IInv'
<1> SUFFICES ASSUME IInv, Interrupted PROVE IInv'
  OBVIOUS
<1>1. TypeOK /\ StageInv /\ RestInv /\ ScreenInv /\ CourseInv /\ KeptInv
  BY DEF IInv
<1>2. /\ player' = [player EXCEPT !.engine = "off", !.trouble = TRUE]
      /\ Fault("interruption")
      /\ UNCHANGED <<config, status, unwritten, prefs, app, stage, reader, timer, store, view,
                     course, kept>>
  BY DEF Interrupted, files, reports, screen, ghosts
<1>3. faults' \subseteq FaultKinds /\ faults \subseteq faults'
      /\ edits' = edits /\ boots' = boots
  BY <1>1, <1>2, Shapes, FaultTypes
<1>4. /\ player' \in Players
      /\ player'.mode = player.mode /\ player'.active = player.active
      /\ player'.engine = "off" /\ player'.trouble = TRUE
  BY <1>1, <1>2, Shapes DEF Players, Ticks
<1>5. TypeOK'
  BY <1>1, <1>2, <1>3, <1>4 DEF TypeOK, Players
<1>6. StageInv' /\ RestInv'
  <2>1. player.active
    BY <1>1 DEF Interrupted, RestInv, Sounds
  <2>2. Sounds(player')
    BY <1>4, <2>1 DEF Sounds
  <2> QED BY <1>1, <1>2, <1>4, <2>2 DEF StageInv, RestInv
<1>7. ScreenInv'
  BY <1>1, <1>2, <1>3, <1>4 DEF ScreenInv
<1>8. CourseInv' /\ KeptInv'
  BY <1>1, <1>2 DEF CourseInv, KeptInv, ReloadStages
<1> QED BY <1>5, <1>6, <1>7, <1>8 DEF IInv

LEMMA NotifiedKeeps == IInv /\ Notified => IInv'
<1> SUFFICES ASSUME IInv, Notified PROVE IInv'
  OBVIOUS
<1>1. TypeOK /\ StageInv /\ RestInv /\ ScreenInv /\ CourseInv /\ KeptInv
  BY DEF IInv
<1>2. /\ Rebuild(player)
      /\ UNCHANGED <<config, status, unwritten, prefs, app, stage, reader, timer, store, view,
                     course, kept>>
  BY DEF Notified, files, reports, screen, ghosts
<1>3. /\ player' \in Players /\ Sounds(player')
      /\ player'.mode = player.mode /\ player'.active = player.active
      /\ faults' \subseteq FaultKinds /\ faults \subseteq faults'
      /\ edits' = edits /\ boots' = boots
  BY <1>1, <1>2, Shapes, RebuildTypes
<1>4. TypeOK'
  BY <1>1, <1>2, <1>3 DEF TypeOK, Players
<1>5. StageInv' /\ RestInv'
  BY <1>1, <1>2, <1>3 DEF StageInv, RestInv
<1>6. ScreenInv'
  BY <1>1, <1>2, <1>3 DEF ScreenInv
<1>7. CourseInv' /\ KeptInv'
  BY <1>1, <1>2 DEF CourseInv, KeptInv, ReloadStages
<1> QED BY <1>4, <1>5, <1>6, <1>7 DEF IInv

(* The environment.                                                         *)
LEMMA FlushKeeps == IInv /\ Flush => IInv'
<1> SUFFICES ASSUME IInv, Flush PROVE IInv'
  OBVIOUS
<1>1. TypeOK /\ StageInv /\ RestInv /\ ScreenInv /\ CourseInv /\ KeptInv
  BY DEF IInv
<1>2. /\ prefs' = [prefs EXCEPT !.disk = prefs.memory]
      /\ UNCHANGED <<config, status, unwritten, app, stage, reader, timer, store, view, player,
                     edits, boots, faults, course, kept>>
  BY DEF Flush, files, reports, screen, bounds, ghosts
<1>3. prefs' \in Mirrors /\ prefs'.memory = prefs.memory
  BY <1>1, <1>2, Shapes DEF Mirrors
<1>4. TypeOK'
  BY <1>1, <1>2, <1>3 DEF TypeOK, Mirrors
<1>5. StageInv' /\ RestInv' /\ ScreenInv' /\ CourseInv' /\ KeptInv'
  BY <1>1, <1>2, <1>3 DEF StageInv, RestInv, ScreenInv, CourseInv, KeptInv
<1> QED BY <1>4, <1>5 DEF IInv

LEMMA EditKeeps == IInv /\ Edit => IInv'
<1> SUFFICES ASSUME IInv, Edit PROVE IInv'
  OBVIOUS
<1>1. TypeOK /\ StageInv /\ RestInv /\ ScreenInv /\ CourseInv /\ KeptInv
  BY DEF IInv
<1>2. /\ config' \in Documents \cup {NoFile}
      /\ course' = "disturbed" /\ kept' = NoFile
      /\ UNCHANGED <<status, unwritten, prefs, app, stage, reader, timer, store, view, player,
                     boots, faults>>
  BY DEF Edit, reports, screen, Disturbed
<1>3. edits' \in 0..MaxEdits
  BY <1>1, AppleAssumption DEF Edit, TypeOK
<1>4. TypeOK'
  BY <1>1, <1>2, <1>3 DEF TypeOK, Courses
<1>5. StageInv' /\ RestInv' /\ ScreenInv' /\ CourseInv' /\ KeptInv'
  BY <1>1, <1>2 DEF StageInv, RestInv, ScreenInv, CourseInv, KeptInv
<1> QED BY <1>4, <1>5 DEF IInv

LEMMA PurgeKeeps == IInv /\ Purge => IInv'
<1> SUFFICES ASSUME IInv, Purge PROVE IInv'
  OBVIOUS
<1>1. TypeOK /\ StageInv /\ RestInv /\ ScreenInv /\ CourseInv /\ KeptInv
  BY DEF IInv
<1>2. /\ app # "front"
      /\ config' \in {config, NoFile} /\ status' \in {status, NoFile}
      /\ UNCHANGED <<unwritten, prefs, app, stage, reader, timer, store, view, player,
                     edits, boots, faults, course, kept>>
  BY DEF Purge, screen, bounds, ghosts
<1>3. stage = "idle"
  BY <1>1, <1>2 DEF StageInv
<1>4. TypeOK'
  BY <1>1, <1>2 DEF TypeOK
<1>5. StageInv' /\ RestInv' /\ ScreenInv'
  BY <1>1, <1>2 DEF StageInv, RestInv, ScreenInv
<1>6. CourseInv' /\ KeptInv'
  BY <1>1, <1>2, <1>3 DEF CourseInv, KeptInv, ReloadStages
<1> QED BY <1>4, <1>5, <1>6 DEF IInv

(* Whatever ends the process leaves a new store, view and player.           *)
LEMMA ProcessGoneKeeps ==
    ASSUME IInv, ProcessGone,
           prefs' \in Mirrors, kept' \in Accepted \cup {NoFile},
           kept' # NoFile => kept' = kept /\ prefs'.memory = kept,
           edits' \in 0..MaxEdits, boots' \in 0..MaxBoots, faults' \subseteq FaultKinds
    PROVE  IInv'
<1>1. TypeOK /\ KeptInv
  BY DEF IInv
<1>2. /\ app' = "none" /\ stage' = "idle" /\ reader' = "none" /\ timer' = FALSE
      /\ store' = NewStore /\ course' = "disturbed"
      /\ UNCHANGED <<config, status, unwritten>>
  BY DEF ProcessGone, files, reports, Disturbed
<1>3. player' \in Players /\ ~player'.active /\ player'.engine = "off"
      /\ ~player'.trouble
  BY DEF ProcessGone, NewPlayer, Players, Ticks
<1>4. view' \in [shown : Accepted \cup {Defaults}, running : BOOLEAN]
  BY DEF ProcessGone, Blank
<1>5. TypeOK'
  BY <1>1, <1>2, <1>3, <1>4, NewStoreType DEF TypeOK, Players, Mirrors, Courses
<1>6. StageInv' /\ RestInv' /\ ScreenInv' /\ CourseInv'
  BY <1>2, <1>3 DEF StageInv, RestInv, ScreenInv, CourseInv, Sounds
<1>7. KeptInv'
  BY <1>1, <1>2 DEF KeptInv
<1> QED BY <1>5, <1>6, <1>7 DEF IInv

LEMMA KillKeeps == IInv /\ Kill => IInv'
<1> SUFFICES ASSUME IInv, Kill PROVE IInv'
  OBVIOUS
<1>1. TypeOK /\ KeptInv
  BY DEF IInv
<1>2. ProcessGone /\ prefs' = prefs /\ kept' = kept /\ Fault("kill")
  BY DEF Kill
<1>3. faults' \subseteq FaultKinds /\ edits' = edits /\ boots' = boots
  BY <1>1, <1>2, Shapes, FaultTypes
<1>4. /\ prefs' \in Mirrors /\ kept' \in Accepted \cup {NoFile}
      /\ edits' \in 0..MaxEdits /\ boots' \in 0..MaxBoots
  BY <1>1, <1>2, <1>3, Shapes DEF TypeOK
<1>5. kept' # NoFile => kept' = kept /\ prefs'.memory = kept
  BY <1>1, <1>2 DEF KeptInv
<1> QED BY <1>2, <1>3, <1>4, <1>5, ProcessGoneKeeps

LEMMA PowerLossKeeps == IInv /\ PowerLoss => IInv'
<1> SUFFICES ASSUME IInv, PowerLoss PROVE IInv'
  OBVIOUS
<1>1. TypeOK /\ KeptInv
  BY DEF IInv
<1>2. /\ ProcessGone /\ prefs' = [prefs EXCEPT !.memory = prefs.disk]
      /\ kept' = IF prefs.memory = prefs.disk THEN kept ELSE NoFile
      /\ UNCHANGED <<edits, faults>>
  BY DEF PowerLoss
<1>3. boots' \in 0..MaxBoots
  BY <1>1, AppleAssumption DEF PowerLoss, TypeOK
<1>4. prefs' \in Mirrors /\ prefs'.memory = prefs.disk
  BY <1>1, <1>2, Shapes DEF Mirrors
<1>5. /\ kept' \in Accepted \cup {NoFile}
      /\ edits' \in 0..MaxEdits /\ faults' \subseteq FaultKinds
  BY <1>1, <1>2 DEF TypeOK
<1>6. kept' # NoFile => kept' = kept /\ prefs'.memory = kept
  BY <1>1, <1>2, <1>4 DEF KeptInv
<1> QED BY <1>2, <1>3, <1>4, <1>5, <1>6, ProcessGoneKeeps

LEMMA InvariantKept == IInv /\ [Next]_vars => IInv'
<1>1. ASSUME IInv, UNCHANGED vars PROVE IInv'
  <2>1. TypeOK /\ StageInv /\ RestInv /\ ScreenInv /\ CourseInv /\ KeptInv
    BY <1>1 DEF IInv
  <2>2. UNCHANGED <<config, status, unwritten, prefs, app, stage, reader, timer, store, view,
                    player, edits, boots, faults, course, kept>>
    BY <1>1 DEF vars, files, reports, screen, bounds, ghosts
  <2>3. TypeOK'
    BY <2>1, <2>2 DEF TypeOK
  <2>4. StageInv' /\ RestInv' /\ ScreenInv'
    BY <2>1, <2>2 DEF StageInv, RestInv, ScreenInv
  <2>5. CourseInv' /\ KeptInv'
    BY <2>1, <2>2 DEF CourseInv, KeptInv
  <2> QED BY <2>3, <2>4, <2>5 DEF IInv
<1> QED
  BY <1>1, LookForFileKeeps, SeedKeeps, LookKeeps, MirrorKeeps, PublishKeeps,
     ApplyKeeps, ActivateKeeps, TimerFiresKeeps, ResumeKeeps, PauseKeeps,
     InterruptedKeeps, NotifiedKeeps, FlushKeeps, EditKeeps, PurgeKeeps, KillKeeps,
     PowerLossKeeps
     DEF Next, MainThread

LEMMA InvariantHolds == Spec => []IInv
BY InitEstablishes, InvariantKept, PTL DEF Spec
-----------------------------------------------------------------------------
(* The two files, reports, the mirror and the parts of the app keep their shapes;    *)
(* the mirror never holds a document that the store would reject.           *)
THEOREM TypeCorrect == Spec => []TypeOK
BY InvariantHolds, PTL DEF IInv

(* The last document that a reload accepted is in force after every later   *)
(* reload, whatever is purged, killed or lost, until the operator changes   *)
(* the file or the reload fails: mirror and seed restore exactly it.        *)
THEOREM LastKnownGoodSurvives == Spec => []NeverLost
<1>1. IInv => NeverLost
  BY DEF IInv, KeptInv, ScreenInv, NeverLost
<1> QED BY <1>1, InvariantHolds, PTL

(* An app at rest in front shows, reports and plays its configuration; in   *)
(* the background it is silent and still.                                   *)
THEOREM ScreenStatusAndSoundAgree == Spec => []RestAgrees
<1>1. IInv => RestAgrees
  <2> SUFFICES ASSUME IInv PROVE RestAgrees
    OBVIOUS
  <2>1. TypeOK /\ RestInv /\ ScreenInv
    BY DEF IInv
  <2>2. ASSUME app = "front", stage = "idle"
        PROVE  /\ view = [shown |-> store.current, running |-> TRUE]
               /\ status = StatusOf(store, FALSE) \/ unwritten
               /\ player.engine = TickOf[store.current]
                     \/ (player.trouble /\ player.engine = "off")
    <3>1. view.shown = store.current /\ view.running
      BY <2>1, <2>2 DEF ScreenInv
    <3>2. view = [shown |-> store.current, running |-> TRUE]
      BY <2>1, <3>1, Shapes
    <3>3. status = StatusOf(store, FALSE) \/ unwritten
      BY <2>1, <2>2 DEF ScreenInv
    <3>4. player.active /\ player.mode = TickOf[store.current]
      BY <2>1, <2>2 DEF ScreenInv
    <3> QED BY <2>1, <3>2, <3>3, <3>4 DEF RestInv, Sounds
  <2>3. ASSUME app = "back"
        PROVE  player.engine = "off" /\ ~player.trouble /\ ~timer /\ ~view.running
    BY <2>1, <2>3 DEF RestInv, Sounds
  <2> QED BY <2>2, <2>3 DEF RestAgrees
<1> QED BY <1>1, InvariantHolds, PTL
-----------------------------------------------------------------------------
(* The refinement of LastKnownGood.                                         *)
LEMMA InitMaps == Init => Good!Init
  BY NewStoreType DEF Init, Good!Init

LEMMA StepMaps == IInv /\ [Next]_vars => [Good!Next]_(Good!vars)
<1> SUFFICES ASSUME IInv, [Next]_vars PROVE [Good!Next]_(Good!vars)
  OBVIOUS
<1> USE DEF Good!Next, Good!vars
<1>0. TypeOK /\ StageInv /\ RestInv BY DEF IInv
<1>1. CASE UNCHANGED vars \/ LookForFile \/ Mirror \/ Publish \/ Apply \/ Activate
             \/ TimerFires \/ Interrupted \/ Notified \/ Flush
  <2>1. UNCHANGED <<config, app, store>>
    BY <1>1 DEF vars, files, reports, screen, LookForFile, Mirror, Publish, Apply, Applied,
                Activate, TimerFires, Interrupted, Notified, Flush
  <2> QED BY <2>1
<1>2. CASE Seed \/ Edit \/ Purge
  <2>1. UNCHANGED <<app, store>> /\ config' \in Documents \cup {NoFile}
    BY <1>0, <1>2, Shapes DEF Seed, Edit, Purge, screen, TypeOK
  <2> QED BY <2>1 DEF Good!Replace
<1>3. CASE Look
  <2> DEFINE r == Reload(store, stage, config)
  <2>1. r.store.current = store.current
          \/ (config \in Accepted /\ r.store.current = config)
    BY <1>0, <1>3, ReloadKeepsTypes DEF Look, TypeOK
  <2>2. Refused(store, "invalid").current = store.current
    BY <1>0, RefusedKeepsTypes DEF TypeOK, Reasons
  <2>3. stage # "idle"
    BY <1>3 DEF Look, ReloadStages
  <2>4. /\ store' \in {r.store, Refused(store, "invalid")}
        /\ app = "front" /\ app' = app /\ config' = config
    BY <1>0, <1>3, <2>3 DEF Look, files, reports, StageInv
  <2> HIDE DEF r
  <2> QED BY <2>1, <2>2, <2>4 DEF Good!Look
<1>4. CASE Resume
  <2>1. app' = "front" /\ UNCHANGED <<config, store>>
    BY <1>4 DEF Resume, files, reports, screen
  <2> QED BY <1>0, <2>1, NewStoreType DEF RestInv, Good!Begin
<1>5. CASE Pause
  BY <1>5 DEF Pause, files
<1>6. CASE Kill \/ PowerLoss
  <2>1. app' = "none" /\ store' = NewStore /\ config' = config
    BY <1>6 DEF Kill, PowerLoss, ProcessGone, files, reports
  <2> QED BY <1>0, <2>1, NewStoreType DEF RestInv, Good!End
<1> QED
  BY <1>1, <1>2, <1>3, <1>4, <1>5, <1>6 DEF Next, MainThread

(* The app keeps the last accepted document: its looks at a file that is    *)
(* replaced, purged and seeded under them are a look at one instant.        *)
THEOREM KeepsTheLastGood == Spec => KeepsLastGood
BY InitMaps, StepMaps, InvariantHolds, PTL DEF Spec, KeepsLastGood, Good!Spec
=============================================================================

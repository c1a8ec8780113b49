-------------------------- MODULE LinuxKioskProofs --------------------------
(* The Linux kiosk, for every set of documents and of modification times    *)
(* and any number of edits and starts.                                      *)
EXTENDS LinuxKiosk, ConfigStoreProofs

(* A kiosk that does not run holds nothing.                                 *)
StoreInv == ~running => store = NewStore

(* Renderer and time source have the store's config when the status is to   *)
(* be written, and until the next tick that finds another time.             *)
ScreenInv ==
    running =>
        /\ stage \in {"idle", "publish"} => shown = store.current
        /\ stage = "idle" /\ ~unwritten => status = StatusOf(store, FALSE)

IInv == TypeOK /\ StoreInv /\ ScreenInv
-----------------------------------------------------------------------------
LEMMA InitEstablishes == Init => IInv
<1> SUFFICES ASSUME Init PROVE IInv
  OBVIOUS
<1>1. TypeOK
  <2>1. config \in Documents \cup {NoFile} /\ mtime \in Stamps \cup {0}
        /\ (config = NoFile <=> mtime = 0)
    BY KioskAssumption DEF Init
  <2>2. edits \in 0..MaxEdits /\ starts \in 0..MaxStarts
    BY KioskAssumption DEF Init
  <2> QED BY <2>1, <2>2, NewStoreType DEF Init, TypeOK
<1> QED BY <1>1 DEF Init, IInv, StoreInv, ScreenInv

LEMMA InvariantKept == IInv /\ [Next]_vars => IInv'
<1> SUFFICES ASSUME IInv, [Next]_vars PROVE IInv'
  OBVIOUS
<1> USE DEF IInv
<1>0. TypeOK /\ StoreInv /\ ScreenInv
  OBVIOUS
<1>f. ASSUME NEW kind, Fault(kind)
      PROVE  faults' \subseteq FaultKinds /\ faults \subseteq faults' /\ kind \in faults'
  BY KioskAssumption, <1>f DEF Fault, TypeOK
<1>1. CASE UNCHANGED vars
  BY <1>1 DEF vars, reports, runtime, TypeOK, StoreInv, ScreenInv
<1>2. CASE Start
  <2>1. starts' \in 0..MaxStarts
    BY <1>2, KioskAssumption DEF Start, TypeOK
  <2>2. TypeOK'
    BY <1>2, <2>1, NewStoreType DEF Start, reports, TypeOK
  <2> QED BY <1>2, <2>2, NewStoreType DEF Start, reports, StoreInv, ScreenInv
<1>3. CASE Poll
  <2>1. TypeOK'
    BY <1>3 DEF Poll, reports, TypeOK, ReloadStages
  <2> QED BY <1>3, <2>1 DEF Poll, reports, StoreInv, ScreenInv
<1>4. CASE Look
  <2> DEFINE r == Reload(store, stage, config)
  <2>1. r.store \in Stores /\ r.next \in ReloadStages \cup {"done"}
    BY <1>4, ReloadKeepsTypes DEF Look, TypeOK
  <2>2. Refused(store, "invalid") \in Stores
    BY RefusedKeepsTypes DEF TypeOK, Reasons
  <2>3. /\ store' \in {r.store, Refused(store, "invalid")}
        /\ stage' \in {r.next, "render"} /\ stage' # "done"
        /\ running /\ running' = running
        /\ faults' = faults \/ Fault("read")
        /\ UNCHANGED <<config, mtime, reports, lastConfigMtime, shown, edits, starts>>
    BY <1>4 DEF Look
  <2> HIDE DEF r
  <2>4. faults' \subseteq FaultKinds
    BY <1>f, <2>3 DEF TypeOK
  <2>5. TypeOK'
    BY <2>1, <2>2, <2>3, <2>4 DEF reports, TypeOK
  <2>6. stage' \notin {"idle", "publish"}
    BY <2>1, <2>3 DEF ReloadStages
  <2> QED BY <2>3, <2>5, <2>6 DEF reports, StoreInv, ScreenInv
<1>5. CASE Render
  <2>1. TypeOK'
    BY <1>5 DEF Render, reports, runtime, TypeOK, Stores
  <2> QED BY <1>5, <2>1 DEF Render, reports, runtime, StoreInv, ScreenInv
<1>6. CASE Publish
  <2>1. StatusOf(store, FALSE) \in StatusFiles
    BY StatusType DEF TypeOK
  <2>2. /\ status' = StatusOf(store, FALSE) \/ (status' = status /\ unwritten')
        /\ unwritten' \in BOOLEAN
        /\ faults' \subseteq FaultKinds
    BY <1>6, <1>f DEF Publish, TypeOK
  <2>3. TypeOK'
    BY <1>6, <2>1, <2>2 DEF Publish, runtime, TypeOK
  <2> QED BY <1>6, <2>2, <2>3 DEF Publish, runtime, StoreInv, ScreenInv
<1>7. CASE Edit
  <2>1. edits' \in 0..MaxEdits
    BY <1>7, KioskAssumption DEF Edit, TypeOK
  <2>2. /\ config' \in Documents \cup {NoFile} /\ mtime' \in Stamps \cup {0}
        /\ config' = NoFile <=> mtime' = 0
    BY <1>7, KioskAssumption DEF Edit, FileAt
  <2>3. UNCHANGED <<reports, running, stage, runtime, shown, starts, faults>>
    BY <1>7 DEF Edit
  <2>4. TypeOK'
    BY <2>1, <2>2, <2>3 DEF reports, runtime, TypeOK
  <2> QED BY <2>3, <2>4 DEF reports, runtime, StoreInv, ScreenInv
<1>8. CASE Kill
  <2>1. faults' \subseteq FaultKinds
    BY <1>8, <1>f DEF Kill
  <2>2. TypeOK'
    BY <1>8, <2>1, NewStoreType DEF Kill, reports, TypeOK
  <2> QED BY <1>8, <2>2 DEF Kill, reports, StoreInv, ScreenInv
<1> QED
  BY <1>1, <1>2, <1>3, <1>4, <1>5, <1>6, <1>7, <1>8 DEF Next, EventThread

LEMMA InvariantHolds == Spec => []IInv
BY InitEstablishes, InvariantKept, PTL DEF Spec
-----------------------------------------------------------------------------
(* The files, reports, the runtime and the screen keep their shapes; the modification*)
(* time is 0 exactly where there is no file.                                *)
THEOREM TypeCorrect == Spec => []TypeOK
BY InvariantHolds, PTL DEF IInv

(* What status.json says of a kiosk at rest is what it shows, whatever      *)
(* replaced the file under its ticks.                                       *)
THEOREM StatusIsTheScreen == Spec => []StatusTellsTheScreen
<1>1. IInv => StatusTellsTheScreen
  BY DEF IInv, ScreenInv, StatusTellsTheScreen
<1> QED BY <1>1, InvariantHolds, PTL

LEMMA InitMaps == Init => Good!Init
  BY KioskAssumption, NewStoreType DEF Init, Good!Init

LEMMA StepMaps == IInv /\ [Next]_vars => [Good!Next]_(Good!vars)
<1> SUFFICES ASSUME IInv, [Next]_vars PROVE [Good!Next]_(Good!vars)
  OBVIOUS
<1> USE DEF Good!Next, Good!vars
<1>0. TypeOK /\ StoreInv BY DEF IInv
<1>1. CASE UNCHANGED vars \/ Poll \/ Render \/ Publish
  BY <1>1 DEF vars, reports, runtime, Poll, Render, Publish
<1>2. CASE Start
  BY <1>0, <1>2, NewStoreType DEF Start, StoreInv, Good!Begin
<1>3. CASE Look
  <2> DEFINE r == Reload(store, stage, config)
  <2>1. r.store.current = store.current
          \/ (config \in Accepted /\ r.store.current = config)
    BY <1>0, <1>3, ReloadKeepsTypes DEF Look, TypeOK
  <2>2. Refused(store, "invalid").current = store.current
    BY <1>0, RefusedKeepsTypes DEF TypeOK, Reasons
  <2>3. /\ store' \in {r.store, Refused(store, "invalid")}
        /\ running /\ running' = running /\ config' = config
    BY <1>3 DEF Look
  <2> HIDE DEF r
  <2> QED BY <2>1, <2>2, <2>3 DEF Good!Look
<1>4. CASE Edit
  BY <1>4 DEF Edit, FileAt, runtime, Good!Replace
<1>5. CASE Kill
  BY <1>5, NewStoreType DEF Kill, Good!End
<1> QED
  BY <1>1, <1>2, <1>3, <1>4, <1>5 DEF Next, EventThread

(* The kiosk keeps the last accepted document: its reload, in three looks   *)
(* at a file that is replaced under them, is a look at one instant.         *)
THEOREM KeepsTheLastGood == Spec => KeepsLastGood
BY InitMaps, StepMaps, InvariantHolds, PTL DEF Spec, KeepsLastGood, Good!Spec
=============================================================================

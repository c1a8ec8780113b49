-------------------------- MODULE ConfigStoreProofs --------------------------
(* What one look of a reload does to a store, for every set of documents.   *)
EXTENDS ConfigStore, TLAPS

(* A look yields a store and goes on or ends; it moves what is in force     *)
(* only to an accepted document that it finds (ConfigStore.reload).         *)
LEMMA ReloadKeepsTypes ==
    ASSUME NEW s \in Stores, NEW stage \in ReloadStages,
           NEW file \in Documents \cup {NoFile}
    PROVE  /\ Reload(s, stage, file).store \in Stores
           /\ Reload(s, stage, file).next \in ReloadStages \cup {"done"}
           /\ \/ Reload(s, stage, file).store.current = s.current
              \/ /\ file \in Accepted
                 /\ Reload(s, stage, file).store.current = file
<1>1. Refused(s, "invalid") \in Stores /\ Refused(s, "oversized") \in Stores
      /\ Refused(s, "invalid").current = s.current
      /\ Refused(s, "oversized").current = s.current
  BY DEF Refused, Stores, Sources, Reasons
<1>2. ASSUME file \in Accepted
      PROVE /\ Parsed(s, file) \in Stores
            /\ Parsed(s, file).current = file
  BY <1>2 DEF Parsed, Stores, Sources, Reasons
<1>3. ASSUME file \in Documents, file \notin Accepted
      PROVE Parsed(s, file) \in Stores /\ Parsed(s, file).current = s.current
  BY <1>1, <1>3 DEF Parsed
<1>4. CASE stage = "isfile"
  BY <1>4 DEF Reload, ReloadStages
<1>5. CASE stage # "isfile" /\ file = NoFile
  BY <1>1, <1>5 DEF Reload, ReloadStages
<1>6. CASE stage = "size" /\ file # NoFile
  <2>1. file \in Oversized \/ file \in Accepted \cup Invalid
    BY <1>6 DEF Documents
  <2>2. CASE file \in Oversized
    BY <1>1, <1>6, <2>2, DocumentsAssumption DEF Reload, ReloadStages
  <2>3. CASE file \in Accepted \cup Invalid
    BY <1>6, <2>3, DocumentsAssumption DEF Reload, ReloadStages
  <2> QED BY <2>1, <2>2, <2>3
<1>7. CASE stage = "read" /\ file # NoFile
  BY <1>2, <1>3, <1>7 DEF Reload, ReloadStages
<1> QED BY <1>4, <1>5, <1>6, <1>7 DEF ReloadStages

(* A rejection keeps what is in force.                                      *)
LEMMA RefusedKeepsTypes ==
    ASSUME NEW s \in Stores, NEW reason \in Reasons
    PROVE  Refused(s, reason) \in Stores /\ Refused(s, reason).current = s.current
  BY DEF Refused, Stores

(* What is published has the type of a status.                              *)
LEMMA StatusType ==
    ASSUME NEW s \in Stores, NEW boot \in BOOLEAN
    PROVE  StatusOf(s, boot) \in StatusFiles
  BY DEF StatusOf, StatusFiles, Stores

(* A new process has the defaults in force.                                 *)
LEMMA NewStoreType == NewStore \in Stores /\ NewStore.current = Defaults
  BY DEF NewStore, Stores, Sources, Reasons
=============================================================================

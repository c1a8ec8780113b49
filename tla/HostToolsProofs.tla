--------------------------- MODULE HostToolsProofs ---------------------------
(* The tools of a host keep their promises for every set of inputs, devices *)
(* and commits: the release says what was built, the validators always give *)
(* a verdict and accept no more than the published schema, the canonical    *)
(* form settles, and the preflight accepts the devices that meet its        *)
(* conditions and no others.                                                *)
EXTENDS HostTools, SequenceTheorems, TLAPS

-----------------------------------------------------------------------------
(* The release workflow.                                                    *)

(* The phases of a run whose job has the signing runner, the ones after the *)
(* comparison, and the ones in which its signed build is the one it made.   *)
Signing == {"compare", "provider", "resolve", "sign", "evidence", "publish", "cleanup"}
OnRunner == Signing \cup {"published"}
Compared == {"provider", "resolve", "sign", "evidence", "publish", "published"}
Signed == {"evidence", "publish", "published"}

(* One job has the runner, and only a job leaves a keystore on it.          *)
OneJob ==
    /\ keystore => runner # Idle
    /\ \A w \in Runs : phase[w] \in Signing => runner = w

(* A run that began after the last move of the tag has built and checked    *)
(* out the commit that the tag is at.                                       *)
OneCommit(w) ==
    /\ phase[w] = "queued" => \A e \in Envs : built[w][e] = Unbuilt
    /\ phase[w] # "queued" => began[w] <= moves
    /\ phase[w] # "queued" /\ began[w] = moves =>
          /\ \A e \in Envs : built[w][e] # Unbuilt => built[w][e].commit = tagAt
          /\ phase[w] \in OnRunner => head[w] = tagAt

SameBuilds(w) == Digest(built[w]["clean-a"]) = Digest(built[w]["clean-b"])

(* What a run has found and made so far is that of its own builds.          *)
OwnBuilds(w) ==
    /\ phase[w] \in OnRunner => \A e \in Envs : built[w][e] # Unbuilt
    /\ phase[w] \in Compared => identical[w] = SameBuilds(w)
    /\ phase[w] \in Signed => signed[w] = built[w]["clean-a"]

(* An artifact and the document that describes it.                          *)
Describes(e, artifact, w) ==
    /\ ContentOf[artifact.commit].version = Tag
    /\ ~ContentOf[artifact.commit].native
    /\ e.artifact = Digest(artifact)
    /\ e.byteIdentical = SameBuilds(w)

OwnEvidence(w) ==
    phase[w] = "publish" =>
        Describes(evidence[w], signed[w], w) /\ evidence[w].commit = head[w]

(* The release, once there is one, is of a run that is over.                *)
Published ==
    release # NoRelease =>
        /\ release.by \in Runs /\ phase[release.by] = "published"
        /\ Describes(release.evidence, release.apk, release.by)
        /\ release.still => release.evidence.commit = release.apk.commit

ReleaseInv ==
    /\ ReleaseTypeOK /\ DOMAIN evidence = Runs /\ OneJob /\ Published
    /\ \A w \in Runs : OneCommit(w) /\ OwnBuilds(w) /\ OwnEvidence(w)

(* A document that the validator accepts has the version of its tag.        *)
LEMMA AcceptedVersion ==
    ASSUME NEW e, Evidence!SemanticErrors(e) = {}
    PROVE  e.tag = e.versionName
<1>1. Evidence!VersionErrors(e) \subseteq Evidence!SemanticErrors(e)
  BY Zenon DEF Evidence!SemanticErrors
<1> QED
  BY <1>1 DEF Evidence!VersionErrors

LEMMA ReleaseStarts ==
    ASSUME ReleaseInit
    PROVE  ReleaseInv
<1> USE WorkflowAssumption DEF ReleaseInit
<1>1. ReleaseTypeOK
  <2>1. [e \in Envs |-> Unbuilt] \in [Envs -> Artifacts \cup {Unbuilt}]
    OBVIOUS
  <2>2. built \in [Runs -> [Envs -> Artifacts \cup {Unbuilt}]]
    BY <2>1
  <2>3. 0 \in 0..MaxMoves
    OBVIOUS
  <2> QED
    BY <2>2, <2>3 DEF ReleaseTypeOK, Phases
<1>2. DOMAIN evidence = Runs /\ OneJob /\ Published
  BY DEF OneJob, Published, Signing
<1>3. \A w \in Runs : OneCommit(w) /\ OwnBuilds(w) /\ OwnEvidence(w)
  BY DEF OneCommit, OwnBuilds, OwnEvidence, OnRunner, Signing, Compared, Signed
<1> QED
  BY <1>1, <1>2, <1>3 DEF ReleaseInv

LEMMA TypeKept ==
    ASSUME ReleaseTypeOK, ReleaseNext
    PROVE  ReleaseTypeOK'
<1> USE WorkflowAssumption DEF ReleaseTypeOK, ofRuns
<1>1. CASE MoveTag
  BY <1>1 DEF MoveTag
<1> SUFFICES ASSUME NEW w \in Runs,
                    \/ Start(w) \/ (\E e \in Envs : Build(w, e)) \/ TakeRunner(w) \/ Compare(w)
                    \/ RequireProvider(w) \/ ResolveSigning(w) \/ SignAndVerify(w)
                    \/ EmitEvidence(w) \/ PublishRelease(w) \/ Cleanup(w)
             PROVE  ReleaseTypeOK'
  BY <1>1 DEF ReleaseNext
<1> USE DEF Phases, GoesOn, Stops
<1>2. CASE Start(w)
  BY <1>2 DEF Start
<1>3. CASE \E e \in Envs : Build(w, e)
  <2> PICK e \in Envs : Build(w, e)
    BY <1>3
  <2>1. \A odd \in {FALSE, e = "clean-b"} : [commit |-> tagAt, odd |-> odd] \in Artifacts
    <3>1. tagAt \in Commits /\ FALSE \in BOOLEAN /\ (e = "clean-b") \in BOOLEAN
      OBVIOUS
    <3>2. \A odd \in BOOLEAN : [commit |-> tagAt, odd |-> odd] \in Artifacts
      BY <3>1 DEF Artifacts
    <3> QED
      BY ONLY <3>1, <3>2, Zenon
  <2>2. \A x \in Artifacts : [built EXCEPT ![w][e] = x] \in [Runs -> [Envs -> Artifacts \cup {Unbuilt}]]
    OBVIOUS
  <2>3. built' \in [Runs -> [Envs -> Artifacts \cup {Unbuilt}]]
    <3>1. \/ built' = built
          \/ \E odd \in {FALSE, e = "clean-b"} :
                built' = [built EXCEPT ![w][e] = [commit |-> tagAt, odd |-> odd]]
      BY Zenon DEF Build
    <3>2. built \in [Runs -> [Envs -> Artifacts \cup {Unbuilt}]]
      OBVIOUS
    <3>3. CASE \E odd \in {FALSE, e = "clean-b"} :
                built' = [built EXCEPT ![w][e] = [commit |-> tagAt, odd |-> odd]]
      <4> PICK odd \in {FALSE, e = "clean-b"} :
                built' = [built EXCEPT ![w][e] = [commit |-> tagAt, odd |-> odd]]
        BY <3>3
      <4> DEFINE x == [commit |-> tagAt, odd |-> odd]
      <4>1. x \in Artifacts
        BY <2>1
      <4>2. built' = [built EXCEPT ![w][e] = x]
        OBVIOUS
      <4> HIDE DEF x
      <4> QED
        BY <2>2, <4>1, <4>2, Zenon
    <3> QED
      BY <3>1, <3>2, <3>3
  <2> QED
    BY <2>3 DEF Build
<1>4. CASE TakeRunner(w)
  BY <1>4 DEF TakeRunner
<1>5. CASE Compare(w)
  BY <1>5 DEF Compare
<1>6. CASE RequireProvider(w)
  BY <1>6 DEF RequireProvider
<1>7. CASE ResolveSigning(w)
  BY <1>7 DEF ResolveSigning
<1>8. CASE SignAndVerify(w)
  <2>1. signed' \in [Runs -> Artifacts \cup {Unbuilt}]
    BY <1>8 DEF SignAndVerify, Envs
  <2> QED
    BY <1>8, <2>1 DEF SignAndVerify
<1>9. CASE EmitEvidence(w)
  BY <1>9 DEF EmitEvidence, Emits
<1>10. CASE PublishRelease(w)
  BY <1>10 DEF PublishRelease
<1>11. CASE Cleanup(w)
  BY <1>11 DEF Cleanup
<1> QED
  BY <1>2, <1>3, <1>4, <1>5, <1>6, <1>7, <1>8, <1>9, <1>10, <1>11

(* The phase of one run changes, and the other runs are as they were.       *)
LEMMA OneJobKept ==
    ASSUME ReleaseInv, ReleaseNext
    PROVE  OneJob'
<1> USE WorkflowAssumption DEF ReleaseInv, OneJob, ReleaseTypeOK, Signing, ofRuns
<1>1. CASE MoveTag
  BY <1>1 DEF MoveTag
<1> SUFFICES ASSUME NEW w \in Runs,
                    \/ Start(w) \/ (\E e \in Envs : Build(w, e)) \/ TakeRunner(w) \/ Compare(w)
                    \/ RequireProvider(w) \/ ResolveSigning(w) \/ SignAndVerify(w)
                    \/ EmitEvidence(w) \/ PublishRelease(w) \/ Cleanup(w)
             PROVE  OneJob'
  BY <1>1 DEF ReleaseNext
<1> USE DEF GoesOn, Stops
<1>2. CASE Start(w)
  BY <1>2 DEF Start
<1>3. CASE \E e \in Envs : Build(w, e)
  BY <1>3 DEF Build
<1>4. CASE TakeRunner(w)
  BY <1>4 DEF TakeRunner
<1>5. CASE Compare(w)
  BY <1>5 DEF Compare
<1>6. CASE RequireProvider(w)
  BY <1>6 DEF RequireProvider
<1>7. CASE ResolveSigning(w)
  BY <1>7 DEF ResolveSigning
<1>8. CASE SignAndVerify(w)
  BY <1>8 DEF SignAndVerify
<1>9. CASE EmitEvidence(w)
  BY <1>9 DEF EmitEvidence, Emits
<1>10. CASE PublishRelease(w)
  BY <1>10 DEF PublishRelease
<1>11. CASE Cleanup(w)
  BY <1>11 DEF Cleanup
<1> QED
  BY <1>2, <1>3, <1>4, <1>5, <1>6, <1>7, <1>8, <1>9, <1>10, <1>11

(* What a run has built and checked out changes only in its own steps.      *)
LEMMA OneCommitKept ==
    ASSUME ReleaseInv, ReleaseNext, NEW v \in Runs
    PROVE  OneCommit(v)'
<1> USE WorkflowAssumption DEF ofRuns, OneCommit, OnRunner, Signing, ReleaseTypeOK
<1>0. ReleaseTypeOK /\ OneCommit(v)
  BY DEF ReleaseInv
<1>1. CASE MoveTag
  BY <1>0, <1>1 DEF MoveTag
<1> SUFFICES ASSUME NEW w \in Runs,
                    \/ Start(w) \/ (\E e \in Envs : Build(w, e)) \/ TakeRunner(w) \/ Compare(w)
                    \/ RequireProvider(w) \/ ResolveSigning(w) \/ SignAndVerify(w)
                    \/ EmitEvidence(w) \/ PublishRelease(w) \/ Cleanup(w)
             PROVE  OneCommit(v)'
  BY <1>1 DEF ReleaseNext
<1> USE <1>0 DEF GoesOn, Stops
<1>2. CASE Start(w)
  BY <1>2 DEF Start
<1>3. CASE \E e \in Envs : Build(w, e)
  <2> PICK e \in Envs : Build(w, e)
    BY <1>3
  <2>1. /\ phase[w] = "building" /\ UNCHANGED <<tagAt, moves, began, head>>
        /\ phase' = phase \/ phase' = [phase EXCEPT ![w] = "failed"]
        /\ \/ built' = built
           \/ \E odd \in {FALSE, e = "clean-b"} :
                 built' = [built EXCEPT ![w][e] = [commit |-> tagAt, odd |-> odd]]
    BY DEF Build
  <2>2. \A f \in Envs : built'[v][f] = built[v][f]
                            \/ (v = w /\ built'[v][f].commit = tagAt)
    BY <2>1
  <2> QED
    BY <2>1, <2>2
<1>4. CASE TakeRunner(w)
  BY <1>4 DEF TakeRunner
<1>5. CASE Compare(w)
  BY <1>5 DEF Compare
<1>6. CASE RequireProvider(w)
  BY <1>6 DEF RequireProvider
<1>7. CASE ResolveSigning(w)
  BY <1>7 DEF ResolveSigning
<1>8. CASE SignAndVerify(w)
  BY <1>8 DEF SignAndVerify
<1>9. CASE EmitEvidence(w)
  BY <1>9 DEF EmitEvidence, Emits
<1>10. CASE PublishRelease(w)
  BY <1>10 DEF PublishRelease
<1>11. CASE Cleanup(w)
  BY <1>11 DEF Cleanup
<1> QED
  BY <1>2, <1>3, <1>4, <1>5, <1>6, <1>7, <1>8, <1>9, <1>10, <1>11

(* The comparison and the signature are of the two builds of the run, and   *)
(* the builds do not change after them.                                     *)
LEMMA OwnBuildsKept ==
    ASSUME ReleaseInv, ReleaseNext, NEW v \in Runs
    PROVE  OwnBuilds(v)'
<1> USE DEF ofRuns, OwnBuilds, SameBuilds, OnRunner, Signing, Compared, Signed, Envs
<1>0. ReleaseTypeOK /\ OwnBuilds(v)
  BY DEF ReleaseInv
<1> USE DEF ReleaseTypeOK
<1>1. CASE MoveTag
  BY <1>0, <1>1 DEF MoveTag
<1> SUFFICES ASSUME NEW w \in Runs,
                    \/ Start(w) \/ (\E e \in Envs : Build(w, e)) \/ TakeRunner(w) \/ Compare(w)
                    \/ RequireProvider(w) \/ ResolveSigning(w) \/ SignAndVerify(w)
                    \/ EmitEvidence(w) \/ PublishRelease(w) \/ Cleanup(w)
             PROVE  OwnBuilds(v)'
  BY <1>1 DEF ReleaseNext
<1> USE <1>0 DEF GoesOn, Stops
<1>2. CASE Start(w)
  BY <1>2 DEF Start
<1>3. CASE \E e \in Envs : Build(w, e)
  <2>1. v # w => built'[v] = built[v] /\ phase'[v] = phase[v]
    BY <1>3 DEF Build
  <2>2. phase'[w] \in {"building", "failed"}
    BY <1>3 DEF Build
  <2> QED
    BY <1>3, <2>1, <2>2 DEF Build, Digest
<1>4. CASE TakeRunner(w)
  BY <1>4 DEF TakeRunner
<1>5. CASE Compare(w)
  BY <1>5 DEF Compare
<1>6. CASE RequireProvider(w)
  BY <1>6 DEF RequireProvider
<1>7. CASE ResolveSigning(w)
  BY <1>7 DEF ResolveSigning
<1>8. CASE SignAndVerify(w)
  BY <1>8 DEF SignAndVerify
<1>9. CASE EmitEvidence(w)
  BY <1>9 DEF EmitEvidence, Emits
<1>10. CASE PublishRelease(w)
  BY <1>10 DEF PublishRelease
<1>11. CASE Cleanup(w)
  BY <1>11 DEF Cleanup
<1> QED
  BY <1>2, <1>3, <1>4, <1>5, <1>6, <1>7, <1>8, <1>9, <1>10, <1>11

(* A run has the evidence that the validator accepted of its own build.     *)
LEMMA OwnEvidenceKept ==
    ASSUME ReleaseInv, ReleaseNext, NEW v \in Runs
    PROVE  OwnEvidence(v)'
<1> USE DEF ofRuns, OwnEvidence
<1>0. ReleaseTypeOK /\ DOMAIN evidence = Runs /\ OwnEvidence(v) /\ OwnBuilds(v)
  BY DEF ReleaseInv
<1> USE DEF ReleaseTypeOK, Describes, SameBuilds
<1>1. CASE MoveTag
  BY <1>0, <1>1 DEF MoveTag
<1> SUFFICES ASSUME NEW w \in Runs,
                    \/ Start(w) \/ (\E e \in Envs : Build(w, e)) \/ TakeRunner(w) \/ Compare(w)
                    \/ RequireProvider(w) \/ ResolveSigning(w) \/ SignAndVerify(w)
                    \/ EmitEvidence(w) \/ PublishRelease(w) \/ Cleanup(w)
             PROVE  OwnEvidence(v)'
  BY <1>1 DEF ReleaseNext
<1> USE <1>0 DEF GoesOn, Stops
<1>2. CASE Start(w)
  BY <1>2 DEF Start
<1>3. CASE \E e \in Envs : Build(w, e)
  <2>1. v # w => built'[v] = built[v]
    BY <1>3 DEF Build
  <2>2. phase'[w] \in {"building", "failed"}
    BY <1>3 DEF Build
  <2> QED
    BY <1>3, <2>1, <2>2 DEF Build
<1>4. CASE TakeRunner(w)
  BY <1>4 DEF TakeRunner
<1>5. CASE Compare(w)
  BY <1>5 DEF Compare
<1>6. CASE RequireProvider(w)
  BY <1>6 DEF RequireProvider
<1>7. CASE ResolveSigning(w)
  BY <1>7 DEF ResolveSigning
<1>8. CASE SignAndVerify(w)
  <2>1. v # w => signed'[v] = signed[v]
    BY <1>8 DEF SignAndVerify
  <2>2. phase'[w] \in {"evidence", "cleanup"}
    BY <1>8 DEF SignAndVerify
  <2> QED
    BY <1>8, <2>1, <2>2 DEF SignAndVerify
<1>9. CASE EmitEvidence(w)
  <2>1. /\ phase[w] = "evidence"
        /\ UNCHANGED <<built, head, signed>>
        /\ phase' \in {[phase EXCEPT ![w] = "publish"], [phase EXCEPT ![w] = "cleanup"]}
        /\ v # w => evidence'[v] = evidence[v]
    BY <1>9 DEF EmitEvidence, Emits
  <2>2. CASE v = w /\ phase' = [phase EXCEPT ![w] = "publish"]
    <3>1. /\ evidence'[w] = Assembled(w, head[w])
          /\ Evidence!SemanticErrors(Assembled(w, head[w])) = {}
          /\ ~ContentOf[signed[w].commit].native
      <4>1. phase' # [phase EXCEPT ![w] = "cleanup"]
        BY <2>2
      <4> QED
        BY <1>9, <4>1 DEF EmitEvidence, Emits
    <3>2. Assembled(w, head[w]).tag = Assembled(w, head[w]).versionName
      BY <3>1, AcceptedVersion
    <3>3. identical[w] = SameBuilds(w)
      BY <2>1, <2>2 DEF OwnBuilds, Compared
    <3>4. Describes(evidence'[w], signed[w], w)
      BY <3>1, <3>2, <3>3 DEF Assembled, Describes
    <3>5. evidence'[w].commit = head[w]
      BY <3>1 DEF Assembled
    <3> QED
      BY <2>1, <2>2, <3>4, <3>5 DEF Describes, SameBuilds
  <2>3. CASE phase'[v] # "publish"
    BY <2>3
  <2>4. CASE v # w
    BY <2>1, <2>4 DEF Describes, SameBuilds
  <2> QED
    BY <2>1, <2>2, <2>3, <2>4
<1>10. CASE PublishRelease(w)
  BY <1>10 DEF PublishRelease
<1>11. CASE Cleanup(w)
  BY <1>11 DEF Cleanup
<1> QED
  BY <1>2, <1>3, <1>4, <1>5, <1>6, <1>7, <1>8, <1>9, <1>10, <1>11

(* A release is published with the evidence of its run, and stays as it is. *)
LEMMA PublishedKept ==
    ASSUME ReleaseInv, ReleaseNext
    PROVE  Published'
<1> USE DEF ofRuns, Published
<1>0. ReleaseTypeOK /\ Published
  BY DEF ReleaseInv
<1> USE DEF ReleaseTypeOK, Describes, SameBuilds
<1>1. CASE MoveTag
  BY <1>0, <1>1 DEF MoveTag
<1> SUFFICES ASSUME NEW w \in Runs,
                    \/ Start(w) \/ (\E e \in Envs : Build(w, e)) \/ TakeRunner(w) \/ Compare(w)
                    \/ RequireProvider(w) \/ ResolveSigning(w) \/ SignAndVerify(w)
                    \/ EmitEvidence(w) \/ PublishRelease(w) \/ Cleanup(w)
             PROVE  Published'
  BY <1>1 DEF ReleaseNext
<1> USE <1>0 DEF GoesOn, Stops
<1>2. CASE Start(w)
  BY <1>2 DEF Start
<1>3. CASE \E e \in Envs : Build(w, e)
  <2>1. \A v \in Runs : v # w => built'[v] = built[v]
    BY <1>3 DEF Build
  <2>2. release # NoRelease => release.by # w
    BY <1>3 DEF Build
  <2> QED
    BY <1>3, <2>1, <2>2 DEF Build
<1>4. CASE TakeRunner(w)
  BY <1>4 DEF TakeRunner
<1>5. CASE Compare(w)
  BY <1>5 DEF Compare
<1>6. CASE RequireProvider(w)
  BY <1>6 DEF RequireProvider
<1>7. CASE ResolveSigning(w)
  BY <1>7 DEF ResolveSigning
<1>8. CASE SignAndVerify(w)
  BY <1>8 DEF SignAndVerify
<1>9. CASE EmitEvidence(w)
  BY <1>9 DEF EmitEvidence, Emits
<1>10. CASE PublishRelease(w)
  <2>1. CASE UNCHANGED release
    BY <1>10, <2>1 DEF PublishRelease
  <2>2. CASE /\ release' = [by |-> w, apk |-> signed[w], evidence |-> evidence[w],
                           still |-> began[w] = moves]
             /\ phase' = [phase EXCEPT ![w] = "published"]
    <3>1. phase[w] = "publish" /\ UNCHANGED built
      BY <1>10 DEF PublishRelease
    <3>2. /\ release'.by = w /\ release'.apk = signed[w]
          /\ release'.evidence = evidence[w] /\ (release'.still <=> began[w] = moves)
      BY <2>2
    <3>3. Describes(evidence[w], signed[w], w) /\ evidence[w].commit = head[w]
      BY <3>1 DEF ReleaseInv, OwnEvidence
    <3>4. signed[w] = built[w]["clean-a"] /\ built[w]["clean-a"] # Unbuilt
      BY <3>1 DEF ReleaseInv, OwnBuilds, Signed, OnRunner, Signing, Envs
    <3>5. began[w] = moves => head[w] = tagAt /\ built[w]["clean-a"].commit = tagAt
      BY <3>1, <3>4 DEF ReleaseInv, OneCommit, OnRunner, Signing, Envs
    <3>6. Describes(release.evidence, release.apk, w)'
      BY <3>1, <3>2, <3>3 DEF Describes, SameBuilds
    <3>7. release'.still => release'.evidence.commit = release'.apk.commit
      <4>1. CASE began[w] = moves
        BY <3>2, <3>3, <3>4, <3>5, <4>1
      <4>2. CASE began[w] # moves
        BY <3>2, <4>2
      <4> QED
        BY <4>1, <4>2
    <3>8. phase'[w] = "published"
      BY <2>2
    <3> QED
      BY <3>2, <3>6, <3>7, <3>8
  <2> QED
    BY <1>10, <2>1, <2>2 DEF PublishRelease
<1>11. CASE Cleanup(w)
  BY <1>11 DEF Cleanup
<1> QED
  BY <1>2, <1>3, <1>4, <1>5, <1>6, <1>7, <1>8, <1>9, <1>10, <1>11

LEMMA ReleaseSteps ==
    ASSUME ReleaseInv, ReleaseNext \/ UNCHANGED releaseVars
    PROVE  ReleaseInv'
<1>1. CASE ReleaseNext
  <2>1. DOMAIN evidence' = Runs
    BY <1>1 DEF ReleaseInv, ReleaseNext, MoveTag, Start, Build, TakeRunner, Compare,
       RequireProvider, ResolveSigning, SignAndVerify, EmitEvidence, Emits, PublishRelease,
       Cleanup, ofRuns
  <2>2. ReleaseTypeOK' /\ OneJob' /\ Published'
    BY <1>1, TypeKept, OneJobKept, PublishedKept DEF ReleaseInv
  <2>3. \A v \in Runs : OneCommit(v)' /\ OwnBuilds(v)' /\ OwnEvidence(v)'
    BY <1>1, OneCommitKept, OwnBuildsKept, OwnEvidenceKept
  <2> QED
    BY <2>1, <2>2, <2>3 DEF ReleaseInv
<1>2. CASE UNCHANGED releaseVars
  BY <1>2 DEF ReleaseInv, releaseVars, ofRuns, ReleaseTypeOK, OneJob, Published, OneCommit,
     OwnBuilds, OwnEvidence, Describes, SameBuilds
<1> QED
  BY <1>1, <1>2

(* What the invariant says of a release.                                    *)
LEMMA ReleaseIsTold ==
    ASSUME ReleaseInv
    PROVE  ReleaseTellsTheTruth
  BY DEF ReleaseInv, OneJob, Published, Describes, SameBuilds, ReleaseTellsTheTruth
-----------------------------------------------------------------------------
(* The validators.                                                          *)

(* What the shape and the rules say of a configuration document.            *)
ShapeAndRules(d) ==
    StructureErrors(d) \cup (IF StructureErrors(d) = {} THEN SemanticErrors(d) ELSE {})

(* The input is a document of the supported version.                        *)
Bounded(o) == o.strict /\ ~o.big /\ o.depth = "flat"
Sound(o) == Bounded(o) /\ o.object /\ o.version = "supported"

InputShape ==
    input \in [outside : Outsides, doc : IF tool = "config" THEN Configs ELSE OtherDocs]

(* A run prints once, and knows no error before it has looked for one.      *)
RunShape ==
    /\ stage # "ended" =>
          stdout = Nothing /\ stderr = Nothing /\ errors \cap {"usage_error", "io_error"} = {}
    /\ stage \in {"args", "read", "parse", "version", "shape"} => errors = {}
    /\ stage \notin {"args", "ended"} =>
          call = "validate" \/ (call = "canonicalize" /\ tool = "config")

(* How far the config validator has come with its document.                 *)
Progress ==
    tool = "config" =>
        /\ stage = "version" => Bounded(input.outside)
        /\ stage \in {"shape", "rules", "scan"} => Sound(input.outside)
        /\ stage = "rules" => errors = StructureErrors(input.doc)
        /\ stage = "scan" => errors = ShapeAndRules(input.doc)
        /\ stage = "report" =>
              \/ errors = ShapeAndRules(input.doc) \cup HygieneErrors(input.doc)
              \/ errors # {} /\ ~Sound(input.outside)

(* A printed form is that of a document of the right shape, and the form    *)
(* that is saved is still the one of the document it was respelled to.      *)
Forms ==
    /\ stdout.kind = "form" =>
          /\ tool = "config" /\ ShapeAndRules(input.doc) = {}
          /\ stdout.doc = Canonical(input.doc)
    /\ saved # Nothing => tool = "config" /\ saved = Canonical(input.doc)

ToolInv ==
    ToolTypeOK /\ InputShape /\ RunShape /\ Progress /\ AlwaysAVerdict /\ Forms

(* A zone id is a sequence of segments, however it is respelled.            *)
LEMMA ZoneIsASequence ==
    ASSUME NEW z \in Zones
    PROVE  /\ Len(z) \in Nat /\ DOMAIN z = 1..Len(z)
           /\ \A i \in DOMAIN z : z[i] \in Segments
           /\ \A y \in [DOMAIN z -> Segments] : y \in Zones /\ Len(y) = Len(z)
<1>1. z \in Seq(Segments)
  <2>1. Null \in Seq(Segments)
    BY DEF Null
  <2> QED
    BY <2>1 DEF Zones
<1>2. \A n \in Nat : [1..n -> Segments] \subseteq Seq(Segments)
  OBVIOUS
<1>3. /\ Len(z) \in Nat /\ DOMAIN z = 1..Len(z)
      /\ \A i \in DOMAIN z : z[i] \in Segments
  BY <1>1
<1>4. ASSUME NEW y \in [DOMAIN z -> Segments]
      PROVE  y \in Zones /\ Len(y) = Len(z)
  <2>1. y \in Seq(Segments)
    BY <1>2, <1>3
  <2>2. DOMAIN y = 1..Len(z) /\ DOMAIN y = 1..Len(y) /\ Len(y) \in Nat
    BY <1>3, <2>1
  <2> QED
    BY <1>3, <2>1, <2>2 DEF Zones
<1> QED
  BY <1>3, <1>4

LEMMA SegmentsByField ==
    ASSUME NEW s \in Segments, NEW t \in Segments, s.word = t.word, s.case = t.case
    PROVE  s = t
  BY DEF Segments

(* The canonical form has the type of a document.                           *)
LEMMA CanonicalTyped ==
    ASSUME NEW d \in Configs
    PROVE  /\ Canonical(d) \in Configs
           /\ Canonical(d) = [d EXCEPT !.tag = CanonicalTag(d.tag), !.zone = CanonicalZone(d.zone)]
           /\ Canonical(d).tag = CanonicalTag(d.tag)
           /\ Canonical(d).zone = CanonicalZone(d.zone)
           /\ CanonicalZone(d.zone) \in [DOMAIN d.zone -> Segments]
<1>1. d.zone \in Zones /\ d.tag \in Tags
  BY DEF Configs
<1>2. CanonicalZone(d.zone) \in [DOMAIN d.zone -> Segments]
  <2>1. \A i \in DOMAIN d.zone :
           [d.zone[i] EXCEPT !.case = IF @ = "upper" THEN "upper" ELSE "title"] \in Segments
    BY <1>1, ZoneIsASequence DEF Segments, Cases
  <2> QED
    BY <2>1 DEF CanonicalZone
<1>3. CanonicalZone(d.zone) \in Zones
  BY <1>1, <1>2, ZoneIsASequence
<1>4. CanonicalTag(d.tag) \in Tags
  BY <1>1 DEF CanonicalTag, Tags
<1> QED
  BY <1>2, <1>3, <1>4 DEF Canonical, Configs

(* The form of a form that is respelled is the form.                        *)
LEMMA FormSettles ==
    ASSUME NEW d \in Configs, StructureErrors(d) = {}, NEW c, c = Canonical(d),
           NEW z \in Respelled(c.zone),
           NEW tag \in IF c.tag = "standard" THEN {"standard", "other"} ELSE {"null"}
    PROVE  /\ [c EXCEPT !.zone = z, !.tag = tag] \in Configs
           /\ Canonical([c EXCEPT !.zone = z, !.tag = tag]) = c
<1> DEFINE e == [c EXCEPT !.zone = z, !.tag = tag]
<1>1. /\ c \in Configs /\ c.zone = CanonicalZone(d.zone) /\ c.tag = CanonicalTag(d.tag)
      /\ c.zone \in [DOMAIN d.zone -> Segments] /\ d.zone \in Zones
      /\ c.zone \in Zones
  BY CanonicalTyped DEF Configs
<1>2. /\ z \in [DOMAIN c.zone -> Segments] /\ z \in Zones
      /\ \A i \in DOMAIN z : /\ z[i].word = c.zone[i].word
                             /\ z[i].case = "upper" <=> c.zone[i].case = "upper"
  BY <1>1, ZoneIsASequence DEF Respelled
<1>3. tag \in Tags /\ CanonicalTag(tag) = c.tag
  <2>1. d.tag \in {"null", "standard", "other"}
    BY DEF StructureErrors, Configs, Tags
  <2> QED
    BY <1>1, <2>1 DEF CanonicalTag, Tags
<1>4. e \in Configs /\ e.zone = z /\ e.tag = tag
  BY <1>1, <1>2, <1>3 DEF Configs
<1>5. CanonicalZone(z) = c.zone
  <2>1. \A i \in DOMAIN z : [z[i] EXCEPT !.case = IF @ = "upper" THEN "upper" ELSE "title"] = c.zone[i]
    <3> SUFFICES ASSUME NEW i \in DOMAIN z
                 PROVE  [z[i] EXCEPT !.case = IF @ = "upper" THEN "upper" ELSE "title"] = c.zone[i]
      OBVIOUS
    <3>1. z[i] \in Segments /\ c.zone[i] \in Segments /\ d.zone[i] \in Segments
      BY <1>1, <1>2, ZoneIsASequence
    <3>2. c.zone[i] = [d.zone[i] EXCEPT !.case = IF @ = "upper" THEN "upper" ELSE "title"]
      BY <1>1, <1>2 DEF CanonicalZone
    <3>3. c.zone[i].case \in {"upper", "title"}
      BY <3>1, <3>2 DEF Segments
    <3>4. /\ [z[i] EXCEPT !.case = IF @ = "upper" THEN "upper" ELSE "title"] \in Segments
          /\ [z[i] EXCEPT !.case = IF @ = "upper" THEN "upper" ELSE "title"].word = c.zone[i].word
          /\ [z[i] EXCEPT !.case = IF @ = "upper" THEN "upper" ELSE "title"].case = c.zone[i].case
      BY <1>2, <3>1, <3>3 DEF Segments, Cases
    <3> QED
      BY <3>1, <3>4, SegmentsByField
  <2> QED
    BY <1>1, <1>2, <2>1 DEF CanonicalZone
<1>6. Canonical(e) = [e EXCEPT !.tag = c.tag, !.zone = c.zone]
  BY <1>3, <1>4, <1>5, CanonicalTyped
<1>7. [e EXCEPT !.tag = c.tag, !.zone = c.zone] = c
  BY <1>1, <1>4 DEF Configs
<1> QED
  BY <1>4, <1>6, <1>7

(* The shape and the rules accept what the published schema accepts, but    *)
(* for the documents with a number that is written as a float.              *)
LEMMA SchemaIsTheRules ==
    ASSUME NEW d \in Configs
    PROVE  ShapeAndRules(d) = {} <=> SchemaAccepts(d) /\ ~WrittenAsFloat(d)
<1>1. /\ d.shift \in BOOLEAN /\ d.flaws \subseteq Flaws
      /\ d.radius.kind \in {"integer", "float", "other"} /\ d.radius.value \in Int
      /\ d.interval.kind \in {"integer", "float", "other"} /\ d.interval.value \in Int
  BY DEF Configs, Numbers
<1>2. StructureErrors(d) = {} <=>
          /\ d.flaws = {}
          /\ d.radius.kind = "integer" /\ d.interval.kind = "integer"
          /\ d.tag \notin {"malformed", "long"}
          /\ d.zone = Null \/ TooLong(d.zone) \/ ZoneShape(d.zone)
          /\ ~TooLong(d.zone)
          /\ WithinBounds(d)
  BY <1>1 DEF StructureErrors, WithinBounds
<1>3. SemanticErrors(d) = {} <=> SchemaConditional(d)
  BY <1>1 DEF SemanticErrors, SchemaConditional
<1>4. ~TooLong(Null)
  BY DEF TooLong, Null
<1>5. WrittenAsFloat(d) <=> d.radius.kind = "float" \/ d.interval.kind = "float"
  BY DEF WrittenAsFloat
<1> QED
  BY <1>1, <1>2, <1>3, <1>4, <1>5 DEF ShapeAndRules, SchemaAccepts

(* The canonical form of what they accept satisfies the schema.             *)
LEMMA FormSatisfiesSchema ==
    ASSUME NEW d \in Configs, ShapeAndRules(d) = {}
    PROVE  SchemaAccepts(Canonical(d))
<1> DEFINE c == Canonical(d)
<1>1. /\ c \in Configs /\ c.tag = CanonicalTag(d.tag) /\ c.zone = CanonicalZone(d.zone)
      /\ c.zone \in [DOMAIN d.zone -> Segments] /\ d.zone \in Zones
      /\ c = [d EXCEPT !.tag = CanonicalTag(d.tag), !.zone = CanonicalZone(d.zone)]
  BY CanonicalTyped DEF Configs
<1>2. /\ c.flaws = d.flaws /\ c.shift = d.shift /\ c.radius = d.radius
      /\ c.interval = d.interval /\ c.policy = d.policy /\ c.zonePolicy = d.zonePolicy
  BY <1>1 DEF Configs
<1>3. SchemaAccepts(d)
  BY SchemaIsTheRules
<1>4. /\ c.tag = "null" <=> d.tag = "null"
      /\ c.tag \notin {"malformed", "long"}
  BY <1>1, <1>3 DEF CanonicalTag, SchemaAccepts
<1>5. \A i \in DOMAIN d.zone : /\ d.zone[i] \in Segments
                               /\ c.zone[i].word = d.zone[i].word
                               /\ d.zone[i].case = "upper" => c.zone[i] = d.zone[i]
  <2> SUFFICES ASSUME NEW i \in DOMAIN d.zone
               PROVE  /\ d.zone[i] \in Segments
                      /\ c.zone[i].word = d.zone[i].word
                      /\ d.zone[i].case = "upper" => c.zone[i] = d.zone[i]
    OBVIOUS
  <2>1. d.zone[i] \in Segments /\ c.zone[i] \in Segments
    BY <1>1, ZoneIsASequence
  <2>2. c.zone[i] = [d.zone[i] EXCEPT !.case = IF @ = "upper" THEN "upper" ELSE "title"]
    BY <1>1 DEF CanonicalZone
  <2>3. c.zone[i].word = d.zone[i].word
    BY <2>1, <2>2 DEF Segments
  <2>4. d.zone[i].case = "upper" => c.zone[i].case = d.zone[i].case
    BY <2>1, <2>2 DEF Segments
  <2> QED
    BY <2>1, <2>3, <2>4, SegmentsByField
<1>6. /\ c.zone \in Zones /\ Len(c.zone) = Len(d.zone) /\ DOMAIN c.zone = DOMAIN d.zone
      /\ Len(d.zone) \in Nat /\ DOMAIN d.zone = 1..Len(d.zone)
  BY <1>1, ZoneIsASequence
<1>7. ~TooLong(d.zone) => ~TooLong(c.zone)
  BY <1>5, <1>6 DEF TooLong
<1>8. c.zone = Null <=> d.zone = Null
  <2>1. \A z \in Zones : z = Null <=> Len(z) = 0
    BY DEF Zones, Null
  <2> QED
    BY <1>1, <1>6, <2>1
<1>9. ZoneShape(d.zone) => ZoneShape(c.zone)
  <2>1. CASE d.zone = <<[word |-> Utc, case |-> "upper"]>>
    <3>1. Len(d.zone) = 1 /\ d.zone[1] = [word |-> Utc, case |-> "upper"] /\ 1 \in DOMAIN d.zone
      BY <2>1
    <3>2. Len(c.zone) = 1 /\ c.zone[1] = [word |-> Utc, case |-> "upper"]
      BY <1>5, <1>6, <3>1
    <3>3. c.zone \in Seq(Segments)
      BY <1>6, <3>2 DEF Zones, Null
    <3>4. c.zone = <<[word |-> Utc, case |-> "upper"]>>
      BY <3>2, <3>3
    <3> QED
      BY <3>4 DEF ZoneShape
  <2>2. CASE Len(d.zone) \in 2..3
    BY <1>6, <2>2 DEF ZoneShape
  <2> QED
    BY <2>1, <2>2 DEF ZoneShape
<1>10. WithinBounds(c) /\ SchemaConditional(c)
  BY <1>2, <1>3, <1>4, <1>8 DEF SchemaAccepts, WithinBounds, SchemaConditional
<1> HIDE DEF c
<1>11. SchemaAccepts(c)
  BY <1>2, <1>3, <1>4, <1>7, <1>8, <1>9, <1>10 DEF SchemaAccepts
<1> QED
  BY <1>11 DEF c

(* What an input is, and what its checks may report.                        *)
LEMMA InputFacts ==
    ASSUME ToolInv
    PROVE  /\ tool \in Tools /\ call \in Calls /\ input.outside \in Outsides
           /\ tool = "config" => input.doc \in Configs
           /\ tool # "config" => input.doc \in OtherDocs
  BY DEF ToolInv, ToolTypeOK, InputShape

LEMMA CodesOfChecks ==
    /\ Structural \cup {"state_invalid", "hygiene_violation"} \subseteq Codes
    /\ {"usage_error", "io_error"} \cap
          (Structural \cup {"state_invalid", "hygiene_violation", "oversized", "json_invalid",
                            "schema_version_unsupported"}) = {}
    /\ \A d \in Configs : StructureErrors(d) \subseteq Structural
    /\ \A d : SemanticErrors(d) \subseteq {"state_invalid"}
    /\ \A d : HygieneErrors(d) \subseteq {"hygiene_violation"}
<1>1. \A d \in Configs : d.flaws \subseteq Flaws
  BY DEF Configs
<1>2. \A d \in Configs : StructureErrors(d) \subseteq Structural
  BY <1>1 DEF Structural, StructureErrors, Flaws
<1> QED
  BY <1>2 DEF Structural, Codes, SemanticErrors, HygieneErrors

(* What may be printed.                                                     *)
LEMMA Prints ==
    /\ {Nothing, [kind |-> "schema"], [kind |-> "traceback"]} = Unprinted
    /\ \A c : Verdict(c).kind = "verdict"
    /\ Verdict({"usage_error"}).kind = "verdict" /\ Verdict({"io_error"}).kind = "verdict"
  BY DEF Unprinted, Verdict

LEMMA ToolStarts ==
    ASSUME ToolInit
    PROVE  ToolInv
<1> USE ToolAssumption DEF ToolInit
<1>1. ToolTypeOK /\ InputShape
  BY DEF ToolTypeOK, InputShape, Tools, Calls, Stages, Unprinted, Running, Nothing
<1>2. RunShape /\ Progress /\ AlwaysAVerdict /\ Forms
  BY DEF RunShape, Progress, AlwaysAVerdict, Forms, Nothing
<1> QED
  BY <1>1, <1>2 DEF ToolInv

(* A step of a run changes neither what is run nor the form that is saved.  *)
LEMMA RunKeepsInput ==
    ASSUME ToolInv, Run
    PROVE  InputShape' /\ UNCHANGED <<toolRun, saved, rounds>>
<1>1. UNCHANGED <<toolRun, saved, rounds>>
  BY DEF Run, ParseConfigArgs, ParseOtherArgs, ReadConfig, ReadOther, ParseConfig, ParseOther,
     CheckVersion, CheckShape, CheckRules, Scan, Report
<1> QED
  BY <1>1 DEF ToolInv, InputShape, toolRun

LEMMA RunSteps ==
    ASSUME ToolInv, Run
    PROVE  ToolInv'
<1>0. /\ InputShape' /\ UNCHANGED <<tool, call, input, saved, rounds>>
      /\ ToolTypeOK /\ RunShape /\ Progress /\ Forms
      /\ tool \in Tools /\ call \in Calls /\ input.outside \in Outsides
      /\ tool = "config" => input.doc \in Configs
      /\ tool # "config" => input.doc \in OtherDocs
  BY RunKeepsInput, InputFacts DEF toolRun, ToolInv
<1> SUFFICES ToolTypeOK' /\ RunShape' /\ Progress' /\ AlwaysAVerdict' /\ Forms'
  BY <1>0 DEF ToolInv
<1> USE <1>0 DEF Running, Nothing, Verdict, Goes, Exit, Continues, Fails, Crash, Unreadable
<1>1. CASE ParseConfigArgs
  <2>1. ToolTypeOK'
    <3>1. /\ stdout' \in Unprinted \/ stdout'.kind \in {"verdict", "form"}
          /\ stderr' \in Unprinted \/ stderr'.kind = "verdict"
      BY <1>1, Prints DEF ParseConfigArgs, ToolTypeOK
    <3>2. stage' \in Stages /\ errors' \subseteq Codes
      BY <1>1, CodesOfChecks DEF ParseConfigArgs, ToolTypeOK, Stages, Codes
    <3>3. code' \in {Running, 0, 1, 2} /\ (code' = Running <=> stage' # "ended")
      BY <1>1 DEF ParseConfigArgs, ToolTypeOK
    <3> QED
      BY <3>1, <3>2, <3>3 DEF ToolTypeOK
  <2>2. RunShape'
    BY <1>1, CodesOfChecks DEF ParseConfigArgs, RunShape, Calls
  <2>3. Progress'
    BY <1>1, CodesOfChecks DEF ParseConfigArgs, Progress, RunShape, Bounded, Sound, Outsides, ShapeAndRules
  <2>4. AlwaysAVerdict'
    BY <1>1 DEF ParseConfigArgs, AlwaysAVerdict, RunShape, Progress, Bounded, Sound, ToolTypeOK
  <2>5. Forms'
    BY <1>1 DEF ParseConfigArgs, Forms
  <2> QED
    BY <2>1, <2>2, <2>3, <2>4, <2>5
<1>2. CASE ParseOtherArgs
  <2>1. ToolTypeOK'
    <3>1. /\ stdout' \in Unprinted \/ stdout'.kind \in {"verdict", "form"}
          /\ stderr' \in Unprinted \/ stderr'.kind = "verdict"
      BY <1>2, Prints DEF ParseOtherArgs, ToolTypeOK
    <3>2. stage' \in Stages /\ errors' \subseteq Codes
      BY <1>2, CodesOfChecks DEF ParseOtherArgs, ToolTypeOK, Stages, Codes
    <3>3. code' \in {Running, 0, 1, 2} /\ (code' = Running <=> stage' # "ended")
      BY <1>2 DEF ParseOtherArgs, ToolTypeOK
    <3> QED
      BY <3>1, <3>2, <3>3 DEF ToolTypeOK
  <2>2. RunShape'
    BY <1>2, CodesOfChecks DEF ParseOtherArgs, RunShape, Calls
  <2>3. Progress'
    BY <1>2, CodesOfChecks DEF ParseOtherArgs, Progress, RunShape, Bounded, Sound, Outsides, ShapeAndRules
  <2>4. AlwaysAVerdict'
    BY <1>2 DEF ParseOtherArgs, AlwaysAVerdict, RunShape, Progress, Bounded, Sound, ToolTypeOK
  <2>5. Forms'
    BY <1>2 DEF ParseOtherArgs, Forms
  <2> QED
    BY <2>1, <2>2, <2>3, <2>4, <2>5
<1>3. CASE ReadConfig
  <2>1. ToolTypeOK'
    <3>1. /\ stdout' \in Unprinted \/ stdout'.kind \in {"verdict", "form"}
          /\ stderr' \in Unprinted \/ stderr'.kind = "verdict"
      BY <1>3, Prints DEF ReadConfig, ToolTypeOK
    <3>2. stage' \in Stages /\ errors' \subseteq Codes
      BY <1>3, CodesOfChecks DEF ReadConfig, ToolTypeOK, Stages, Codes
    <3>3. code' \in {Running, 0, 1, 2} /\ (code' = Running <=> stage' # "ended")
      BY <1>3 DEF ReadConfig, ToolTypeOK
    <3> QED
      BY <3>1, <3>2, <3>3 DEF ToolTypeOK
  <2>2. RunShape'
    BY <1>3, CodesOfChecks DEF ReadConfig, RunShape, Calls
  <2>3. Progress'
    BY <1>3, CodesOfChecks DEF ReadConfig, Progress, RunShape, Bounded, Sound, Outsides, ShapeAndRules
  <2>4. AlwaysAVerdict'
    BY <1>3 DEF ReadConfig, AlwaysAVerdict, RunShape, Progress, Bounded, Sound, ToolTypeOK
  <2>5. Forms'
    BY <1>3 DEF ReadConfig, Forms
  <2> QED
    BY <2>1, <2>2, <2>3, <2>4, <2>5
<1>4. CASE ReadOther
  <2>1. ToolTypeOK'
    <3>1. /\ stdout' \in Unprinted \/ stdout'.kind \in {"verdict", "form"}
          /\ stderr' \in Unprinted \/ stderr'.kind = "verdict"
      BY <1>4, Prints DEF ReadOther, ToolTypeOK
    <3>2. stage' \in Stages /\ errors' \subseteq Codes
      BY <1>4, CodesOfChecks DEF ReadOther, ToolTypeOK, Stages, Codes
    <3>3. code' \in {Running, 0, 1, 2} /\ (code' = Running <=> stage' # "ended")
      BY <1>4 DEF ReadOther, ToolTypeOK
    <3> QED
      BY <3>1, <3>2, <3>3 DEF ToolTypeOK
  <2>2. RunShape'
    BY <1>4, CodesOfChecks DEF ReadOther, RunShape, Calls
  <2>3. Progress'
    BY <1>4, CodesOfChecks DEF ReadOther, Progress, RunShape, Bounded, Sound, Outsides, ShapeAndRules
  <2>4. AlwaysAVerdict'
    BY <1>4 DEF ReadOther, AlwaysAVerdict, RunShape, Progress, Bounded, Sound, ToolTypeOK
  <2>5. Forms'
    BY <1>4 DEF ReadOther, Forms
  <2> QED
    BY <2>1, <2>2, <2>3, <2>4, <2>5
<1>5. CASE ParseConfig
  <2>1. ToolTypeOK'
    <3>1. /\ stdout' \in Unprinted \/ stdout'.kind \in {"verdict", "form"}
          /\ stderr' \in Unprinted \/ stderr'.kind = "verdict"
      BY <1>5, Prints DEF ParseConfig, ToolTypeOK
    <3>2. stage' \in Stages /\ errors' \subseteq Codes
      BY <1>5, CodesOfChecks DEF ParseConfig, ToolTypeOK, Stages, Codes
    <3>3. code' \in {Running, 0, 1, 2} /\ (code' = Running <=> stage' # "ended")
      BY <1>5 DEF ParseConfig, ToolTypeOK
    <3> QED
      BY <3>1, <3>2, <3>3 DEF ToolTypeOK
  <2>2. RunShape'
    BY <1>5, CodesOfChecks DEF ParseConfig, RunShape, Calls
  <2>3. Progress'
    BY <1>5, CodesOfChecks DEF ParseConfig, Progress, RunShape, Bounded, Sound, Outsides, ShapeAndRules
  <2>4. AlwaysAVerdict'
    BY <1>5 DEF ParseConfig, AlwaysAVerdict, RunShape, Progress, Bounded, Sound, ToolTypeOK
  <2>5. Forms'
    BY <1>5 DEF ParseConfig, Forms
  <2> QED
    BY <2>1, <2>2, <2>3, <2>4, <2>5
<1>6. CASE ParseOther
  <2>1. ToolTypeOK'
    <3>1. /\ stdout' \in Unprinted \/ stdout'.kind \in {"verdict", "form"}
          /\ stderr' \in Unprinted \/ stderr'.kind = "verdict"
      BY <1>6, Prints DEF ParseOther, ToolTypeOK
    <3>2. stage' \in Stages /\ errors' \subseteq Codes
      BY <1>6, CodesOfChecks DEF ParseOther, ToolTypeOK, Stages, Codes
    <3>3. code' \in {Running, 0, 1, 2} /\ (code' = Running <=> stage' # "ended")
      BY <1>6 DEF ParseOther, ToolTypeOK
    <3> QED
      BY <3>1, <3>2, <3>3 DEF ToolTypeOK
  <2>2. RunShape'
    BY <1>6, CodesOfChecks DEF ParseOther, RunShape, Calls
  <2>3. Progress'
    BY <1>6, CodesOfChecks DEF ParseOther, Progress, RunShape, Bounded, Sound, Outsides, ShapeAndRules
  <2>4. AlwaysAVerdict'
    BY <1>6 DEF ParseOther, AlwaysAVerdict, RunShape, Progress, Bounded, Sound, ToolTypeOK
  <2>5. Forms'
    BY <1>6 DEF ParseOther, Forms
  <2> QED
    BY <2>1, <2>2, <2>3, <2>4, <2>5
<1>7. CASE CheckVersion
  <2>1. ToolTypeOK'
    BY <1>7, CodesOfChecks DEF CheckVersion, ToolTypeOK, Stages, Codes, Unprinted
  <2>2. RunShape'
    BY <1>7, CodesOfChecks DEF CheckVersion, RunShape, Calls
  <2>3. Progress'
    BY <1>7, CodesOfChecks DEF CheckVersion, Progress, RunShape, Bounded, Sound, Outsides, ShapeAndRules
  <2>4. AlwaysAVerdict'
    BY <1>7 DEF CheckVersion, AlwaysAVerdict, RunShape, Progress, Bounded, Sound, ToolTypeOK
  <2>5. Forms'
    BY <1>7 DEF CheckVersion, Forms
  <2> QED
    BY <2>1, <2>2, <2>3, <2>4, <2>5
<1>8. CASE CheckShape
  <2>1. ToolTypeOK'
    BY <1>8, CodesOfChecks DEF CheckShape, ToolTypeOK, Stages, Codes, Unprinted
  <2>2. RunShape'
    BY <1>8, CodesOfChecks DEF CheckShape, RunShape, Calls
  <2>3. Progress'
    BY <1>8, CodesOfChecks DEF CheckShape, Progress, RunShape, Bounded, Sound, Outsides, ShapeAndRules
  <2>4. AlwaysAVerdict'
    BY <1>8 DEF CheckShape, AlwaysAVerdict, RunShape, Progress, Bounded, Sound, ToolTypeOK
  <2>5. Forms'
    BY <1>8 DEF CheckShape, Forms
  <2> QED
    BY <2>1, <2>2, <2>3, <2>4, <2>5
<1>9. CASE CheckRules
  <2>1. ToolTypeOK'
    BY <1>9, CodesOfChecks DEF CheckRules, ToolTypeOK, Stages, Codes, Unprinted
  <2>2. RunShape'
    BY <1>9, CodesOfChecks DEF CheckRules, RunShape, Calls
  <2>3. Progress'
    BY <1>9, CodesOfChecks DEF CheckRules, Progress, RunShape, Bounded, Sound, Outsides, ShapeAndRules
  <2>4. AlwaysAVerdict'
    BY <1>9 DEF CheckRules, AlwaysAVerdict, RunShape, Progress, Bounded, Sound, ToolTypeOK
  <2>5. Forms'
    BY <1>9 DEF CheckRules, Forms
  <2> QED
    BY <2>1, <2>2, <2>3, <2>4, <2>5
<1>10. CASE Scan
  <2>1. ToolTypeOK'
    <3>1. /\ stdout' \in Unprinted \/ stdout'.kind \in {"verdict", "form"}
          /\ stderr' \in Unprinted \/ stderr'.kind = "verdict"
      BY <1>10, Prints DEF Scan, ToolTypeOK
    <3>2. stage' \in Stages /\ errors' \subseteq Codes
      BY <1>10, CodesOfChecks DEF Scan, ToolTypeOK, Stages, Codes
    <3>3. code' \in {Running, 0, 1, 2} /\ (code' = Running <=> stage' # "ended")
      BY <1>10 DEF Scan, ToolTypeOK
    <3> QED
      BY <3>1, <3>2, <3>3 DEF ToolTypeOK
  <2>2. RunShape'
    BY <1>10, CodesOfChecks DEF Scan, RunShape, Calls
  <2>3. Progress'
    BY <1>10, CodesOfChecks DEF Scan, Progress, RunShape, Bounded, Sound, Outsides, ShapeAndRules
  <2>4. AlwaysAVerdict'
    BY <1>10 DEF Scan, AlwaysAVerdict, RunShape, Progress, Bounded, Sound, ToolTypeOK
  <2>5. Forms'
    BY <1>10 DEF Scan, Forms
  <2> QED
    BY <2>1, <2>2, <2>3, <2>4, <2>5
<1>11. CASE Report
  <2>1. ToolTypeOK'
    BY <1>11, CodesOfChecks DEF Report, ToolTypeOK, Stages, Codes, Unprinted
  <2>2. RunShape'
    BY <1>11, CodesOfChecks DEF Report, RunShape, Calls
  <2>3. Progress'
    BY <1>11, CodesOfChecks DEF Report, Progress, RunShape, Bounded, Sound, Outsides, ShapeAndRules
  <2>4. AlwaysAVerdict'
    BY <1>11 DEF Report, AlwaysAVerdict, RunShape, Progress, Bounded, Sound, ToolTypeOK
  <2>5. Forms'
    <3>1. stage = "report" /\ UNCHANGED errors
      BY <1>11 DEF Report
    <3>2. CASE call = "canonicalize" /\ errors = {}
      <4>1. tool = "config"
        BY <3>1, <3>2 DEF RunShape
      <4>2. ShapeAndRules(input.doc) = {}
        BY <3>1, <3>2, <4>1 DEF Progress, ShapeAndRules
      <4>3. stdout' = [kind |-> "form", doc |-> Canonical(input.doc)]
        BY <1>11, <3>2 DEF Report
      <4>4. stdout'.doc = Canonical(input.doc)
        BY <4>3
      <4> QED
        BY <4>1, <4>2, <4>4 DEF Forms
    <3>3. CASE ~(call = "canonicalize" /\ errors = {})
      <4>1. stdout'.kind # "form"
        BY <1>11, <3>3 DEF Report
      <4> QED
        BY <4>1 DEF Forms
    <3> QED
      BY <3>2, <3>3
  <2> QED
    BY <2>1, <2>2, <2>3, <2>4, <2>5
<1> QED
  BY <1>1, <1>2, <1>3, <1>4, <1>5, <1>6, <1>7, <1>8, <1>9, <1>10, <1>11 DEF Run

(* The saved form, respelled, is a document with that form.                 *)
LEMMA RunAgainSteps ==
    ASSUME ToolInv, RunAgain
    PROVE  ToolInv'
<1>1. /\ tool = "config" /\ input.doc \in Configs /\ input \in [outside : Outsides, doc : Configs]
      /\ StructureErrors(input.doc) = {} /\ stdout.doc = Canonical(input.doc)
  BY DEF RunAgain, ToolInv, Forms, InputShape, ShapeAndRules
<1>2. PICK z \in Respelled(stdout.doc.zone),
           tag \in IF stdout.doc.tag = "standard" THEN {"standard", "other"} ELSE {"null"} :
              input' = [input EXCEPT !.doc = [stdout.doc EXCEPT !.zone = z, !.tag = tag]]
  BY DEF RunAgain
<1> DEFINE d == [stdout.doc EXCEPT !.zone = z, !.tag = tag]
<1>3. d \in Configs /\ Canonical(d) = stdout.doc
  BY <1>1, FormSettles, Zenon
<1>4. input' \in [outside : Outsides, doc : Configs] /\ input'.doc = d
  <2> HIDE DEF d
  <2>1. input' = [input EXCEPT !.doc = d]
    BY <1>2 DEF d
  <2> QED
    BY <1>1, <1>3, <2>1
<1> HIDE DEF d
<1>5. /\ tool' = "config" /\ stage' = "args" /\ errors' = {} /\ stdout' = Nothing
      /\ stderr' = Nothing /\ code' = Running /\ saved' = stdout.doc
      /\ call' \in {"validate", "canonicalize"}
  BY <1>1 DEF RunAgain
<1>6. ToolTypeOK'
  <2>1. rounds' \in 0..MaxRounds
    BY ToolAssumption DEF RunAgain, ToolInv, ToolTypeOK
  <2> QED
    BY <1>5, <2>1, Prints DEF ToolTypeOK, Tools, Calls, Stages, Running
<1>7. InputShape' /\ RunShape' /\ Progress' /\ AlwaysAVerdict'
  BY <1>4, <1>5 DEF InputShape, RunShape, Progress, AlwaysAVerdict
<1>8. Forms'
  <2>1. stdout'.kind # "form"
    BY <1>5 DEF Nothing
  <2> QED
    BY <1>3, <1>4, <1>5, <2>1 DEF Forms
<1> QED
  BY <1>6, <1>7, <1>8 DEF ToolInv

LEMMA ToolSteps ==
    ASSUME ToolInv, ToolNext \/ UNCHANGED toolVars
    PROVE  ToolInv'
<1>1. CASE ToolNext
  BY <1>1, RunSteps, RunAgainSteps DEF ToolNext
<1>2. CASE UNCHANGED toolVars
  BY <1>2 DEF ToolInv, ToolTypeOK, InputShape, RunShape, Progress, AlwaysAVerdict, Forms,
     toolVars, toolRun
<1> QED
  BY <1>1, <1>2

(* What the invariant says of the schema and of the canonical form.         *)
LEMMA ToolPromises ==
    ASSUME ToolInv
    PROVE  ToolTypeOK /\ AlwaysAVerdict /\ SchemaMatchesIngestion /\ CanonicalSettles
<1>1. SchemaMatchesIngestion
  <2>1. ASSUME tool = "config", stage = "report", Sound(input.outside)
        PROVE  (errors = {}) <=> /\ SchemaAccepts(input.doc) /\ ~WrittenAsFloat(input.doc)
                                 /\ HygieneErrors(input.doc) = {}
    <3>1. input.doc \in Configs
      BY <2>1, InputFacts
    <3>2. errors = ShapeAndRules(input.doc) \cup HygieneErrors(input.doc)
      BY <2>1 DEF ToolInv, Progress
    <3> QED
      BY <3>1, <3>2, SchemaIsTheRules
  <2>2. ASSUME stdout.kind = "form"
        PROVE  SchemaAccepts(stdout.doc)
    <3>1. tool = "config" /\ ShapeAndRules(input.doc) = {} /\ stdout.doc = Canonical(input.doc)
      BY <2>2 DEF ToolInv, Forms
    <3> QED
      BY <3>1, InputFacts, FormSatisfiesSchema
  <2> QED
    BY <2>1, <2>2 DEF SchemaMatchesIngestion, Sound, Bounded
<1>2. CanonicalSettles
  BY DEF ToolInv, Forms, CanonicalSettles
<1> QED
  BY <1>1, <1>2 DEF ToolInv
-----------------------------------------------------------------------------
(* The preflight.                                                           *)

Asking == {"sdk", "abilist", "abi", "packages", "home", "df", "date", "timezone"}
Ids == <<"adb-binary", "connection-state", "android-api", "abi", "package-state",
         "launcher-state", "storage", "clock-timezone">>
Outcomes ==
    {"adb-binary", "connection-state", "android-api", "abi", "package-state",
     "launcher-state", "storage", "clock-timezone"} \X {"pass", "fail", "skip"}

(* How many checks have been made when a step begins.                       *)
Made ==
    CASE step = "configure" -> 0
      [] step = "connect" -> 1
      [] step = "sdk" -> 2
      [] step \in {"abilist", "abi"} -> 3
      [] step = "packages" -> 4
      [] step = "home" -> 5
      [] step = "df" -> 6
      [] step \in {"date", "timezone"} -> 7
      [] OTHER -> 8

Passed(i) == i \in 1..Len(checks) /\ checks[i][2] = "pass"
AllPassed == \A i \in 1..Len(checks) : Passed(i)

(* The checks are made in the order of the report.                          *)
InOrder ==
    /\ checks \in Seq(Outcomes) /\ Len(checks) <= 8
    /\ \A i \in 1..Len(checks) : checks[i][1] = Ids[i]
    /\ step # "done" => Len(checks) = Made

(* The condition that a check of the report stands for.                     *)
Met(i, d) ==
    LET f == situation.facts[d]
    IN  /\ i = 3 => f.sdk
        /\ i = 4 => f.abilist = "good" \/ (f.abilist = "empty" /\ f.abi)
        /\ i = 6 => f.home
        /\ i = 7 => f.room
        /\ i = 8 => f.zone \/ Garbled("timezone")

(* One device answers: from the connection on the serial is fixed, and what *)
(* has passed are facts of the device with that serial.                     *)
OneDevice ==
    /\ answered \subseteq {serial} \cap Targets
    /\ step \in {"configure", "connect"} => answered = {}
    /\ step # "configure" /\ situation.target \in Targets => serial = situation.target
    /\ step # "configure" /\ serial \in Targets => situation.target \in {serial, Unset}
    /\ step \in Asking => serial # Nobody
    /\ step = "abi" => situation.facts[serial].abilist = "empty"
    /\ Passed(3) => serial \in Targets /\ answered = {serial}
    /\ \A i \in 3..8 : Passed(i) => Met(i, serial)

(* Every query takes up to the timeout, so the host's clock is that much    *)
(* ahead of its first reading; the clock of the device is read by then.     *)
OnTime ==
    /\ started <= clock
    /\ step \in {"configure", "connect"} => clock = started
    /\ step = "sdk" => clock <= started + Timeout
    /\ step = "abilist" => clock <= started + 2 * Timeout
    /\ step = "abi" => clock <= started + 3 * Timeout
    /\ step = "packages" => clock <= started + 4 * Timeout
    /\ step = "home" => clock <= started + 5 * Timeout
    /\ step = "df" => clock <= started + 6 * Timeout
    /\ step = "date" => clock <= started + 7 * Timeout
    /\ step = "timezone" \/ Passed(8) =>
          \E n \in 0..Slow : skewRead = n + situation.facts[serial].skew
    /\ Passed(8) => skewRead \in -SkewBound..SkewBound

(* There is a report and an exit code at the end, and only there.           *)
Reported ==
    /\ step # "done" => exit = -1 /\ report = NoReport
    /\ exit = 0 => Len(checks) = 8 /\ AllPassed /\ report.ok /\ report.of = serial

(* A device that meets every condition, asked for or alone.                 *)
Qualified(d) ==
    LET f == situation.facts[d]
    IN  /\ situation.target = d \/ (situation.target = Unset /\ Present = {d})
        /\ attached[d] = "device"
        /\ f.sdk /\ f.home /\ f.room /\ f.zone
        /\ f.abilist = "good" \/ (f.abilist = "empty" /\ f.abi)
        /\ -SkewBound <= f.skew /\ f.skew <= SkewBound - Slow

(* While nothing went wrong with a query, such a device has passed so far.  *)
Qualifies ==
    ~flawed /\ replugs = 0 /\ situation.adb =>
        \A d \in Targets : Qualified(d) =>
            /\ AllPassed
            /\ step \notin {"configure", "connect"} => serial = d
            /\ step = "timezone" => skewRead \in -SkewBound..SkewBound
            /\ step = "done" /\ situation.out # "broken" => exit = 0 /\ report.of = d

PreflightInv ==
    PreflightTypeOK /\ InOrder /\ OneDevice /\ OnTime /\ Reported /\ Qualifies

(* One more check is reported.                                              *)
LEMMA OneMore ==
    ASSUME InOrder, Len(checks) < 8, NEW id, id = Ids[Len(checks) + 1], NEW good \in BOOLEAN
    PROVE  LET more == Checked(id, good) IN
           /\ more \in Seq(Outcomes) /\ Len(more) = Len(checks) + 1
           /\ \A i \in 1..Len(more) : more[i][1] = Ids[i]
           /\ \A i \in 1..Len(checks) : more[i] = checks[i]
           /\ more[Len(checks) + 1][2] = IF good THEN "pass" ELSE "fail"
<1> DEFINE last == <<id, IF good THEN "pass" ELSE "fail">>
<1>1. last \in Outcomes /\ last[1] = id /\ last[2] = IF good THEN "pass" ELSE "fail"
  BY DEF InOrder, Ids, Outcomes
<1>2. Checked(id, good) = Append(checks, last)
  BY DEF Checked
<1> HIDE DEF last
<1>3. checks \in Seq(Outcomes) /\ Len(checks) \in Nat
  BY DEF InOrder
<1>4. /\ Append(checks, last) \in Seq(Outcomes)
      /\ Len(Append(checks, last)) = Len(checks) + 1
      /\ \A i \in 1..Len(checks) : Append(checks, last)[i] = checks[i]
      /\ Append(checks, last)[Len(checks) + 1] = last
  BY <1>1, <1>3
<1> QED
  BY <1>1, <1>2, <1>3, <1>4 DEF InOrder

(* What is skipped does not pass.                                           *)
LEMMA SkippedChecks ==
    /\ Skipped \in Seq(Outcomes) /\ Len(Skipped) = 6
    /\ \A i \in 1..6 : Skipped[i][1] = Ids[i + 2] /\ Skipped[i][2] = "skip"
<1>1. DOMAIN DeviceChecks = 1..6
  BY DEF DeviceChecks
<1>2. \A i \in 1..6 : Skipped[i] = <<DeviceChecks[i], "skip">>
  BY <1>1 DEF Skipped
<1>3. \A i \in 1..6 : DeviceChecks[i] = Ids[i + 2] /\ <<DeviceChecks[i], "skip">> \in Outcomes
  BY DEF DeviceChecks, Ids, Outcomes
<1>4. Skipped \in [1..6 -> Outcomes]
  BY <1>1, <1>2, <1>3 DEF Skipped
<1>5. Skipped \in Seq(Outcomes) /\ Len(Skipped) = 6
  <2>1. Skipped \in Seq(Outcomes)
    BY <1>4, SeqDef, Zenon
  <2>2. DOMAIN Skipped = 1..6 /\ DOMAIN Skipped = 1..Len(Skipped) /\ Len(Skipped) \in Nat
    BY <1>4, <2>1, LenProperties
  <2> QED
    BY <2>1, <2>2
<1> QED
  BY <1>2, <1>3, <1>5

(* After a connection that is not met the device checks are skipped.        *)
LEMMA RestSkipped ==
    ASSUME NEW c \in Seq(Outcomes), Len(c) = 2, \A i \in 1..2 : c[i][1] = Ids[i]
    PROVE  LET all == c \o Skipped IN
           /\ all \in Seq(Outcomes) /\ Len(all) = 8
           /\ \A i \in 1..8 : all[i][1] = Ids[i]
           /\ \A i \in 1..2 : all[i] = c[i]
           /\ \A i \in 3..8 : all[i][2] = "skip"
<1>1. /\ c \o Skipped \in Seq(Outcomes) /\ Len(c \o Skipped) = 8
      /\ \A i \in 1..2 : (c \o Skipped)[i] = c[i]
      /\ \A i \in 3..8 : (c \o Skipped)[i] = Skipped[i - 2]
  <2>1. Skipped \in Seq(Outcomes) /\ Len(Skipped) = 6
    BY SkippedChecks
  <2>2. /\ c \o Skipped \in Seq(Outcomes) /\ Len(c \o Skipped) = Len(c) + Len(Skipped)
        /\ \A i \in 1..(Len(c) + Len(Skipped)) :
              (c \o Skipped)[i] = IF i <= Len(c) THEN c[i] ELSE Skipped[i - Len(c)]
    BY <2>1, ConcatProperties, Zenon
  <2>3. Len(c) = 2 /\ Len(Skipped) = 6
    BY <2>1
  <2> QED
    BY <2>2, <2>3
<1>2. ASSUME NEW i \in 3..8
      PROVE  Skipped[i - 2][1] = Ids[i] /\ Skipped[i - 2][2] = "skip"
  <2>1. i - 2 \in 1..6 /\ (i - 2) + 2 = i
    OBVIOUS
  <2> QED
    BY <2>1, SkippedChecks
<1>3. ASSUME NEW i \in 1..8
      PROVE  (c \o Skipped)[i][1] = Ids[i]
  <2>1. CASE i \in 1..2
    BY <1>1, <2>1
  <2>2. CASE i \in 3..8
    BY <1>1, <1>2, <2>2
  <2>3. i \in 1..2 \/ i \in 3..8
    OBVIOUS
  <2> QED
    BY <2>1, <2>2, <2>3, Zenon
<1>4. \A i \in 3..8 : (c \o Skipped)[i][2] = "skip"
  BY <1>1, <1>2
<1> QED
  BY <1>1, <1>3, <1>4

(* What a step that reports one more check leaves as it was, and what it    *)
(* adds.                                                                    *)
LEMMA OneMorePassed ==
    ASSUME InOrder, Len(checks) < 8, NEW id, id = Ids[Len(checks) + 1], NEW good \in BOOLEAN,
           checks' = Checked(id, good)
    PROVE  /\ checks' \in Seq(Outcomes) /\ Len(checks') = Len(checks) + 1
           /\ \A i \in 1..Len(checks') : checks'[i][1] = Ids[i]
           /\ \A i \in 1..8 : Passed(i)' <=> (Passed(i) \/ (i = Len(checks) + 1 /\ good))
           /\ AllPassed' <=> AllPassed /\ good
<1>1. /\ checks' \in Seq(Outcomes) /\ Len(checks') = Len(checks) + 1
      /\ \A i \in 1..Len(checks') : checks'[i][1] = Ids[i]
      /\ \A i \in 1..Len(checks) : checks'[i] = checks[i]
      /\ checks'[Len(checks) + 1][2] = IF good THEN "pass" ELSE "fail"
  BY OneMore
<1>2. Len(checks) \in Nat
  BY DEF InOrder
<1>3. ASSUME NEW i \in 1..8
      PROVE  Passed(i)' <=> (Passed(i) \/ (i = Len(checks) + 1 /\ good))
  BY <1>1, <1>2 DEF Passed
<1>4. AllPassed' <=> AllPassed /\ good
  <2>1. ASSUME AllPassed' PROVE AllPassed /\ good
    <3>1. \A i \in 1..Len(checks) + 1 : i \in 1..8
      BY <1>2
    <3> QED
      BY <1>1, <1>2, <1>3, <2>1, <3>1 DEF AllPassed, Passed
  <2>2. ASSUME AllPassed, good PROVE AllPassed'
    <3>1. \A i \in 1..Len(checks') : i \in 1..8 /\ (i \in 1..Len(checks) \/ i = Len(checks) + 1)
      BY <1>1, <1>2
    <3> QED
      BY <1>3, <2>2, <3>1 DEF AllPassed
  <2> QED
    BY <2>1, <2>2
<1> QED
  BY <1>1, <1>3, <1>4

(* A connection that is not met is reported with everything else skipped.   *)
LEMMA RestNotPassed ==
    ASSUME NEW c \in Seq(Outcomes), Len(c) = 2, \A i \in 1..2 : c[i][1] = Ids[i],
           c[2][2] # "pass", checks' = c \o Skipped
    PROVE  /\ checks' \in Seq(Outcomes) /\ Len(checks') = 8
           /\ \A i \in 1..8 : checks'[i][1] = Ids[i]
           /\ \A i \in 2..8 : ~Passed(i)'
           /\ ~AllPassed'
<1>1. /\ checks' \in Seq(Outcomes) /\ Len(checks') = 8
      /\ \A i \in 1..8 : checks'[i][1] = Ids[i]
      /\ \A i \in 1..2 : checks'[i] = c[i]
      /\ \A i \in 3..8 : checks'[i][2] = "skip"
  BY RestSkipped
<1>2. \A i \in 2..8 : checks'[i][2] # "pass"
  <2>1. \A i \in 2..8 : i = 2 \/ i \in 3..8
    OBVIOUS
  <2>2. checks'[2] = c[2]
    BY <1>1
  <2>3. \A i \in 3..8 : checks'[i][2] # "pass"
    BY <1>1
  <2> QED
    BY <2>1, <2>2, <2>3, Zenon
<1>3. \A i \in 2..8 : ~Passed(i)'
  BY <1>2 DEF Passed
<1>4. ~AllPassed'
  <2>1. 2 \in 1..Len(checks') /\ ~Passed(2)'
    BY <1>1, <1>3
  <2> QED
    BY <2>1 DEF AllPassed
<1> QED
  BY <1>1, <1>3, <1>4

(* Where there is a serial, only the device that has it can answer.         *)
LEMMA AskFacts ==
    ASSUME PreflightInv, step \in Asking \/ serial # Nobody, NEW q, NEW by, Ask(q, by)
    PROVE  /\ by = Nobody \/ (by = serial /\ serial \in Targets /\ by # Nobody)
           /\ by # Nobody => answered' = {serial}
           /\ by = Nobody => answered' = answered
           /\ clock' \in Nat /\ clock <= clock' /\ clock' <= clock + Timeout
           /\ clock' \in clock..(clock + Timeout)
           /\ faults' \in 0..MaxFaults /\ flawed' \in BOOLEAN
           /\ flawed' <=> (flawed \/ by = Nobody \/ Garbled(q))
           /\ UNCHANGED <<situation, attached, replugs, started, report, exit>>
<1>1. serial # Nobody /\ answered \subseteq {serial} \cap Targets /\ PreflightTypeOK
  BY DEF PreflightInv, OneDevice
<1>2. by \in Answering \cup {Nobody} /\ Answering \subseteq {serial} \cap Targets
  BY <1>1 DEF Ask, Query, Answering, Addressed
<1>3. Nobody \notin Targets /\ Timeout \in Nat /\ MaxFaults \in Nat
  BY PreflightAssumption
<1>4. answered' = answered \cup ({by} \ {Nobody})
  BY DEF Ask
<1>5. clock' \in clock..(clock + Timeout) /\ clock \in Nat
  BY <1>1 DEF Ask, Query, PreflightTypeOK
<1>6. faults' \in 0..MaxFaults
  <2>1. faults \in 0..MaxFaults /\ faults' <= MaxFaults
    BY <1>1 DEF Ask, Query, PreflightTypeOK
  <2>2. faults' = faults \/ faults' = faults + 1
    BY <2>1 DEF Ask, Query
  <2> QED
    BY <1>3, <2>1, <2>2
<1>7. flawed' \in BOOLEAN /\ (flawed' <=> (flawed \/ by = Nobody \/ Garbled(q)))
  BY DEF Ask, Query
<1>8. UNCHANGED <<situation, attached, replugs, started, report, exit>>
  BY DEF Ask, Query
<1> QED
  BY <1>1, <1>2, <1>3, <1>4, <1>5, <1>6, <1>7, <1>8

(* An answer of a qualified device that is read as it is passes its check.  *)
Convinces(q, by, good) ==
    \A d \in Targets : by = d /\ Qualified(d) /\ ~Garbled(q)
        /\ (step = "timezone" => skewRead \in -SkewBound..SkewBound) => good

(* A query whose check passes only when the serial's device meets it.       *)
LEMMA CheckSteps ==
    ASSUME PreflightInv, step \in Asking, NEW q, NEW by, NEW id, NEW good \in BOOLEAN,
           Ask(q, by), checks' = Checked(id, good), UNCHANGED <<redacted, serial, skewRead>>,
           id = Ids[Len(checks) + 1], 2 <= Len(checks), Len(checks) < 8,
           step' \in {"abilist", "packages", "home", "df", "date", "report"},
           step' # "report" => Made' = Len(checks) + 1, step' = "report" => Len(checks) = 7,
           good => by # Nobody /\ Met(Len(checks) + 1, by),
           Convinces(q, by, good)
    PROVE  PreflightTypeOK' /\ InOrder' /\ OneDevice' /\ Reported' /\ Qualifies'
<1>1. /\ checks' \in Seq(Outcomes) /\ Len(checks') = Len(checks) + 1
      /\ \A i \in 1..Len(checks') : checks'[i][1] = Ids[i]
      /\ \A i \in 1..8 : Passed(i)' <=> (Passed(i) \/ (i = Len(checks) + 1 /\ good))
      /\ AllPassed' <=> AllPassed /\ good
  <2>1. InOrder
    BY DEF PreflightInv
  <2> QED
    BY <2>1, OneMorePassed
<1>2. /\ by = Nobody \/ (by = serial /\ serial \in Targets /\ by # Nobody)
      /\ by # Nobody => answered' = {serial}
      /\ by = Nobody => answered' = answered
      /\ clock' \in Nat
      /\ faults' \in 0..MaxFaults /\ flawed' \in BOOLEAN
      /\ flawed' <=> (flawed \/ by = Nobody \/ Garbled(q))
      /\ UNCHANGED <<situation, attached, replugs, started, report, exit>>
  BY AskFacts
<1>3. PreflightTypeOK /\ step # "done" /\ exit = -1 /\ report = NoReport
  BY DEF PreflightInv, Reported, Asking
<1>4. PreflightTypeOK'
  <2>1. answered' \subseteq Targets
    BY <1>2, <1>3 DEF PreflightTypeOK
  <2> QED
    BY <1>2, <1>3, <2>1 DEF PreflightTypeOK, Steps
<1>5. InOrder'
  <2>1. step' # "done" => Len(checks') = Made'
    <3>1. step' = "report" => Made' = 8
      BY DEF Made
    <3>2. Len(checks') = Len(checks) + 1
      BY <1>1
    <3>3. CASE step' = "report"
      <4>1. Len(checks) = 7
        BY <3>3
      <4>2. Len(checks') = 8
        BY <3>2, <4>1
      <4> QED
        BY <3>1, <3>3, <4>2
    <3>4. CASE step' # "report"
      BY <3>2, <3>4
    <3> QED
      BY <3>3, <3>4
  <2>2. Len(checks) \in Nat /\ Len(checks') <= 8
    BY <1>1 DEF PreflightInv, InOrder
  <2> QED
    BY <1>1, <2>1, <2>2 DEF InOrder
<1>6. Reported'
  BY <1>2, <1>3 DEF Reported
<1>7. \A i \in 3..8 : Met(i, serial)' <=> Met(i, serial)
  BY <1>2 DEF Met, Garbled
<1>8. OneDevice'
  <2>1. OneDevice
    BY DEF PreflightInv
  <2>2. answered' \subseteq {serial} \cap Targets
    BY <1>2, <2>1 DEF OneDevice
  <2>3. Passed(3)' => serial \in Targets /\ answered' = {serial}
    <3>1. Passed(3)' => Passed(3) \/ by # Nobody
      BY <1>1
    <3>2. Passed(3) => answered' = {serial} /\ serial \in Targets
      BY <1>2, <2>1 DEF OneDevice
    <3> QED
      BY <1>2, <3>1, <3>2
  <2>4. \A i \in 3..8 : Passed(i)' => Met(i, serial)
    <3> SUFFICES ASSUME NEW i \in 3..8, Passed(i)' PROVE Met(i, serial)
      OBVIOUS
    <3>1. Passed(i) \/ (i = Len(checks) + 1 /\ good)
      BY <1>1
    <3>2. CASE Passed(i)
      BY <2>1, <3>2 DEF OneDevice
    <3>3. CASE i = Len(checks) + 1 /\ good
      BY <1>2, <3>3
    <3> QED
      BY <3>1, <3>2, <3>3
  <2>5. step' # "abi" /\ step' \notin {"configure", "connect"} /\ step # "configure"
    BY DEF Asking
  <2>6. serial # Nobody
    BY <2>1 DEF OneDevice
  <2>7. /\ situation.target \in Targets => serial = situation.target
        /\ serial \in Targets => situation.target \in {serial, Unset}
    BY <2>1, <2>5 DEF OneDevice
  <2>8. \A i \in 3..8 : Passed(i)' => Met(i, serial)'
    BY <1>7, <2>4
  <2> QED
    BY <1>2, <2>2, <2>3, <2>5, <2>6, <2>7, <2>8 DEF OneDevice
<1>9. Qualifies'
  <2> SUFFICES ASSUME ~flawed', replugs' = 0, situation'.adb, NEW d \in Targets, Qualified(d)'
               PROVE  AllPassed' /\ serial' = d
    BY DEF Qualifies
  <2>1. ~flawed /\ by # Nobody /\ ~Garbled(q) /\ replugs = 0 /\ situation.adb /\ Qualified(d)
    BY <1>2 DEF Qualified, Present
  <2>2. /\ AllPassed /\ serial = d
        /\ step = "timezone" => skewRead \in -SkewBound..SkewBound
    BY <2>1 DEF PreflightInv, Qualifies, Asking
  <2>3. good
    BY <1>2, <2>1, <2>2 DEF Convinces
  <2> QED
    BY <1>1, <2>2, <2>3
<1> QED
  BY <1>4, <1>5, <1>6, <1>8, <1>9

(* Each of the checks before the clock's takes one query.                   *)
Follows ==
    \/ step = "sdk" /\ step' = "abilist"
    \/ step \in {"abilist", "abi"} /\ step' = "packages"
    \/ step = "packages" /\ step' = "home"
    \/ step = "home" /\ step' = "df"
    \/ step = "df" /\ step' = "date"

LEMMA EarlyCheck ==
    ASSUME PreflightInv, NEW q, NEW by, NEW id, NEW good \in BOOLEAN, Follows,
           Ask(q, by), checks' = Checked(id, good), UNCHANGED <<redacted, serial, skewRead>>,
           id = Ids[Made + 1],
           good => by # Nobody /\ Met(Made + 1, by),
           \A d \in Targets : by = d /\ Qualified(d) /\ ~Garbled(q) => good
    PROVE  PreflightInv'
<1>1. /\ step \in Asking /\ step \notin {"done", "date", "timezone"}
      /\ step' \in {"abilist", "packages", "home", "df", "date"}
      /\ Made' = Made + 1 /\ Made \in 2..6
  BY DEF Follows, Asking, Made
<1>2. Len(checks) = Made /\ 2 <= Len(checks) /\ Len(checks) < 7 /\ Len(checks) \in Nat
  <2>1. Len(checks) = Made
    BY <1>1 DEF PreflightInv, InOrder
  <2>2. 2 <= Made /\ Made < 7 /\ Made \in Nat
    BY <1>1
  <2> QED
    BY <2>1, <2>2
<1>3. Convinces(q, by, good)
  BY DEF Convinces
<1>4. PreflightTypeOK' /\ InOrder' /\ OneDevice' /\ Reported' /\ Qualifies'
  BY <1>1, <1>2, <1>3, CheckSteps
<1>5. OnTime'
  <2>1. ~Passed(8)'
    <3>1. Len(checks') = Len(checks) + 1
      BY <1>2, OneMorePassed DEF PreflightInv
    <3> QED
      BY <1>2, <3>1 DEF Passed
  <2>2. /\ clock' \in Nat /\ clock <= clock' /\ clock' <= clock + Timeout
        /\ started' = started
    BY <1>1, AskFacts
  <2>3. clock \in Nat /\ started \in Nat /\ Timeout \in Nat
    BY PreflightAssumption DEF PreflightInv, PreflightTypeOK
  <2>4. OnTime
    BY DEF PreflightInv
  <2> QED
    BY <2>1, <2>2, <2>3, <2>4 DEF OnTime, Follows
<1> QED
  BY <1>4, <1>5 DEF PreflightInv

(* A garbled answer can fail a check that it would pass, and not pass one.  *)
LEMMA ReadsFacts ==
    ASSUME NEW q, NEW fact \in BOOLEAN, NEW good \in Reads(q, fact)
    PROVE  good \in BOOLEAN /\ (good => fact) /\ (~Garbled(q) /\ fact => good)
  BY DEF Reads

LEMMA ApiSteps ==
    ASSUME PreflightInv, CheckApi
    PROVE  PreflightInv'
<1> DEFINE fit == {d \in Targets : situation.facts[d].sdk}
<1>1. PICK by \in Targets \cup {Nobody} :
          /\ Ask("sdk", by)
          /\ \E good \in Reads("sdk", by \in fit) : checks' = Checked("android-api", good)
  BY DEF CheckApi, Check
<1>2. PICK good \in Reads("sdk", by \in fit) : checks' = Checked("android-api", good)
  BY <1>1
<1>3. good \in BOOLEAN /\ (good => by \in fit) /\ (~Garbled("sdk") /\ by \in fit => good)
  <2> DEFINE fact == by \in fit
  <2>1. fact \in BOOLEAN /\ good \in Reads("sdk", fact)
    OBVIOUS
  <2> HIDE DEF fact
  <2>2. good \in BOOLEAN /\ (good => fact) /\ (~Garbled("sdk") /\ fact => good)
    BY <2>1, ReadsFacts
  <2> QED
    BY <2>2 DEF fact
<1>4. step = "sdk" /\ step' = "abilist" /\ UNCHANGED <<redacted, serial, skewRead>>
  BY DEF CheckApi, Check
<1>5. Made = 2 /\ "android-api" = Ids[Made + 1] /\ Made + 1 = 3
  BY <1>4 DEF Made, Ids
<1>6. good => by # Nobody /\ Met(Made + 1, by)
  BY <1>3, <1>5, PreflightAssumption DEF Met
<1>7. \A d \in Targets : by = d /\ Qualified(d) /\ ~Garbled("sdk") => good
  BY <1>3 DEF Qualified
<1>8. Follows
  BY <1>4 DEF Follows
<1> QED
  BY <1>1, <1>2, <1>3, <1>4, <1>5, <1>6, <1>7, <1>8, EarlyCheck

LEMMA LauncherSteps ==
    ASSUME PreflightInv, CheckLauncher
    PROVE  PreflightInv'
<1> DEFINE fit == {d \in Targets : situation.facts[d].home}
<1>1. PICK by \in Targets \cup {Nobody} :
          /\ Ask("home", by)
          /\ \E good \in Reads("home", by \in fit) : checks' = Checked("launcher-state", good)
  BY DEF CheckLauncher, Check
<1>2. PICK good \in Reads("home", by \in fit) : checks' = Checked("launcher-state", good)
  BY <1>1
<1>3. good \in BOOLEAN /\ (good => by \in fit) /\ (~Garbled("home") /\ by \in fit => good)
  <2> DEFINE fact == by \in fit
  <2>1. fact \in BOOLEAN /\ good \in Reads("home", fact)
    OBVIOUS
  <2> HIDE DEF fact
  <2>2. good \in BOOLEAN /\ (good => fact) /\ (~Garbled("home") /\ fact => good)
    BY <2>1, ReadsFacts
  <2> QED
    BY <2>2 DEF fact
<1>4. step = "home" /\ step' = "df" /\ UNCHANGED <<redacted, serial, skewRead>>
  BY DEF CheckLauncher, Check
<1>5. Made = 5 /\ "launcher-state" = Ids[Made + 1] /\ Made + 1 = 6
  BY <1>4 DEF Made, Ids
<1>6. good => by # Nobody /\ Met(Made + 1, by)
  BY <1>3, <1>5, PreflightAssumption DEF Met
<1>7. \A d \in Targets : by = d /\ Qualified(d) /\ ~Garbled("home") => good
  BY <1>3 DEF Qualified
<1>8. Follows
  BY <1>4 DEF Follows
<1> QED
  BY <1>1, <1>2, <1>3, <1>4, <1>5, <1>6, <1>7, <1>8, EarlyCheck

LEMMA StorageSteps ==
    ASSUME PreflightInv, CheckStorage
    PROVE  PreflightInv'
<1> DEFINE fit == {d \in Targets : situation.facts[d].room}
<1>1. PICK by \in Targets \cup {Nobody} :
          /\ Ask("df", by)
          /\ \E good \in Reads("df", by \in fit) : checks' = Checked("storage", good)
  BY DEF CheckStorage, Check
<1>2. PICK good \in Reads("df", by \in fit) : checks' = Checked("storage", good)
  BY <1>1
<1>3. good \in BOOLEAN /\ (good => by \in fit) /\ (~Garbled("df") /\ by \in fit => good)
  <2> DEFINE fact == by \in fit
  <2>1. fact \in BOOLEAN /\ good \in Reads("df", fact)
    OBVIOUS
  <2> HIDE DEF fact
  <2>2. good \in BOOLEAN /\ (good => fact) /\ (~Garbled("df") /\ fact => good)
    BY <2>1, ReadsFacts
  <2> QED
    BY <2>2 DEF fact
<1>4. step = "df" /\ step' = "date" /\ UNCHANGED <<redacted, serial, skewRead>>
  BY DEF CheckStorage, Check
<1>5. Made = 6 /\ "storage" = Ids[Made + 1] /\ Made + 1 = 7
  BY <1>4 DEF Made, Ids
<1>6. good => by # Nobody /\ Met(Made + 1, by)
  BY <1>3, <1>5, PreflightAssumption DEF Met
<1>7. \A d \in Targets : by = d /\ Qualified(d) /\ ~Garbled("df") => good
  BY <1>3 DEF Qualified
<1>8. Follows
  BY <1>4 DEF Follows
<1> QED
  BY <1>1, <1>2, <1>3, <1>4, <1>5, <1>6, <1>7, <1>8, EarlyCheck

LEMMA PackageSteps ==
    ASSUME PreflightInv, CheckPackage
    PROVE  PreflightInv'
<1>1. PICK by \in Targets \cup {Nobody} :
          Ask("packages", by) /\ checks' = Checked("package-state", by # Nobody)
  BY DEF CheckPackage
<1>2. step = "packages" /\ step' = "home" /\ UNCHANGED <<redacted, serial, skewRead>>
  BY DEF CheckPackage
<1>3. Made = 4 /\ "package-state" = Ids[Made + 1] /\ Made + 1 = 5
  BY <1>2 DEF Made, Ids
<1> DEFINE good == by # Nobody
<1>4. good \in BOOLEAN /\ (good => by # Nobody /\ Met(Made + 1, by))
  BY <1>3 DEF Met
<1>5. \A d \in Targets : by = d /\ Qualified(d) /\ ~Garbled("packages") => good
  BY PreflightAssumption
<1>6. Follows
  BY <1>2 DEF Follows
<1>7. checks' = Checked("package-state", good)
  BY <1>1
<1> HIDE DEF good
<1> QED
  BY <1>1, <1>2, <1>3, <1>4, <1>5, <1>6, <1>7, EarlyCheck

(* An empty list of ABIs asks the same device for the older property.       *)
LEMMA AbiSteps ==
    ASSUME PreflightInv, CheckAbi
    PROVE  PreflightInv'
<1>1. CASE Check("abi", "abi", {d \in Targets : situation.facts[d].abi}, "packages")
  <2> DEFINE fit == {d \in Targets : situation.facts[d].abi}
  <2>1. PICK by \in Targets \cup {Nobody} :
            /\ Ask("abi", by)
            /\ \E good \in Reads("abi", by \in fit) : checks' = Checked("abi", good)
    BY <1>1 DEF Check
  <2>2. PICK good \in Reads("abi", by \in fit) : checks' = Checked("abi", good)
    BY <2>1
  <2>3. good \in BOOLEAN /\ (good => by \in fit) /\ (~Garbled("abi") /\ by \in fit => good)
    <3> DEFINE fact == by \in fit
    <3>1. fact \in BOOLEAN /\ good \in Reads("abi", fact)
      OBVIOUS
    <3> HIDE DEF fact
    <3>2. good \in BOOLEAN /\ (good => fact) /\ (~Garbled("abi") /\ fact => good)
      BY <3>1, ReadsFacts
    <3> QED
      BY <3>2 DEF fact
  <2>4. step = "abi" /\ step' = "packages" /\ UNCHANGED <<redacted, serial, skewRead>>
    BY <1>1 DEF Check
  <2>5. Made = 3 /\ "abi" = Ids[Made + 1] /\ Made + 1 = 4
    BY <2>4 DEF Made, Ids
  <2>6. by = Nobody \/ by = serial
    BY <2>1, <2>4, AskFacts DEF Asking
  <2>7. situation.facts[serial].abilist = "empty"
    BY <2>4 DEF PreflightInv, OneDevice
  <2>8. good => by # Nobody /\ Met(Made + 1, by)
    BY <2>3, <2>5, <2>6, <2>7, PreflightAssumption DEF Met
  <2>9. \A d \in Targets : by = d /\ Qualified(d) /\ ~Garbled("abi") => good
    <3> SUFFICES ASSUME by \in Targets, Qualified(by), ~Garbled("abi") PROVE good
      OBVIOUS
    <3>1. by = serial
      BY <2>6, PreflightAssumption
    <3>2. situation.facts[by].abi
      BY <2>7, <3>1 DEF Qualified
    <3> QED
      BY <2>3, <3>2
  <2>10. Follows
    BY <2>4 DEF Follows
  <2> QED
    BY <2>1, <2>2, <2>3, <2>4, <2>5, <2>8, <2>9, <2>10, EarlyCheck
<1>2. CASE step = "abilist"
  <2>1. PICK by \in Targets \cup {Nobody} :
            /\ Ask("abilist", by)
            /\ IF by # Nobody /\ situation.facts[by].abilist = "empty"
               THEN step' = "abi" /\ UNCHANGED checks
               ELSE /\ \E good \in Reads("abilist",
                             by # Nobody /\ situation.facts[by].abilist = "good") :
                          checks' = Checked("abi", good)
                    /\ step' = "packages"
    BY <1>2 DEF CheckAbi, Check
  <2>2. UNCHANGED <<redacted, serial, skewRead>>
    BY <1>2 DEF CheckAbi, Check
  <2>3. CASE ~(by # Nobody /\ situation.facts[by].abilist = "empty")
    <3>1. PICK good \in Reads("abilist", by # Nobody /\ situation.facts[by].abilist = "good") :
              checks' = Checked("abi", good)
      BY <2>1, <2>3
    <3>2. step' = "packages"
      BY <2>1, <2>3
    <3>3. /\ good \in BOOLEAN
          /\ good => by # Nobody /\ situation.facts[by].abilist = "good"
          /\ ~Garbled("abilist") =>
                good = (by # Nobody /\ situation.facts[by].abilist = "good")
      BY <3>1 DEF Reads
    <3>4. Made = 3 /\ "abi" = Ids[Made + 1] /\ Made + 1 = 4
      BY <1>2 DEF Made, Ids
    <3>5. good => by # Nobody /\ Met(Made + 1, by)
      BY <3>3, <3>4 DEF Met
    <3>6. \A d \in Targets : by = d /\ Qualified(d) /\ ~Garbled("abilist") => good
      BY <2>3, <3>3, PreflightAssumption DEF Qualified
    <3>7. Follows
      BY <1>2, <3>2 DEF Follows
    <3> QED
      BY <2>1, <2>2, <3>1, <3>3, <3>4, <3>5, <3>6, <3>7, EarlyCheck
  <2>4. CASE by # Nobody /\ situation.facts[by].abilist = "empty"
    <3>1. step' = "abi" /\ UNCHANGED <<checks, redacted, serial, skewRead>>
      BY <2>1, <2>2, <2>4
    <3>2. /\ by = serial /\ serial \in Targets /\ answered' = {serial}
          /\ clock' \in Nat /\ clock <= clock' /\ clock' <= clock + Timeout
          /\ faults' \in 0..MaxFaults /\ flawed' \in BOOLEAN
          /\ flawed' <=> (flawed \/ by = Nobody \/ Garbled("abilist"))
          /\ UNCHANGED <<situation, attached, replugs, started, report, exit>>
      BY <1>2, <2>1, <2>4, AskFacts DEF Asking
    <3>3. PreflightTypeOK'
      BY <3>1, <3>2 DEF PreflightInv, PreflightTypeOK, Steps
    <3>4. InOrder' /\ Reported'
      <4>1. Made = 3 /\ Made' = 3
        BY <1>2, <3>1 DEF Made
      <4> QED
        BY <1>2, <3>1, <3>2, <4>1 DEF PreflightInv, InOrder, Reported
    <3>5. OneDevice'
      <4>1. \A i \in 3..8 : (Met(i, serial)' <=> Met(i, serial)) /\ (Passed(i)' <=> Passed(i))
        BY <3>1, <3>2 DEF Met, Garbled, Passed
      <4>2. Passed(3)' <=> Passed(3)
        BY <3>1 DEF Passed
      <4> QED
        BY <1>2, <2>4, <3>1, <3>2, <4>1, <4>2 DEF PreflightInv, OneDevice, Asking
    <3>6. OnTime'
      <4>1. Passed(8)' <=> Passed(8)
        BY <3>1 DEF Passed
      <4>2. clock \in Nat /\ started \in Nat /\ Timeout \in Nat
        BY PreflightAssumption DEF PreflightInv, PreflightTypeOK
      <4> QED
        BY <1>2, <3>1, <3>2, <4>1, <4>2 DEF PreflightInv, OnTime
    <3>7. Qualifies'
      <4>1. \A d : Qualified(d)' <=> Qualified(d)
        BY <3>2 DEF Qualified, Present
      <4>2. AllPassed' <=> AllPassed
        BY <3>1 DEF AllPassed, Passed
      <4> QED
        BY <1>2, <3>1, <3>2, <4>1, <4>2 DEF PreflightInv, Qualifies
    <3> QED
      BY <3>3, <3>4, <3>5, <3>6, <3>7 DEF PreflightInv
  <2> QED
    BY <2>3, <2>4
<1> QED
  BY <1>1, <1>2 DEF CheckAbi

(* The clock of the device is read within eight queries of the host's.      *)
LEMMA EpochSteps ==
    ASSUME PreflightInv, ReadEpoch
    PROVE  PreflightInv'
<1>1. step = "date" /\ UNCHANGED <<redacted, serial>>
  BY DEF ReadEpoch
<1>2. PICK by \in Targets \cup {Nobody} :
          /\ Ask("date", by)
          /\ \E good \in Reads("date", by # Nobody) :
                IF good
                THEN /\ \E now \in clock..clock' :
                           skewRead' = now + situation.facts[by].skew - started
                     /\ step' = "timezone" /\ UNCHANGED checks
                ELSE /\ checks' = Checked("clock-timezone", FALSE)
                     /\ step' = "report" /\ UNCHANGED skewRead
  BY DEF ReadEpoch
<1>3. PICK good \in Reads("date", by # Nobody) :
          IF good
          THEN /\ \E now \in clock..clock' :
                     skewRead' = now + situation.facts[by].skew - started
               /\ step' = "timezone" /\ UNCHANGED checks
          ELSE /\ checks' = Checked("clock-timezone", FALSE)
               /\ step' = "report" /\ UNCHANGED skewRead
  BY <1>2
<1>4. (good => by # Nobody) /\ (~Garbled("date") /\ by # Nobody => good)
  BY <1>3 DEF Reads
<1>5. /\ by = Nobody \/ (by = serial /\ serial \in Targets /\ by # Nobody)
      /\ by # Nobody => answered' = {serial}
      /\ clock' \in Nat /\ clock <= clock' /\ clock' <= clock + Timeout
      /\ faults' \in 0..MaxFaults /\ flawed' \in BOOLEAN
      /\ flawed' <=> (flawed \/ by = Nobody \/ Garbled("date"))
      /\ UNCHANGED <<situation, attached, replugs, started, report, exit>>
  BY <1>1, <1>2, AskFacts DEF Asking
<1>6. Len(checks) = 7 /\ Made = 7 /\ ~Passed(8)
  <2>1. Made = 7
    BY <1>1 DEF Made
  <2>2. Len(checks) = 7
    BY <1>1, <2>1 DEF PreflightInv, InOrder
  <2> QED
    BY <2>1, <2>2 DEF Passed
<1>7. clock \in Nat /\ started \in Nat /\ Timeout \in Nat /\ SkewBound \in Nat
  BY PreflightAssumption DEF PreflightInv, PreflightTypeOK
<1>8. started <= clock /\ clock <= started + 7 * Timeout
  BY <1>1 DEF PreflightInv, OnTime
<1>9. CASE good
  <2>1. PICK now \in clock..clock' : skewRead' = now + situation.facts[serial].skew - started
    BY <1>3, <1>4, <1>5, <1>9
  <2>2. step' = "timezone" /\ UNCHANGED checks
    BY <1>3, <1>9
  <2>3. serial \in Targets /\ answered' = {serial}
    BY <1>4, <1>5, <1>9
  <2>4. situation.facts[serial].skew \in Int
    BY <2>3, PreflightAssumption DEF PreflightInv, PreflightTypeOK, Facts
  <2> DEFINE n == now - started
  <2>5. n \in 0..Slow /\ skewRead' = n + situation.facts[serial].skew /\ skewRead' \in Int
    BY <1>5, <1>7, <1>8, <2>1, <2>4 DEF Slow
  <2> HIDE DEF n
  <2>6. PreflightTypeOK'
    BY <1>1, <1>5, <2>2, <2>3, <2>5 DEF PreflightInv, PreflightTypeOK, Steps
  <2>7. InOrder' /\ Reported'
    <3>1. Made' = 7
      BY <2>2 DEF Made
    <3>2. Len(checks') = 7
      BY <1>6, <2>2
    <3>3. InOrder'
      BY <2>2, <3>1, <3>2 DEF PreflightInv, InOrder
    <3>4. Reported'
      BY <1>1, <1>5, <2>2 DEF PreflightInv, Reported
    <3> QED
      BY <3>3, <3>4
  <2>8. OneDevice'
    <3>1. \A i \in 3..8 : (Met(i, serial)' <=> Met(i, serial)) /\ (Passed(i)' <=> Passed(i))
      BY <1>1, <1>5, <2>2 DEF Met, Garbled, Passed
    <3>2. Passed(3)' <=> Passed(3)
      BY <2>2 DEF Passed
    <3> QED
      BY <1>1, <1>5, <2>2, <2>3, <3>1, <3>2 DEF PreflightInv, OneDevice, Asking
  <2>9. OnTime'
    <3>1. ~Passed(8)'
      BY <1>6, <2>2 DEF Passed
    <3>2. \E m \in (0..Slow)' : skewRead' = m + situation'.facts[serial'].skew
      BY <1>1, <1>5, <2>5 DEF Slow
    <3> QED
      BY <1>5, <1>7, <1>8, <2>2, <3>1, <3>2 DEF OnTime
  <2>10. Qualifies'
    <3> SUFFICES ASSUME ~flawed', replugs' = 0, situation'.adb, NEW d \in Targets, Qualified(d)'
                 PROVE  AllPassed' /\ serial' = d /\ skewRead' \in -SkewBound..SkewBound
      BY <2>2 DEF Qualifies
    <3>1. ~flawed /\ replugs = 0 /\ situation.adb /\ Qualified(d)
      BY <1>5 DEF Qualified, Present
    <3>2. AllPassed /\ serial = d
      BY <1>1, <3>1 DEF PreflightInv, Qualifies
    <3>3. AllPassed'
      BY <2>2, <3>2 DEF AllPassed, Passed
    <3>4. /\ -SkewBound <= situation.facts[serial].skew
          /\ situation.facts[serial].skew <= SkewBound - Slow
      BY <3>1, <3>2 DEF Qualified
    <3>5. skewRead' \in -SkewBound..SkewBound
      BY <1>7, <2>4, <2>5, <3>4 DEF Slow
    <3> QED
      BY <1>1, <3>2, <3>3, <3>5
  <2> QED
    BY <2>6, <2>7, <2>8, <2>9, <2>10 DEF PreflightInv
<1>10. CASE ~good
  <2>1. checks' = Checked("clock-timezone", FALSE) /\ step' = "report" /\ UNCHANGED skewRead
    BY <1>3, <1>10
  <2>2. Convinces("date", by, FALSE)
    BY <1>4, <1>10, PreflightAssumption DEF Convinces
  <2>3. /\ "clock-timezone" = Ids[Len(checks) + 1]
        /\ 2 <= Len(checks) /\ Len(checks) < 8
    BY <1>6 DEF Ids
  <2>4. PreflightTypeOK' /\ InOrder' /\ OneDevice' /\ Reported' /\ Qualifies'
    BY <1>1, <1>2, <1>6, <2>1, <2>2, <2>3, CheckSteps DEF Asking
  <2>5. OnTime'
    <3>1. ~Passed(8)'
      <4>1. InOrder /\ FALSE \in BOOLEAN
        BY DEF PreflightInv
      <4>2. \A i \in 1..8 : Passed(i)' <=> (Passed(i) \/ (i = Len(checks) + 1 /\ FALSE))
        BY <2>1, <2>3, <4>1, OneMorePassed, Zenon
      <4>3. Passed(8)' <=> Passed(8)
        BY <4>2
      <4> QED
        BY <1>6, <4>3
    <3> QED
      BY <1>5, <1>7, <1>8, <2>1, <3>1 DEF OnTime
  <2> QED
    BY <2>4, <2>5 DEF PreflightInv
<1> QED
  BY <1>9, <1>10

LEMMA ZoneSteps ==
    ASSUME PreflightInv, ReadZone
    PROVE  PreflightInv'
<1>1. step = "timezone" /\ step' = "report" /\ UNCHANGED <<redacted, serial, skewRead>>
  BY DEF ReadZone
<1>2. PICK by \in Targets \cup {Nobody} :
          /\ Ask("timezone", by)
          /\ \E zone \in IF by = Nobody THEN {FALSE}
                         ELSE IF Garbled("timezone") THEN BOOLEAN
                         ELSE {situation.facts[by].zone} :
                checks' = Checked("clock-timezone",
                                  zone /\ skewRead \in -SkewBound..SkewBound)
  BY DEF ReadZone
<1>3. PICK zone \in IF by = Nobody THEN {FALSE}
                    ELSE IF Garbled("timezone") THEN BOOLEAN
                    ELSE {situation.facts[by].zone} :
                checks' = Checked("clock-timezone",
                                  zone /\ skewRead \in -SkewBound..SkewBound)
  BY <1>2
<1> DEFINE good == zone /\ skewRead \in -SkewBound..SkewBound
<1>4. /\ good \in BOOLEAN
      /\ good => by # Nobody /\ (situation.facts[by].zone \/ Garbled("timezone"))
      /\ good => skewRead \in -SkewBound..SkewBound
      /\ by # Nobody /\ ~Garbled("timezone") /\ situation.facts[by].zone
            /\ skewRead \in -SkewBound..SkewBound => good
  BY <1>3
<1>5. checks' = Checked("clock-timezone", good)
  BY <1>3
<1> HIDE DEF good
<1>6. /\ by = Nobody \/ (by = serial /\ serial \in Targets /\ by # Nobody)
      /\ clock' \in Nat /\ clock <= clock'
      /\ UNCHANGED <<situation, started>>
  BY <1>1, <1>2, AskFacts DEF Asking
<1>7. Len(checks) = 7 /\ ~Passed(8)
  <2>1. Made = 7
    BY <1>1 DEF Made
  <2>2. Len(checks) = 7
    BY <1>1, <2>1 DEF PreflightInv, InOrder
  <2> QED
    BY <2>2 DEF Passed
<1>8. /\ "clock-timezone" = Ids[Len(checks) + 1] /\ Len(checks) + 1 = 8
      /\ 2 <= Len(checks) /\ Len(checks) < 8
  BY <1>7 DEF Ids
<1>9. Convinces("timezone", by, good)
  BY <1>1, <1>4, PreflightAssumption DEF Convinces, Qualified
<1>10. good => by # Nobody /\ Met(Len(checks) + 1, by)
  BY <1>4, <1>8 DEF Met
<1>11. PreflightTypeOK' /\ InOrder' /\ OneDevice' /\ Reported' /\ Qualifies'
  BY <1>1, <1>2, <1>4, <1>5, <1>7, <1>8, <1>9, <1>10, CheckSteps DEF Asking
<1>12. OnTime'
  <2>1. Passed(8)' => good
    BY <1>4, <1>5, <1>7, <1>8, OneMorePassed DEF PreflightInv
  <2>2. \E n \in 0..Slow : skewRead = n + situation.facts[serial].skew
    BY <1>1 DEF PreflightInv, OnTime
  <2>3. \E n \in (0..Slow)' : skewRead' = n + situation'.facts[serial'].skew
    BY <1>1, <1>6, <2>2 DEF Slow
  <2>4. started <= clock /\ clock \in Nat /\ started \in Nat
    BY DEF PreflightInv, PreflightTypeOK, OnTime
  <2> QED
    BY <1>1, <1>4, <1>6, <2>1, <2>3, <2>4 DEF OnTime
<1> QED
  BY <1>11, <1>12 DEF PreflightInv

(* Before anything is asked: without adb everything is skipped.             *)
LEMMA ConfigureSteps ==
    ASSUME PreflightInv, Configure
    PROVE  PreflightInv'
<1>1. /\ step = "configure"
      /\ UNCHANGED <<situation, attached, replugs, faults, clock, started, skewRead, report,
                     answered, flawed>>
  BY DEF Configure
<1>2. checks \in Seq(Outcomes) /\ Len(checks) = 0 /\ Made = 0 /\ InOrder
  <2>1. Made = 0
    BY <1>1 DEF Made
  <2> QED
    BY <1>1, <2>1 DEF PreflightInv, InOrder
<1>3. /\ situation.target \in Targets \cup {Unset, Malformed} /\ situation.adb \in BOOLEAN
      /\ {Nobody, Unset, Malformed} \cap Targets = {} /\ Unset # Malformed
  BY PreflightAssumption DEF PreflightInv, PreflightTypeOK, Unset, Malformed
<1>4. /\ redacted' \subseteq Secrets
      /\ situation.target \in Targets => serial' = situation.target
      /\ situation.target \notin Targets => serial' = Nobody
  BY <1>3 DEF Configure, Secrets
<1>5. \/ situation.target = Malformed /\ exit' = 2 /\ step' = "done" /\ UNCHANGED checks
      \/ /\ situation.target # Malformed /\ situation.adb /\ step' = "connect" /\ UNCHANGED exit
         /\ checks' = Checked("adb-binary", TRUE)
      \/ /\ situation.target # Malformed /\ ~situation.adb /\ step' = "report" /\ UNCHANGED exit
         /\ checks' = Checked("adb-binary", FALSE) \o <<<<"connection-state", "skip">>>> \o Skipped
  BY DEF Configure
<1>6. /\ InOrder' /\ \A i \in 2..8 : ~Passed(i)'
      /\ step' = "connect" => AllPassed'
  <2>1. CASE UNCHANGED checks /\ step' = "done"
    BY <1>2, <2>1 DEF InOrder, Passed
  <2>2. CASE checks' = Checked("adb-binary", TRUE) /\ step' = "connect"
    <3>1. "adb-binary" = Ids[Len(checks) + 1] /\ Len(checks) < 8 /\ TRUE \in BOOLEAN
      BY <1>2 DEF Ids
    <3>2. /\ checks' \in Seq(Outcomes) /\ Len(checks') = Len(checks) + 1
          /\ \A i \in 1..Len(checks') : checks'[i][1] = Ids[i]
          /\ AllPassed' <=> AllPassed /\ TRUE
      BY <1>2, <2>2, <3>1, OneMorePassed, Zenon
    <3>3. Len(checks') = 1
      BY <1>2, <3>2
    <3>4. Made' = 1
      BY <2>2 DEF Made
    <3>5. AllPassed
      BY <1>2 DEF AllPassed
    <3>6. \A i \in 2..8 : ~Passed(i)'
      BY <3>3 DEF Passed
    <3>7. InOrder'
      <4>1. Len(checks') <= 8 /\ Len(checks') = Made'
        BY <3>3, <3>4
      <4>2. checks' \in Seq(Outcomes) /\ \A i \in 1..Len(checks') : checks'[i][1] = Ids[i]
        BY <3>2
      <4> QED
        BY <4>1, <4>2 DEF InOrder
    <3> QED
      BY <3>2, <3>5, <3>6, <3>7
  <2>3. CASE /\ checks' = Checked("adb-binary", FALSE) \o <<<<"connection-state", "skip">>>> \o Skipped
             /\ step' = "report"
    <3> DEFINE first == Checked("adb-binary", FALSE)
               second == <<<<"connection-state", "skip">>>>
               both == first \o second
    <3>1. "adb-binary" = Ids[Len(checks) + 1] /\ Len(checks) < 8 /\ FALSE \in BOOLEAN
      BY <1>2 DEF Ids
    <3>2. /\ first \in Seq(Outcomes) /\ Len(first) = Len(checks) + 1
          /\ \A i \in 1..Len(first) : first[i][1] = Ids[i]
      BY <1>2, <3>1, OneMore
    <3>3. <<"connection-state", "skip">> \in Outcomes
      BY DEF Outcomes
    <3>4. second \in Seq(Outcomes) /\ Len(second) = 1 /\ second[1] = <<"connection-state", "skip">>
      BY <3>3
    <3>5. Len(first) = 1 /\ first[1][1] = Ids[1]
      <4> HIDE DEF first
      <4>1. Len(first) = 1
        BY <1>2, <3>2
      <4>2. 1 \in 1..Len(first)
        BY <4>1
      <4> QED
        BY <3>2, <4>1, <4>2, Zenon
    <3> HIDE DEF first, second
    <3>6. /\ both \in Seq(Outcomes) /\ Len(both) = Len(first) + Len(second)
          /\ \A i \in 1..(Len(first) + Len(second)) :
                both[i] = IF i <= Len(first) THEN first[i] ELSE second[i - Len(first)]
      BY <3>2, <3>4, ConcatProperties, Zenon
    <3>7. Len(both) = 2 /\ both[1] = first[1] /\ both[2] = second[1]
      BY <3>4, <3>5, <3>6
    <3>8. both[2][1] = Ids[2] /\ both[2][2] # "pass"
      BY <3>4, <3>7 DEF Ids
    <3>9. \A i \in 1..2 : both[i][1] = Ids[i]
      <4>1. \A i \in 1..2 : i = 1 \/ i = 2
        OBVIOUS
      <4> QED
        BY <3>5, <3>7, <3>8, <4>1
    <3>10. checks' = both \o Skipped
      BY <2>3 DEF first, second
    <3> HIDE DEF both
    <3>11. /\ checks' \in Seq(Outcomes) /\ Len(checks') = 8
           /\ \A i \in 1..8 : checks'[i][1] = Ids[i]
           /\ \A i \in 2..8 : ~Passed(i)'
      BY <3>6, <3>7, <3>8, <3>9, <3>10, RestNotPassed
    <3>12. Made' = 8
      BY <2>3 DEF Made
    <3>13. InOrder'
      BY <3>11, <3>12 DEF InOrder
    <3> QED
      BY <2>3, <3>11, <3>13
  <2> QED
    BY <1>5, <2>1, <2>2, <2>3
<1>7. PreflightTypeOK'
  BY <1>1, <1>3, <1>4, <1>5 DEF PreflightInv, PreflightTypeOK, Reported, Steps
<1>8. OneDevice'
  <2>1. answered' = {} /\ step' \in {"done", "connect", "report"}
    BY <1>1, <1>5 DEF PreflightInv, OneDevice
  <2>2. ~Passed(3)' /\ \A i \in 3..8 : ~Passed(i)'
    BY <1>6
  <2> QED
    BY <1>1, <1>3, <1>4, <2>1, <2>2 DEF OneDevice, Asking
<1>9. OnTime' /\ Reported'
  <2>1. ~Passed(8)' /\ exit = -1 /\ report = NoReport
    BY <1>1, <1>6 DEF PreflightInv, Reported
  <2>2. started <= clock /\ clock = started
    BY <1>1 DEF PreflightInv, OnTime
  <2>3. step' \in {"done", "connect", "report"} /\ exit' # 0 /\ (step' # "done" => exit' = -1)
    <3>1. \/ exit' = 2 /\ step' = "done"
          \/ exit' = exit /\ step' = "connect"
          \/ exit' = exit /\ step' = "report"
      BY <1>5, Zenon
    <3>2. exit = -1
      BY <2>1
    <3> QED
      BY <3>1, <3>2
  <2>4. OnTime'
    BY <1>1, <2>1, <2>2, <2>3 DEF OnTime
  <2> QED
    BY <1>1, <2>1, <2>3, <2>4 DEF Reported
<1>10. Qualifies'
  <2> SUFFICES ASSUME ~flawed', replugs' = 0, situation'.adb, NEW d \in Targets, Qualified(d)'
               PROVE  AllPassed' /\ step' = "connect"
    BY DEF Qualifies
  <2>1. situation.target # Malformed /\ situation.adb
    BY <1>1, <1>3 DEF Qualified
  <2> QED
    BY <1>5, <1>6, <2>1
<1> QED
  BY <1>6, <1>7, <1>8, <1>9, <1>10 DEF PreflightInv

(* The connection is the second check, and the rest are skipped when it is  *)
(* not met.                                                                 *)
LEMMA ConnectedFacts ==
    ASSUME InOrder, step = "connect", NEW met \in BOOLEAN, Connected(met)
    PROVE  /\ InOrder' /\ \A i \in 3..8 : ~Passed(i)'
           /\ met => step' = "sdk" /\ (AllPassed => AllPassed')
           /\ ~met => step' = "report"
           /\ UNCHANGED skewRead
<1>1. Len(checks) = 1 /\ "connection-state" = Ids[Len(checks) + 1] /\ Len(checks) < 8
  <2>1. Made = 1
    BY DEF Made
  <2>2. Len(checks) = 1
    BY <2>1 DEF InOrder
  <2> QED
    BY <2>2 DEF Ids
<1> DEFINE next == Checked("connection-state", met)
<1>2. /\ next \in Seq(Outcomes) /\ Len(next) = 2
      /\ \A i \in 1..2 : next[i][1] = Ids[i]
      /\ next[1] = checks[1]
      /\ next[2][2] = IF met THEN "pass" ELSE "fail"
  BY <1>1, OneMore
<1>3. checks' = next \o (IF met THEN <<>> ELSE Skipped) /\ UNCHANGED skewRead
  BY DEF Connected
<1>4. CASE met
  <2>1. step' = "sdk"
    BY <1>4 DEF Connected
  <2> HIDE DEF next
  <2>2. checks' = next
    BY <1>2, <1>3, <1>4, ConcatEmptySeq
  <2>3. Made' = 2
    BY <2>1 DEF Made
  <2>4. AllPassed => AllPassed'
    <3>1. \A i \in 1..2 : i = 1 \/ i = 2
      OBVIOUS
    <3>2. checks'[2][2] = "pass" /\ checks'[1] = checks[1] /\ Len(checks') = 2
      BY <1>2, <1>4, <2>2
    <3> QED
      BY <1>1, <3>1, <3>2 DEF AllPassed, Passed
  <2>5. InOrder' /\ \A i \in 3..8 : ~Passed(i)'
    <3>1. Len(checks') = 2 /\ checks' \in Seq(Outcomes)
      BY <1>2, <2>2
    <3>2. \A i \in 1..Len(checks') : checks'[i][1] = Ids[i]
      BY <1>2, <2>2, <3>1
    <3>3. \A i \in 3..8 : ~Passed(i)'
      BY <3>1 DEF Passed
    <3>4. InOrder'
      BY <2>3, <3>1, <3>2 DEF InOrder
    <3> QED
      BY <3>3, <3>4
  <2> QED
    BY <1>3, <1>4, <2>1, <2>4, <2>5
<1>5. CASE ~met
  <2>1. step' = "report"
    BY <1>5 DEF Connected
  <2>2. checks' = next \o Skipped
    BY <1>3, <1>5
  <2> HIDE DEF next
  <2>3. /\ checks' \in Seq(Outcomes) /\ Len(checks') = 8
        /\ \A i \in 1..8 : checks'[i][1] = Ids[i]
        /\ \A i \in 2..8 : ~Passed(i)'
    BY <1>2, <1>5, <2>2, RestNotPassed
  <2>4. Made' = 8
    BY <2>1 DEF Made
  <2>5. InOrder'
    BY <2>3, <2>4 DEF InOrder
  <2> QED
    BY <1>3, <1>5, <2>1, <2>3, <2>5
<1> QED
  BY <1>4, <1>5

LEMMA TargetSteps ==
    ASSUME PreflightInv, ConnectTarget
    PROVE  PreflightInv'
<1>1. /\ step = "connect" /\ situation.target \in Targets /\ UNCHANGED <<redacted, serial>>
  BY DEF ConnectTarget
<1>2. PICK by \in Targets \cup {Nobody} :
          /\ Ask("get-state", by)
          /\ \E good \in Reads("get-state", TRUE) : Connected(by # Nobody /\ good)
  BY DEF ConnectTarget
<1>3. PICK good \in Reads("get-state", TRUE) : Connected(by # Nobody /\ good)
  BY <1>2
<1> DEFINE met == by # Nobody /\ good
<1>4. /\ met \in BOOLEAN /\ Connected(met)
      /\ by # Nobody /\ ~Garbled("get-state") => met
  BY <1>3 DEF Reads
<1> HIDE DEF met
<1>5. serial = situation.target /\ serial \in Targets /\ serial # Nobody
  BY <1>1, PreflightAssumption DEF PreflightInv, OneDevice
<1>6. /\ by = Nobody \/ (by = serial /\ serial \in Targets /\ by # Nobody)
      /\ by # Nobody => answered' = {serial}
      /\ by = Nobody => answered' = answered
      /\ clock' \in Nat /\ clock <= clock' /\ clock' <= clock + Timeout
      /\ faults' \in 0..MaxFaults /\ flawed' \in BOOLEAN
      /\ flawed' <=> (flawed \/ by = Nobody \/ Garbled("get-state"))
      /\ UNCHANGED <<situation, attached, replugs, started, report, exit>>
  BY <1>2, <1>5, AskFacts
<1>7. /\ InOrder' /\ \A i \in 3..8 : ~Passed(i)'
      /\ met => step' = "sdk" /\ (AllPassed => AllPassed')
      /\ ~met => step' = "report"
      /\ UNCHANGED skewRead
  BY <1>1, <1>4, ConnectedFacts DEF PreflightInv
<1>8. PreflightTypeOK /\ Reported /\ OneDevice /\ OnTime /\ Qualifies
  BY DEF PreflightInv
<1>9. PreflightTypeOK'
  <2>1. step' \in Steps /\ report = NoReport
    BY <1>1, <1>7, <1>8 DEF Steps, Reported
  <2>2. answered' \subseteq Targets
    BY <1>6, <1>8 DEF PreflightTypeOK
  <2> QED
    BY <1>1, <1>6, <1>7, <1>8, <2>1, <2>2 DEF PreflightTypeOK
<1>10. OneDevice'
  <2>1. ~Passed(3)'
    BY <1>7
  <2>2. answered' \subseteq {serial} \cap Targets
    BY <1>6, <1>8 DEF OneDevice
  <2> QED
    BY <1>1, <1>5, <1>6, <1>7, <2>1, <2>2 DEF OneDevice
<1>11. OnTime'
  <2>1. ~Passed(8)' /\ clock = started /\ clock \in Nat
    BY <1>1, <1>7, <1>8 DEF OnTime, PreflightTypeOK
  <2> QED
    BY <1>6, <1>7, <2>1 DEF OnTime
<1>12. Reported'
  BY <1>1, <1>6, <1>7, <1>8 DEF Reported
<1>13. Qualifies'
  <2> SUFFICES ASSUME ~flawed', replugs' = 0, situation'.adb, NEW d \in Targets, Qualified(d)'
               PROVE  AllPassed' /\ serial' = d /\ step' = "sdk"
    BY DEF Qualifies
  <2>1. ~flawed /\ by # Nobody /\ ~Garbled("get-state") /\ replugs = 0 /\ situation.adb
        /\ Qualified(d)
    BY <1>6 DEF Qualified, Present
  <2>2. AllPassed
    BY <1>8, <2>1 DEF Qualifies
  <2>3. d = serial
    BY <1>5, <2>1, PreflightAssumption DEF Qualified
  <2> QED
    BY <1>1, <1>4, <1>7, <2>1, <2>2, <2>3
<1> QED
  BY <1>7, <1>9, <1>10, <1>11, <1>12, <1>13 DEF PreflightInv

(* The only device of the list; its serial is read from the redacted list.  *)
LEMMA OnlySteps ==
    ASSUME PreflightInv, ConnectOnly
    PROVE  PreflightInv'
<1>1. step = "connect" /\ situation.target = Unset /\ UNCHANGED answered
  BY DEF ConnectOnly
<1>2. PICK by \in Present \cup {Nobody} :
          /\ Query("devices", Present, by)
          /\ redacted' = IF by = Nobody THEN redacted ELSE redacted \cup Present
          /\ \E good \in Reads("devices", TRUE) :
             \E name \in Reads("devices", TRUE) :
                LET met == by # Nobody /\ Present = {by} /\ attached[by] = "device" /\ good
                IN  /\ Connected(met)
                    /\ serial' = IF ~met THEN serial ELSE IF name THEN by ELSE Unread
  BY DEF ConnectOnly
<1>3. PICK good \in Reads("devices", TRUE), name \in Reads("devices", TRUE) :
          LET met == by # Nobody /\ Present = {by} /\ attached[by] = "device" /\ good
          IN  /\ Connected(met)
              /\ serial' = IF ~met THEN serial ELSE IF name THEN by ELSE Unread
  BY <1>2
<1> DEFINE met == by # Nobody /\ Present = {by} /\ attached[by] = "device" /\ good
<1>4. /\ met \in BOOLEAN /\ Connected(met)
      /\ serial' = IF ~met THEN serial ELSE IF name THEN by ELSE Unread
      /\ met => by # Nobody
      /\ by # Nobody /\ Present = {by} /\ attached[by] = "device" /\ ~Garbled("devices")
            => met /\ name
  BY <1>3 DEF Reads
<1> HIDE DEF met
<1>5. /\ Nobody \notin Targets /\ Unset \notin Targets /\ Unread \notin Targets
      /\ Unread # Nobody /\ Timeout \in Nat /\ MaxFaults \in Nat /\ Present \subseteq Targets
  BY PreflightAssumption DEF Unread, Nobody, Present
<1>6. PreflightTypeOK /\ Reported /\ OneDevice /\ OnTime /\ Qualifies
  BY DEF PreflightInv
<1>7. /\ clock' \in Nat /\ clock <= clock' /\ clock' <= clock + Timeout
      /\ faults' \in 0..MaxFaults /\ flawed' \in BOOLEAN
      /\ flawed' <=> (flawed \/ by = Nobody \/ Garbled("devices"))
      /\ UNCHANGED <<situation, attached, replugs, started, report, exit>>
  <2>1. clock' \in clock..(clock + Timeout) /\ clock \in Nat
    BY <1>2, <1>6 DEF Query, PreflightTypeOK
  <2>2. faults' \in 0..MaxFaults
    <3>1. faults \in 0..MaxFaults /\ faults' <= MaxFaults
      BY <1>2, <1>6 DEF Query, PreflightTypeOK
    <3>2. faults' = faults \/ faults' = faults + 1
      BY <1>2, <3>1 DEF Query
    <3> QED
      BY <1>5, <3>1, <3>2
  <2>3. flawed' \in BOOLEAN /\ (flawed' <=> (flawed \/ by = Nobody \/ Garbled("devices")))
    BY <1>2 DEF Query
  <2>4. UNCHANGED <<situation, attached, replugs, started, report, exit>>
    BY <1>2 DEF Query
  <2> QED
    BY <1>5, <2>1, <2>2, <2>3, <2>4
<1>8. /\ InOrder' /\ \A i \in 3..8 : ~Passed(i)'
      /\ met => step' = "sdk" /\ (AllPassed => AllPassed')
      /\ ~met => step' = "report"
      /\ UNCHANGED skewRead
  BY <1>1, <1>4, ConnectedFacts DEF PreflightInv
<1>9. PreflightTypeOK'
  <2>1. step' \in Steps /\ report = NoReport
    BY <1>1, <1>6, <1>8 DEF Steps, Reported
  <2>2. redacted' \subseteq Secrets
    BY <1>2, <1>5, <1>6 DEF PreflightTypeOK, Secrets
  <2>3. serial' \in Targets \cup {Nobody, Unread}
    BY <1>4, <1>5, <1>6 DEF PreflightTypeOK
  <2> QED
    BY <1>1, <1>6, <1>7, <1>8, <2>1, <2>2, <2>3 DEF PreflightTypeOK
<1>10. OneDevice'
  <2>1. ~Passed(3)' /\ answered' = {}
    BY <1>1, <1>6, <1>8 DEF OneDevice
  <2>2. step' \in Asking => serial' # Nobody
    BY <1>4, <1>5, <1>8 DEF Asking
  <2> QED
    BY <1>1, <1>5, <1>7, <1>8, <2>1, <2>2 DEF OneDevice
<1>11. OnTime'
  <2>1. ~Passed(8)' /\ clock = started /\ clock \in Nat
    BY <1>1, <1>6, <1>8 DEF OnTime, PreflightTypeOK
  <2> QED
    BY <1>7, <1>8, <2>1 DEF OnTime
<1>12. Reported'
  BY <1>1, <1>6, <1>7, <1>8 DEF Reported
<1>13. Qualifies'
  <2> SUFFICES ASSUME ~flawed', replugs' = 0, situation'.adb, NEW d \in Targets, Qualified(d)'
               PROVE  AllPassed' /\ serial' = d /\ step' = "sdk"
    BY DEF Qualifies
  <2>1. ~flawed /\ by # Nobody /\ ~Garbled("devices") /\ replugs = 0 /\ situation.adb
        /\ Qualified(d)
    BY <1>7 DEF Qualified, Present
  <2>2. AllPassed
    BY <1>6, <2>1 DEF Qualifies
  <2>3. Present = {d} /\ attached[d] = "device" /\ by = d
    BY <1>1, <1>5, <2>1 DEF Qualified
  <2> QED
    BY <1>4, <1>8, <2>1, <2>2, <2>3
<1> QED
  BY <1>8, <1>9, <1>10, <1>11, <1>12, <1>13 DEF PreflightInv

LEMMA PublishSteps ==
    ASSUME PreflightInv, Publish
    PROVE  PreflightInv'
<1>1. /\ step = "report" /\ step' = "done"
      /\ UNCHANGED <<situation, attached, replugs, faults, clock, started, redacted, serial,
                     skewRead, checks, answered, flawed>>
  BY DEF Publish
<1> DEFINE ok == \A i \in DOMAIN checks : checks[i][2] = "pass"
<1>2. /\ report' = [ok |-> ok, of |-> serial, checks |-> checks]
      /\ exit' = IF situation.out = "broken" THEN 2 ELSE IF ok THEN 0 ELSE 1
  BY DEF Publish
<1>3. Len(checks) = 8 /\ DOMAIN checks = 1..Len(checks) /\ checks \in Seq(Outcomes)
  <2>1. Made = 8
    BY <1>1 DEF Made
  <2>2. Len(checks) = 8 /\ checks \in Seq(Outcomes)
    BY <1>1, <2>1 DEF PreflightInv, InOrder
  <2> QED
    BY <2>2, LenProperties
<1>4. ok <=> AllPassed
  BY <1>3 DEF AllPassed, Passed
<1>5. report'.ok = ok /\ report'.of = serial /\ report'.checks = checks
  BY <1>2
<1> HIDE DEF ok
<1>6. \A i : Passed(i)' <=> Passed(i)
  BY <1>1 DEF Passed
<1>7. AllPassed' <=> AllPassed
  BY <1>1 DEF AllPassed, Passed
<1>8. PreflightTypeOK /\ InOrder /\ OneDevice /\ OnTime /\ Qualifies
  BY DEF PreflightInv
<1>9. PreflightTypeOK'
  <2>1. exit' \in {-1, 0, 1, 2}
    BY <1>2
  <2> QED
    BY <1>1, <1>5, <1>8, <2>1 DEF PreflightTypeOK, Steps
<1>10. InOrder'
  BY <1>1, <1>8 DEF InOrder
<1>11. OneDevice'
  <2>1. \A i \in 3..8 : Met(i, serial)' <=> Met(i, serial)
    BY <1>1 DEF Met, Garbled
  <2> QED
    BY <1>1, <1>6, <1>8, <2>1 DEF OneDevice, Asking
<1>12. OnTime'
  BY <1>1, <1>6, <1>8 DEF OnTime, Slow
<1>13. Reported'
  <2> SUFFICES ASSUME exit' = 0
               PROVE  Len(checks) = 8 /\ AllPassed' /\ report'.ok /\ report'.of = serial
    BY <1>1 DEF Reported
  <2>1. ok
    BY <1>2
  <2> QED
    BY <1>3, <1>4, <1>5, <1>7, <2>1
<1>14. Qualifies'
  <2> SUFFICES ASSUME ~flawed', replugs' = 0, situation'.adb, NEW d \in Targets, Qualified(d)'
               PROVE  /\ AllPassed' /\ serial' = d
                      /\ situation'.out # "broken" => exit' = 0 /\ report'.of = d
    BY <1>1 DEF Qualifies
  <2>1. Qualified(d)
    BY <1>1 DEF Qualified, Present
  <2>2. AllPassed /\ serial = d
    BY <1>1, <1>8, <2>1 DEF Qualifies
  <2> QED
    BY <1>1, <1>2, <1>4, <1>5, <1>7, <2>2
<1> QED
  BY <1>9, <1>10, <1>11, <1>12, <1>13, <1>14 DEF PreflightInv

(* What is attached says nothing of what has been read.                     *)
LEMMA ReplugSteps ==
    ASSUME PreflightInv, Replug
    PROVE  PreflightInv'
<1>1. /\ replugs < MaxReplugs /\ replugs' = replugs + 1 /\ step # "done"
      /\ UNCHANGED <<situation, faults, clock, started, redacted, serial, step, skewRead,
                     checks, report, exit, answered, flawed>>
  BY DEF Replug, ended
<1>2. PreflightTypeOK'
  <2>1. attached' \in [Targets -> Attachments]
    BY DEF Replug, PreflightInv, PreflightTypeOK
  <2>2. replugs' \in 0..MaxReplugs /\ replugs' # 0
    BY <1>1, PreflightAssumption DEF PreflightInv, PreflightTypeOK
  <2> QED
    BY <1>1, <2>1, <2>2 DEF PreflightInv, PreflightTypeOK
<1>3. InOrder'
  BY <1>1 DEF PreflightInv, InOrder, Made
<1>4. \A i : (Passed(i)' <=> Passed(i)) /\ (Met(i, serial)' <=> Met(i, serial))
  BY <1>1 DEF Passed, Met, Garbled
<1>5. OneDevice'
  BY <1>1, <1>4 DEF PreflightInv, OneDevice
<1>6. OnTime'
  BY <1>1, <1>4 DEF PreflightInv, OnTime, Slow
<1>7. Reported'
  <2>1. AllPassed' <=> AllPassed
    BY <1>1, <1>4 DEF AllPassed
  <2> QED
    BY <1>1, <2>1 DEF PreflightInv, Reported
<1>8. Qualifies'
  BY <1>1 DEF PreflightInv, PreflightTypeOK, Qualifies
<1> QED
  BY <1>2, <1>3, <1>5, <1>6, <1>7, <1>8 DEF PreflightInv

LEMMA PreflightStarts ==
    ASSUME PreflightInit
    PROVE  PreflightInv
<1> USE DEF PreflightInit
<1>1. PreflightTypeOK
  <2>1. situation \in Situations /\ attached \in [Targets -> Attachments]
    BY PreflightAssumption
  <2>2. replugs \in 0..MaxReplugs /\ faults \in 0..MaxFaults
    BY PreflightAssumption
  <2>3. clock \in Nat /\ started \in Nat /\ skewRead \in Int /\ exit \in {-1, 0, 1, 2}
    OBVIOUS
  <2>4. /\ redacted \subseteq Secrets /\ answered \subseteq Targets /\ flawed \in BOOLEAN
        /\ serial \in Targets \cup {Nobody, Unread} /\ step \in Steps
    BY DEF Steps
  <2>5. report = NoReport
    OBVIOUS
  <2> QED
    BY ONLY <2>1, <2>2, <2>3, <2>4, <2>5 DEF PreflightTypeOK
<1>2. checks \in Seq(Outcomes) /\ Len(checks) = 0 /\ Made = 0
  BY DEF Made
<1>3. \A i : ~Passed(i)
  BY <1>2 DEF Passed
<1>4. InOrder
  BY <1>2 DEF InOrder
<1>5. OneDevice /\ OnTime /\ Reported
  BY <1>3 DEF OneDevice, OnTime, Reported, Asking
<1>6. Qualifies
  BY <1>2 DEF Qualifies, AllPassed
<1> QED
  BY <1>1, <1>4, <1>5, <1>6 DEF PreflightInv

LEMMA PreflightSteps ==
    ASSUME PreflightInv, PreflightNext \/ UNCHANGED preflightVars
    PROVE  PreflightInv'
<1>1. CASE PreflightNext
  BY <1>1, ConfigureSteps, TargetSteps, OnlySteps, ApiSteps, AbiSteps, PackageSteps,
     LauncherSteps, StorageSteps, EpochSteps, ZoneSteps, PublishSteps, ReplugSteps, Zenon
     DEF PreflightNext
<1>2. CASE UNCHANGED preflightVars
  <2> USE <1>2 DEF preflightVars, ended
  <2>1. PreflightTypeOK' /\ InOrder'
    BY DEF PreflightInv, PreflightTypeOK, InOrder, Made
  <2>2. /\ AllPassed' <=> AllPassed
        /\ \A i : (Passed(i)' <=> Passed(i)) /\ (Met(i, serial)' <=> Met(i, serial))
    BY DEF AllPassed, Passed, Met, Garbled
  <2>3. OneDevice'
    BY <2>2 DEF PreflightInv, OneDevice
  <2>4. OnTime' /\ Reported'
    BY <2>2 DEF PreflightInv, OnTime, Reported, Slow
  <2>5. Qualifies'
    <3>1. \A d : Qualified(d)' <=> Qualified(d)
      BY DEF Qualified, Present
    <3> QED
      BY <2>2, <3>1 DEF PreflightInv, Qualifies
  <2> QED
    BY <2>1, <2>3, <2>4, <2>5 DEF PreflightInv
<1> QED
  BY <1>1, <1>2

(* The identifiers of a report, in the order of its list: the two checks of *)
(* the connection, then the six of the device.                              *)
LEMMA IdsConcatenate ==
    <<"adb-binary", "connection-state">> \o DeviceChecks = Ids
<1> DEFINE two == <<"adb-binary", "connection-state">>
           names == {Ids[i] : i \in 1..8}
<1>1. /\ two \in [1..2 -> names] /\ DeviceChecks \in [1..6 -> names] /\ Ids \in [1..8 -> names]
      /\ \A i \in 1..2 : two[i] = Ids[i]
      /\ \A i \in 1..6 : DeviceChecks[i] = Ids[i + 2]
  <2>1. /\ DOMAIN two = 1..2 /\ DOMAIN DeviceChecks = 1..6 /\ DOMAIN Ids = 1..8
        /\ two = [i \in 1..2 |-> two[i]]
        /\ DeviceChecks = [i \in 1..6 |-> DeviceChecks[i]]
        /\ Ids = [i \in 1..8 |-> Ids[i]]
    BY DEF DeviceChecks, Ids
  <2>2. \A i \in 1..2 : two[i] = Ids[i]
    BY DEF Ids
  <2>3. \A i \in 1..6 : DeviceChecks[i] = Ids[i + 2]
    BY DEF DeviceChecks, Ids
  <2>4. \A i \in 1..8 : Ids[i] \in names
    OBVIOUS
  <2> HIDE DEF two, names
  <2>5. /\ \A i \in 1..2 : two[i] \in names
        /\ \A i \in 1..6 : DeviceChecks[i] \in names
    <3>1. /\ \A i \in 1..2 : i \in 1..8
          /\ \A i \in 1..6 : i + 2 \in 1..8
      OBVIOUS
    <3> QED
      BY <2>2, <2>3, <2>4, <3>1
  <2> QED
    BY <2>1, <2>2, <2>3, <2>4, <2>5
<1> HIDE DEF two, names
<1>2. two \in Seq(names) /\ DeviceChecks \in Seq(names) /\ Ids \in Seq(names)
  <2>1. ASSUME NEW n \in Nat, NEW f \in [1..n -> names] PROVE f \in Seq(names)
    BY SeqDef, Zenon
  <2>2. 2 \in Nat /\ 6 \in Nat /\ 8 \in Nat
    OBVIOUS
  <2> QED
    BY <1>1, <2>1, <2>2, Zenon
<1>3. Len(two) = 2 /\ Len(DeviceChecks) = 6 /\ Len(Ids) = 8
  <2>1. DOMAIN two = 1..2 /\ DOMAIN DeviceChecks = 1..6 /\ DOMAIN Ids = 1..8
    BY <1>1
  <2>2. /\ DOMAIN two = 1..Len(two) /\ Len(two) \in Nat
        /\ DOMAIN DeviceChecks = 1..Len(DeviceChecks) /\ Len(DeviceChecks) \in Nat
        /\ DOMAIN Ids = 1..Len(Ids) /\ Len(Ids) \in Nat
    BY <1>2, LenProperties
  <2> QED
    BY <2>1, <2>2
<1>4. /\ two \o DeviceChecks \in Seq(names)
      /\ Len(two \o DeviceChecks) = Len(two) + Len(DeviceChecks)
      /\ \A i \in 1..(Len(two) + Len(DeviceChecks)) : (two \o DeviceChecks)[i]
            = IF i <= Len(two) THEN two[i] ELSE DeviceChecks[i - Len(two)]
  BY <1>2, ConcatProperties, Zenon
<1>5. /\ Len(two \o DeviceChecks) = 8
      /\ \A i \in 1..8 : (two \o DeviceChecks)[i]
                            = IF i <= 2 THEN two[i] ELSE DeviceChecks[i - 2]
  BY <1>3, <1>4
<1>6. ASSUME NEW i \in 1..8 PROVE (two \o DeviceChecks)[i] = Ids[i]
  <2>1. CASE i <= 2
    BY <1>1, <1>5, <2>1
  <2>2. CASE ~(i <= 2)
    <3>1. i - 2 \in 1..6 /\ (i - 2) + 2 = i
      BY <2>2
    <3> QED
      BY <1>1, <1>5, <2>2, <3>1
  <2> QED
    BY <2>1, <2>2
<1>7. two \o DeviceChecks = Ids
  BY <1>2, <1>3, <1>4, <1>5, <1>6, SeqEqual
<1> QED
  BY <1>7 DEF two

(* What the invariant says of an exit code.                                 *)
LEMMA PreflightPromises ==
    ASSUME PreflightInv
    PROVE  AcceptedMeetsAll /\ QualifiedIsAccepted
<1>1. AcceptedMeetsAll
  <2> SUFFICES ASSUME exit = 0
               PROVE  /\ [i \in DOMAIN checks |-> checks[i][1]]
                            = <<"adb-binary", "connection-state">> \o DeviceChecks
                      /\ report.ok
                      /\ \E d \in Targets :
                            /\ answered = {d} /\ report.of = d
                            /\ situation.target \in {d, Unset}
                            /\ LET f == situation.facts[d]
                               IN  /\ f.sdk /\ f.home /\ f.room
                                   /\ f.abilist = "good" \/ (f.abilist = "empty" /\ f.abi)
                                   /\ f.zone \/ Garbled("timezone")
                                   /\ -SkewBound - Slow <= f.skew /\ f.skew <= SkewBound
    BY DEF AcceptedMeetsAll
  <2>1. Len(checks) = 8 /\ AllPassed /\ report.ok /\ report.of = serial /\ step = "done"
    BY DEF PreflightInv, Reported
  <2>2. /\ checks \in Seq(Outcomes) /\ DOMAIN checks = 1..8
        /\ \A i \in 1..8 : checks[i][1] = Ids[i]
    <3>1. checks \in Seq(Outcomes) /\ \A i \in 1..8 : checks[i][1] = Ids[i]
      BY <2>1 DEF PreflightInv, InOrder
    <3> QED
      BY <2>1, <3>1, LenProperties
  <2>3. [i \in DOMAIN checks |-> checks[i][1]] = <<"adb-binary", "connection-state">> \o DeviceChecks
    <3>1. <<"adb-binary", "connection-state">> \o DeviceChecks = Ids
      BY IdsConcatenate
    <3>2. Ids = [i \in 1..8 |-> Ids[i]]
      BY DEF Ids
    <3>3. [i \in DOMAIN checks |-> checks[i][1]] = [i \in 1..8 |-> Ids[i]]
      BY <2>2
    <3> QED
      BY <3>1, <3>2, <3>3
  <2>4. \A i \in 1..8 : Passed(i)
    BY <2>1 DEF AllPassed
  <2>5. serial \in Targets /\ answered = {serial} /\ situation.target \in {serial, Unset}
    <3>1. Passed(3)
      BY <2>4
    <3> QED
      BY <2>1, <3>1 DEF PreflightInv, OneDevice
  <2>6. \A i \in 3..8 : Met(i, serial)
    BY <2>4 DEF PreflightInv, OneDevice
  <2>7. LET f == situation.facts[serial]
        IN  /\ f.sdk /\ f.home /\ f.room
            /\ f.abilist = "good" \/ (f.abilist = "empty" /\ f.abi)
            /\ f.zone \/ Garbled("timezone")
    BY <2>6 DEF Met
  <2>8. /\ -SkewBound - Slow <= situation.facts[serial].skew
        /\ situation.facts[serial].skew <= SkewBound
    <3>1. Passed(8)
      BY <2>4
    <3>2. PICK n \in 0..Slow : skewRead = n + situation.facts[serial].skew
      BY <3>1 DEF PreflightInv, OnTime
    <3>3. skewRead \in -SkewBound..SkewBound
      BY <3>1 DEF PreflightInv, OnTime
    <3>4. situation.facts[serial].skew \in Int /\ SkewBound \in Nat /\ Timeout \in Nat
      BY <2>5, PreflightAssumption DEF PreflightInv, PreflightTypeOK, Facts
    <3> QED
      BY <3>2, <3>3, <3>4 DEF Slow
  <2> QED
    BY <2>1, <2>3, <2>5, <2>7, <2>8
<1>2. QualifiedIsAccepted
  <2> SUFFICES ASSUME step = "done", ~flawed, replugs = 0, situation.adb,
                      situation.out # "broken", NEW d \in Targets, Qualified(d)
               PROVE  exit = 0 /\ report.of = d
    BY DEF QualifiedIsAccepted, Qualified
  <2> QED
    BY DEF PreflightInv, Qualifies
<1> QED
  BY <1>1, <1>2

-----------------------------------------------------------------------------
HostInv == ToolInv /\ PreflightInv /\ ReleaseInv

(* In a session that uses one tool after another each keeps its invariant:  *)
(* a step of one leaves the state of the others alone.                      *)
THEOREM HostInvariant == HostSpec => []HostInv
<1>1. HostInit => HostInv
  BY ToolStarts, PreflightStarts, ReleaseStarts DEF HostInit, HostInv
<1>2. HostInv /\ [HostNext]_hostVars => HostInv'
  <2> SUFFICES ASSUME HostInv, [HostNext]_hostVars PROVE HostInv'
    OBVIOUS
  <2>1. ToolNext \/ UNCHANGED toolVars
    BY DEF HostNext, hostVars
  <2>2. PreflightNext \/ UNCHANGED preflightVars
    BY DEF HostNext, hostVars
  <2>3. ReleaseNext \/ UNCHANGED releaseVars
    BY DEF HostNext, hostVars
  <2> QED
    BY <2>1, <2>2, <2>3, ToolSteps, PreflightSteps, ReleaseSteps DEF HostInv
<1> QED
  BY <1>1, <1>2, PTL DEF HostSpec

(* The documents, the checks of a device and the runs of the workflow keep  *)
(* their shapes, whatever the inputs, the devices and the commits are.      *)
THEOREM HostTypeCorrect == HostSpec => []HostTypesOK
<1>1. HostInv => HostTypesOK
  BY DEF HostInv, ToolInv, PreflightInv, ReleaseInv, HostTypesOK
<1> QED
  BY <1>1, HostInvariant, PTL

(* Every run of a validator that ends names its errors in one place, or has *)
(* none and exits with 0.                                                   *)
THEOREM VerdictAlways == HostSpec => []AlwaysAVerdict
<1>1. HostInv => AlwaysAVerdict
  BY ToolPromises DEF HostInv
<1> QED
  BY <1>1, HostInvariant, PTL

(* Whatever the documents are, the config validator accepts those that the  *)
(* published schema accepts, but for those with a number that is written as *)
(* a float and those with private content, and no others; and a form that   *)
(* it prints satisfies the schema.                                          *)
THEOREM SchemaBoundsIngestion == HostSpec => []SchemaMatchesIngestion
<1>1. HostInv => SchemaMatchesIngestion
  BY ToolPromises DEF HostInv
<1> QED
  BY <1>1, HostInvariant, PTL

(* The tool prints the same form of every respelling of a form.             *)
THEOREM FormIsIdentity == HostSpec => []CanonicalSettles
<1>1. HostInv => CanonicalSettles
  BY ToolPromises DEF HostInv
<1> QED
  BY <1>1, HostInvariant, PTL

(* Exit code 0 is one device that meets every condition.                    *)
THEOREM AcceptedIsQualified == HostSpec => []AcceptedMeetsAll
<1>1. HostInv => AcceptedMeetsAll
  BY PreflightPromises DEF HostInv
<1> QED
  BY <1>1, HostInvariant, PTL

(* A device that meets every condition is accepted.                         *)
THEOREM NobodyIsRefused == HostSpec => []QualifiedIsAccepted
<1>1. HostInv => QualifiedIsAccepted
  BY PreflightPromises DEF HostInv
<1> QED
  BY <1>1, HostInvariant, PTL

(* A release says of its build what is true of it, and leaves no keystore.  *)
THEOREM ReleaseIsHonest == HostSpec => []ReleaseTellsTheTruth
<1>1. HostInv => ReleaseTellsTheTruth
  BY ReleaseIsTold DEF HostInv
<1> QED
  BY <1>1, HostInvariant, PTL
=============================================================================

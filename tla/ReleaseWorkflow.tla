--------------------------- MODULE ReleaseWorkflow ---------------------------
(* The release workflow (.github/workflows/release.yml and the scripts it   *)
(* runs): each run builds the tag twice on hosted runners, then signs the   *)
(* first build, assembles and validates the evidence and publishes, on the  *)
(* one self-hosted runner.  Every job checks the tag out by its name, so a  *)
(* tag that is moved gives the jobs of one run different commits.           *)
EXTENDS Naturals, FiniteSets

CONSTANTS
    Commits, Branch,  \* the commits; the head of the branch a dispatch is made on
    Runs,             \* runs of the workflow
    GroupOf,          \* the concurrency group of each: its ref
    ContentOf,        \* what a commit builds: [version, native, bytes]
    Tag,              \* the version that the tag names
    Installed,        \* SDK packages that the signing runner may have
    Pins, Packages,   \* PINNED and REQUIRED_SDK_PACKAGE_PATHS
    MaxMoves          \* bound: how often the tag is moved

VerifyCommand == "verify -Werr"
Evidence == INSTANCE EvidenceContract

Envs == {"clean-a", "clean-b"}
NoCommit == "no commit"
Unbuilt == [commit |-> NoCommit, odd |-> FALSE]
NoEvidence == [commit |-> NoCommit]
Idle == "idle"
NoRelease == [by |-> Idle]

Phases == {"queued", "building", "compare", "provider", "resolve", "sign", "evidence",
           "publish", "cleanup", "published", "failed"}

(* A build of a commit.  Builds that are not reproducible differ in odd:    *)
(* only the second one may have it, as the two are only compared.           *)
Artifacts == [commit : Commits, odd : BOOLEAN]
Digest(artifact) == <<ContentOf[artifact.commit].bytes, artifact.odd>>

ASSUME WorkflowAssumption ==
    /\ Branch \in Commits
    /\ Idle \notin Runs
    /\ GroupOf \in [Runs -> {"tag", "branch"}]
    /\ \A c \in Commits : ContentOf[c].native \in BOOLEAN
    /\ MaxMoves \in Nat

VARIABLES
    tagAt, moves,    \* the commit of the tag, and how often it has moved
    phase,           \* where each run is
    began,           \* moves, when the run began
    built,           \* its two unsigned builds
    head,            \* what its signing job has checked out
    identical,       \* the outcome of the comparison
    signed,          \* its signed build
    evidence,        \* its evidence document
    runner,          \* the run whose signing job is on the self-hosted runner
    keystore,        \* is there a keystore in RUNNER_TEMP
    installed,       \* the SDK packages on the runner
    release          \* the published release

ofRuns == <<phase, began, built, head, identical, signed, evidence>>
releaseVars == <<tagAt, moves, ofRuns, runner, keystore, installed, release>>

ReleaseInit ==
    /\ tagAt \in Commits /\ moves = 0
    /\ phase = [w \in Runs |-> "queued"]
    /\ began = [w \in Runs |-> 0]
    /\ built = [w \in Runs |-> [e \in Envs |-> Unbuilt]]
    /\ head = [w \in Runs |-> NoCommit]
    /\ identical = [w \in Runs |-> FALSE]
    /\ signed = [w \in Runs |-> Unbuilt]
    /\ evidence = [w \in Runs |-> NoEvidence]
    /\ runner = Idle /\ keystore = FALSE
    /\ installed \in Installed
    /\ release = NoRelease
-----------------------------------------------------------------------------
(* The owner moves the tag, which GitHub allows.                            *)
MoveTag ==
    /\ moves < MaxMoves
    /\ moves' = moves + 1
    /\ tagAt' \in Commits \ {tagAt}
    /\ UNCHANGED <<ofRuns, runner, keystore, installed, release>>

Over(w) == phase[w] \in {"published", "failed"}

(* A run starts when no run of its group is under way.                      *)
Start(w) ==
    /\ phase[w] = "queued"
    /\ \A v \in Runs : GroupOf[v] = GroupOf[w] => phase[v] = "queued" \/ Over(v)
    /\ phase' = [phase EXCEPT ![w] = "building"]
    /\ began' = [began EXCEPT ![w] = moves]
    /\ UNCHANGED <<tagAt, moves, built, head, identical, signed, evidence, runner,
                   keystore, installed, release>>

(* One clean build: the pins are checked, the gates run, the artifact is    *)
(* uploaded.  The gates refuse native libraries; a failure ends the run.    *)
Build(w, e) ==
    /\ phase[w] = "building" /\ built[w][e] = Unbuilt
    /\ \/ /\ ~ContentOf[tagAt].native
          /\ \E odd \in {FALSE, e = "clean-b"} :
                built' = [built EXCEPT ![w][e] = [commit |-> tagAt, odd |-> odd]]
          /\ UNCHANGED phase
       \/ phase' = [phase EXCEPT ![w] = "failed"] /\ UNCHANGED built
    /\ UNCHANGED <<tagAt, moves, began, head, identical, signed, evidence, runner,
                   keystore, installed, release>>

(* The signing job gets the runner and checks the tag out again.            *)
TakeRunner(w) ==
    /\ phase[w] = "building" /\ \A e \in Envs : built[w][e] # Unbuilt
    /\ runner = Idle
    /\ runner' = w
    /\ head' = [head EXCEPT ![w] = tagAt]
    /\ phase' = [phase EXCEPT ![w] = "compare"]
    /\ UNCHANGED <<tagAt, moves, began, built, identical, signed, evidence, keystore,
                   installed, release>>

(* A step of the signing job that fails sends it to its last one.           *)
GoesOn(w, next) == phase' = [phase EXCEPT ![w] = next]
Stops(w) == GoesOn(w, "cleanup")

Compare(w) ==
    /\ phase[w] = "compare"
    /\ identical' = [identical EXCEPT ![w] =
          Digest(built[w]["clean-a"]) = Digest(built[w]["clean-b"])]
    /\ GoesOn(w, "provider")
    /\ UNCHANGED <<tagAt, moves, began, built, head, signed, evidence, runner, keystore,
                   installed, release>>

(* The CLI is fetched by its digest; the key reference must be infisical's. *)
RequireProvider(w) ==
    /\ phase[w] = "provider"
    /\ GoesOn(w, "resolve") \/ Stops(w)
    /\ UNCHANGED <<tagAt, moves, began, built, head, identical, signed, evidence, runner,
                   keystore, installed, release>>

(* release-resolve-signing.sh: what it cannot fetch stops it before the     *)
(* keystore is written, what it cannot decode after.                        *)
ResolveSigning(w) ==
    /\ phase[w] = "resolve"
    /\ \/ keystore' = TRUE /\ (GoesOn(w, "sign") \/ Stops(w))
       \/ Stops(w) /\ UNCHANGED keystore
    /\ UNCHANGED <<tagAt, moves, began, built, head, identical, signed, evidence, runner,
                   installed, release>>

(* release-sign-and-verify.sh: the first build, and only with the           *)
(* documented certificate, before and after.                                *)
SignAndVerify(w) ==
    /\ phase[w] = "sign"
    /\ \/ /\ keystore
          /\ signed' = [signed EXCEPT ![w] = built[w]["clean-a"]]
          /\ GoesOn(w, "evidence")
       \/ Stops(w) /\ UNCHANGED signed
    /\ UNCHANGED <<tagAt, moves, began, built, head, identical, evidence, runner, keystore,
                   installed, release>>

(* The document that release-emit-evidence.sh assembles.                    *)
Assembled(w, commit) ==
    [commit |-> commit, toolchain |-> Pins, policy |-> TRUE, packages |-> installed,
     tag |-> Tag, versionName |-> ContentOf[signed[w].commit].version,
     artifact |-> Digest(signed[w]), native |-> FALSE,
     verified |-> TRUE, verifyCommand |-> VerifyCommand,
     compared |-> TRUE, byteIdentical |-> identical[w],
     builds |-> {Digest(built[w][e]) : e \in Envs}]

Emits(w, commit) ==
    /\ phase[w] = "evidence"
    /\ LET e == Assembled(w, commit)
       IN  \/ /\ Evidence!SemanticErrors(e) = {}
              /\ ~ContentOf[signed[w].commit].native
              /\ evidence' = [evidence EXCEPT ![w] = e]
              /\ GoesOn(w, "publish")
           \/ Stops(w) /\ UNCHANGED evidence
    /\ UNCHANGED <<tagAt, moves, began, built, head, identical, signed, runner, keystore,
                   installed, release>>

(* Mutant: the commit is the one of the workflow's environment, which is    *)
(* the head of the branch in a manual dispatch.                             *)
EmitEvidenceFromEnv(w) == Emits(w, IF GroupOf[w] = "branch" THEN Branch ELSE head[w])

(* The commit is what git says is checked out.  The validator must accept   *)
(* the document.                                                            *)
EmitEvidence(w) == Emits(w, head[w])

(* gh release create fails when there is a release of the tag already.      *)
PublishRelease(w) ==
    /\ phase[w] = "publish"
    /\ \/ /\ release = NoRelease
          /\ release' = [by |-> w, apk |-> signed[w], evidence |-> evidence[w],
                         still |-> began[w] = moves]
          /\ GoesOn(w, "published")
       \/ Stops(w) /\ UNCHANGED release
    /\ UNCHANGED <<tagAt, moves, began, built, head, identical, signed, evidence, runner,
                   keystore, installed>>

(* if: always().  The runner is free again.                                 *)
Cleanup(w) ==
    /\ runner = w /\ phase[w] \in {"cleanup", "published"}
    /\ keystore' = FALSE /\ runner' = Idle
    /\ phase' = [phase EXCEPT ![w] = IF @ = "cleanup" THEN "failed" ELSE @]
    /\ UNCHANGED <<tagAt, moves, began, built, head, identical, signed, evidence,
                   installed, release>>

ReleaseNext ==
    \/ MoveTag
    \/ \E w \in Runs :
          \/ Start(w) \/ (\E e \in Envs : Build(w, e)) \/ TakeRunner(w) \/ Compare(w)
          \/ RequireProvider(w) \/ ResolveSigning(w) \/ SignAndVerify(w)
          \/ EmitEvidence(w) \/ PublishRelease(w) \/ Cleanup(w)

ReleaseSpec == ReleaseInit /\ [][ReleaseNext]_releaseVars
-----------------------------------------------------------------------------
(* Properties.                                                              *)

ReleaseTypeOK ==
    /\ tagAt \in Commits /\ moves \in 0..MaxMoves
    /\ phase \in [Runs -> Phases]
    /\ began \in [Runs -> 0..MaxMoves]
    /\ built \in [Runs -> [Envs -> Artifacts \cup {Unbuilt}]]
    /\ head \in [Runs -> Commits \cup {NoCommit}]
    /\ identical \in [Runs -> BOOLEAN]
    /\ signed \in [Runs -> Artifacts \cup {Unbuilt}]
    /\ runner \in Runs \cup {Idle} /\ keystore \in BOOLEAN

(* docs/releasing.md: the tag identifies the exact reviewed commit, and     *)
(* reproducibility is claimed only after the comparison passes.  A release  *)
(* has the version that its tag names, no native code, the digest that its  *)
(* evidence records, and a claim exactly when both builds of its run were   *)
(* equal; when the tag was not moved while its run was under way, the       *)
(* commit in the evidence is the one that was built.  No keystore is left   *)
(* on a runner without a job.                                               *)
ReleaseTellsTheTruth ==
    /\ release # NoRelease =>
          LET e == release.evidence
              content == ContentOf[release.apk.commit]
          IN  /\ content.version = Tag /\ ~content.native
              /\ e.artifact = Digest(release.apk)
              /\ e.byteIdentical <=>
                    Digest(built[release.by]["clean-a"]) = Digest(built[release.by]["clean-b"])
              /\ release.still => e.commit = release.apk.commit
    /\ keystore => runner # Idle
=============================================================================

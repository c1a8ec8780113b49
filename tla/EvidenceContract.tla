-------------------------- MODULE EvidenceContract --------------------------
(* The release-evidence contract (tools/release-evidence/                   *)
(* validate_release_evidence.py), semantic half: what _check_semantics says *)
(* of a document that has the right shape.                                  *)
EXTENDS Naturals, FiniteSets

CONSTANTS
    Pins,          \* the pinned toolchain: PINNED, as one value
    Packages,      \* REQUIRED_SDK_PACKAGE_PATHS
    VerifyCommand  \* REQUIRED_APKSIGNER_COMMAND

(* toolchain: the pins of the document; policy: its five policy flags have  *)
(* the values of a pinned release; packages: path and revision of each      *)
(* resolved SDK package; builds: the digests of the unsigned builds.        *)
ToolchainErrors(e) ==
    (IF e.toolchain = Pins THEN {} ELSE {"pin_mismatch"})
        \cup (IF e.policy THEN {} ELSE {"policy_invalid"})

PackageErrors(e) ==
    IF /\ Packages \subseteq {p.path : p \in e.packages}
       /\ \A p \in e.packages : p.revision # "unknown"
    THEN {} ELSE {"state_invalid"}

VersionErrors(e) ==
    IF e.tag = e.versionName THEN {} ELSE {"state_invalid"}

NativeErrors(e) ==
    IF ~e.native THEN {} ELSE {"policy_invalid", "state_invalid"}

SigningErrors(e) ==
    IF e.verified /\ e.verifyCommand = VerifyCommand THEN {} ELSE {"policy_invalid"}

(* A claim of equal builds needs a comparison and equal digests; equal      *)
(* digests that were compared must be claimed.                              *)
ReproducibilityErrors(e) ==
    LET allEqual == Cardinality(e.builds) = 1
    IN  IF IF e.byteIdentical THEN e.compared /\ allEqual ELSE ~(e.compared /\ allEqual)
        THEN {} ELSE {"state_invalid"}

SemanticErrors(e) ==
    UNION {ToolchainErrors(e), PackageErrors(e), VersionErrors(e), NativeErrors(e),
           SigningErrors(e), ReproducibilityErrors(e)}
=============================================================================

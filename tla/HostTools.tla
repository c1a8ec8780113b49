------------------------------ MODULE HostTools ------------------------------
(* The tools that are run on a host apart from the delivery: the document   *)
(* validators, the preflight of a device and the release workflow.  They    *)
(* share no state; a session uses one of them, and the others stay at rest. *)
EXTENDS ContractTool, Preflight, ReleaseWorkflow

VARIABLE session

hostVars == <<session, toolVars, preflightVars, releaseVars>>

ToolAtRest ==
    tool = "config" /\ call = "schema" /\ input = CHOOSE i \in ConfigInputs : TRUE
PreflightAtRest == situation = CHOOSE s \in Situations : TRUE
ReleaseAtRest == tagAt = Branch /\ installed = CHOOSE i \in Installed : TRUE

HostInit ==
    /\ session \in {"contract", "preflight", "release"}
    /\ session = "contract" \/ (session # "contract" /\ ToolAtRest)
    /\ session = "preflight" \/ (session # "preflight" /\ PreflightAtRest)
    /\ session = "release" \/ (session # "release" /\ ReleaseAtRest)
    /\ ToolInit /\ PreflightInit /\ ReleaseInit

HostNext ==
    /\ UNCHANGED session
    /\ \/ session = "contract" /\ ToolNext /\ UNCHANGED <<preflightVars, releaseVars>>
       \/ session = "preflight" /\ PreflightNext /\ UNCHANGED <<toolVars, releaseVars>>
       \/ session = "release" /\ ReleaseNext /\ UNCHANGED <<toolVars, preflightVars>>

HostSpec == HostInit /\ [][HostNext]_hostVars

(* The variables of every tool have the shapes their modules give them.     *)
HostTypesOK == ToolTypeOK /\ PreflightTypeOK /\ ReleaseTypeOK
=============================================================================

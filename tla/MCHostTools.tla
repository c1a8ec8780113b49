----------------------------- MODULE MCHostTools -----------------------------
(* A small instance of HostTools for TLC.                                   *)
EXTENDS HostTools

(* The validators: an input has at most one thing wrong with it.            *)

Well == [opens |-> TRUE, utf8 |-> "valid", big |-> FALSE, strict |-> TRUE,
         depth |-> "flat", object |-> TRUE, version |-> "supported"]

(* An input with at most one thing wrong with it before it is a document.   *)
MCOutsides ==
    {o \in Outsides : \A f, g \in DOMAIN o : f # g => o[f] = Well[f] \/ o[g] = Well[g]}

Number(kind, value) == [kind |-> kind, value |-> value]

Plain == [policy |-> "device", tag |-> "null", zonePolicy |-> "device", zone |-> Null,
          shift |-> FALSE, radius |-> Number("integer", 0),
          interval |-> Number("integer", 60), flaws |-> {}]

At(word, case) == [word |-> word, case |-> case]

MCZones ==
    {Null, <<At("utc", "upper")>>, <<At("utc", "title")>>, <<At("area", "title")>>}
        \cup {<<At("area", c), s>> : c \in Cases, s \in Segments}
        \cup {<<At("area", "title"), s, At("area", "mixed")>> : s \in Segments}
        \cup {<<At("area", "title"), At("area", "title"), At("area", "title"), s>> :
                  s \in Segments}

MCConfigs ==
    {[Plain EXCEPT !.policy = p, !.tag = t, !.flaws = f] :
         p \in Policies, t \in Tags, f \in {{}} \cup {{flaw} : flaw \in Flaws}}
        \cup {[Plain EXCEPT !.zonePolicy = p, !.zone = z] : p \in Policies, z \in MCZones}
        \cup {[Plain EXCEPT !.shift = s, !.radius = Number(k, r), !.tag = t, !.policy = "fixed"] :
                  s \in BOOLEAN, k \in {"integer", "float", "other"}, r \in {-1, 0, 1, 64, 65},
                  t \in Tags}
        \cup {[Plain EXCEPT !.interval = Number(k, n)] :
                  k \in {"integer", "float", "other"}, n \in {0, 1, 86400, 86401}}

MCConfigInputs ==
    {[outside |-> Well, doc |-> d] : d \in MCConfigs}
        \cup {[outside |-> o, doc |-> Plain] : o \in MCOutsides}

MCOtherInputs == {[outside |-> o, doc |-> d] : o \in MCOutsides, d \in OtherDocs}

(* The preflight: one or two devices, and one thing that is unusual.        *)

MCFine == [sdk |-> TRUE, abilist |-> "good", abi |-> TRUE, home |-> TRUE, room |-> TRUE,
           skew |-> 0, zone |-> TRUE]
MCUsual == [facts |-> [d \in Targets |-> MCFine],
            attached |-> [d \in Targets |-> IF d = "one" THEN "device" ELSE "absent"],
            target |-> Unset, adb |-> TRUE, out |-> "none", occurs |-> {}]
MCSkews == {-SkewBound - 9, -SkewBound - 8, SkewBound - 8, SkewBound + 1}
MCFacts ==
    {[MCFine EXCEPT !.sdk = FALSE], [MCFine EXCEPT !.home = FALSE],
     [MCFine EXCEPT !.room = FALSE], [MCFine EXCEPT !.zone = FALSE]}
        \cup {[MCFine EXCEPT !.abilist = l, !.abi = a] : l \in {"bad", "empty"}, a \in BOOLEAN}
        \cup {[MCFine EXCEPT !.skew = n] : n \in MCSkews}
MCSituations ==
    {[MCUsual EXCEPT !.attached = a] : a \in [Targets -> Attachments]}
        \cup {[MCUsual EXCEPT !.target = t] : t \in Targets \cup {Malformed}}
        \cup {[MCUsual EXCEPT !.facts["one"] = f] : f \in MCFacts}
        \cup {[MCUsual EXCEPT !.adb = b, !.out = o] : b \in BOOLEAN, o \in {"file", "broken"}}
        \cup {[MCUsual EXCEPT !.target = "one", !.occurs = {<<"one", q>>}] :
                 q \in Queries \ {"devices"}}
        \cup {[MCUsual EXCEPT !.occurs = {<<AdbDir, q>>}] : q \in Queries \ {"get-state"}}

(* The release: a commit that only changes documents, one that changes the  *)
(* program, one whose version is another, one with native code; a runner    *)
(* with the pinned packages, with others, or with an unresolved one.        *)

MCContentOf ==
    [c \in Commits |->
        [version |-> IF c = "bumped" THEN "2" ELSE "1",
         bytes |-> IF c = "docs" THEN "main" ELSE c, native |-> c = "native"]]

Package(path, revision) == [path |-> path, revision |-> revision]
MCPinned == {Package(p, "resolved") : p \in Packages}
MCInstalled ==
    {MCPinned, {Package("platforms", "resolved"), Package("cmdline-tools", "resolved")},
     {Package(p, IF p = "platforms" THEN "unknown" ELSE "resolved") : p \in Packages}}
MCGroupOf == [w \in Runs |-> w]
=============================================================================

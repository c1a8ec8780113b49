--------------------------- MODULE ConfigContract ---------------------------
(* The host-side configuration contract (tools/config-validator/            *)
(* validate_config.py): what it accepts, what its published schema accepts, *)
(* and the canonical form of a document.  The members that the rules relate *)
(* and the numbers are modelled one by one, and what can be wrong with any  *)
(* other member by the codes that it is refused with; a zone id is a        *)
(* sequence of segments, each a word in some letter case, because the scan  *)
(* for private content looks at both.                                       *)
EXTENDS Integers, Sequences, FiniteSets

CONSTANTS
    Words,       \* the words a segment of a zone id may be
    LongWords,   \* the ones that make a zone id longer than 64 characters
    HiddenLow,   \* directory names that the scan knows in lower case: home, tmp
    HiddenTitle, \* directory names it knows with a capital: Users
    Endpoints,   \* host names it knows in lower case: localhost
    Utc          \* the one word that is a zone id by itself, in capitals

ASSUME WordsAssumption ==
    /\ LongWords \subseteq Words /\ Utc \in Words \ LongWords
    /\ HiddenLow \subseteq Words /\ HiddenTitle \subseteq Words
    /\ Endpoints \subseteq Words

Cases == {"lower", "title", "mixed", "upper"}
Segments == [word : Words, case : Cases]
Null == <<>>
Zones == {Null} \cup Seq(Segments)

(* A locale tag: absent, written in the standard case of its subtags or in  *)
(* another, of the wrong shape, or longer than 35 characters.               *)
Tags == {"null", "standard", "other", "malformed", "long"}
Policies == {"device", "fixed"}

(* What JSON says of a number: an integer; a float whose value is an        *)
(* integer, as 4.0 or 4e0; or another thing: 4.5, true, null, a string.     *)
Numbers == [kind : {"integer", "float", "other"}, value : Int]

(* What is wrong with the members that are not described here, or with      *)
(* their number: one is missing, not in the contract, of another type (null *)
(* included), or a string that its enumeration does not have.               *)
Flaws == {"missing_field", "unknown_field", "type_invalid", "format_invalid"}

Configs ==
    [policy : Policies, tag : Tags, zonePolicy : Policies, zone : Zones,
     shift : BOOLEAN, radius : Numbers, interval : Numbers, flaws : SUBSET Flaws]

MaxRadius == 64
MaxInterval == 86400

(* The bounds of shiftRadiusPx and of shiftIntervalSeconds.                 *)
WithinBounds(d) ==
    d.radius.value \in 0..MaxRadius /\ d.interval.value \in 1..MaxInterval

TooLong(z) == \E i \in DOMAIN z : z[i].word \in LongWords

(* UTC, or two or three segments.                                           *)
ZoneShape(z) ==
    z = <<[word |-> Utc, case |-> "upper"]>> \/ Len(z) \in 2..3
-----------------------------------------------------------------------------
(* _check_node, member by member, as the set of codes it reports.  A string *)
(* that is too long is not matched, and the bounds are asked of an integer. *)
StructureErrors(d) ==
    d.flaws \cup
    {code \in {"type_invalid", "format_invalid", "range_invalid"} :
        \/ code = "type_invalid" /\ {d.radius.kind, d.interval.kind} # {"integer"}
        \/ code = "format_invalid" /\ d.tag = "malformed"
        \/ code = "format_invalid" /\ d.zone # Null /\ ~TooLong(d.zone) /\ ~ZoneShape(d.zone)
        \/ code = "range_invalid" /\ d.tag = "long"
        \/ code = "range_invalid" /\ TooLong(d.zone)
        \/ code = "range_invalid" /\ d.radius.kind = "integer" /\ d.radius.value \notin 0..MaxRadius
        \/ code = "range_invalid" /\ d.interval.kind = "integer"
              /\ d.interval.value \notin 1..MaxInterval}

(* Mutant: the two-sided test of the time zone became one-sided.            *)
SemanticErrorsOneSided(d) ==
    IF \/ (d.policy = "fixed") # (d.tag # "null")
       \/ d.zonePolicy = "fixed" /\ d.zone = Null
       \/ d.shift /\ d.radius.value < 1
    THEN {"state_invalid"} ELSE {}

(* _check_semantics, called only for a document without structural errors.  *)
SemanticErrors(d) ==
    IF \/ (d.policy = "fixed") # (d.tag # "null")
       \/ (d.zonePolicy = "fixed") # (d.zone # Null)
       \/ d.shift /\ d.radius.value < 1
    THEN {"state_invalid"} ELSE {}

(* The patterns that a zone id can match: a directory name between two      *)
(* slashes, or a host name at its word boundary.                            *)
Scanned(segment, inner) ==
    \/ segment.case = "lower" /\ segment.word \in Endpoints
    \/ inner /\ segment.case = "lower" /\ segment.word \in HiddenLow
    \/ inner /\ segment.case = "title" /\ segment.word \in HiddenTitle

HygieneErrors(d) ==
    IF \E i \in 1..Len(d.zone) : Scanned(d.zone[i], 1 < i /\ i < Len(d.zone))
    THEN {"hygiene_violation"} ELSE {}
-----------------------------------------------------------------------------
(* The schema that --emit-schema prints: the shapes of SPEC, and one        *)
(* conditional subschema for each section.  A conditional that says nothing *)
(* of an absent or misshapen member leaves it to the shapes.                *)
SchemaConditional(d) ==
    /\ IF d.policy = "fixed" THEN d.tag # "null" ELSE d.tag = "null"
    /\ IF d.zonePolicy = "fixed" THEN d.zone # Null ELSE d.zone = Null
    /\ d.shift => d.radius.value >= 1

(* "type": "integer" admits, in draft 2020-12, every number whose value is  *)
(* an integer, however it is written.                                       *)
SchemaAccepts(d) ==
    /\ d.flaws = {}
    /\ d.tag \notin {"malformed", "long"}
    /\ d.zone = Null \/ (ZoneShape(d.zone) /\ ~TooLong(d.zone))
    /\ "other" \notin {d.radius.kind, d.interval.kind}
    /\ WithinBounds(d)
    /\ SchemaConditional(d)

(* A number of the document is written with a point or an exponent.         *)
WrittenAsFloat(d) == "float" \in {d.radius.kind, d.interval.kind}
-----------------------------------------------------------------------------
(* Mutant: the first letter is made a capital and the others are kept.      *)
CanonicalZoneFirst(z) ==
    [i \in DOMAIN z |-> [z[i] EXCEPT !.case = IF @ = "lower" THEN "title" ELSE @]]

(* _canonical_zone_id: a word with a lower-case letter is written with a    *)
(* capital, a word of capitals is left alone.                               *)
CanonicalZone(z) ==
    [i \in DOMAIN z |-> [z[i] EXCEPT !.case = IF @ = "upper" THEN "upper" ELSE "title"]]

(* _canonical_locale_tag: every subtag in the case of its position.         *)
CanonicalTag(tag) == IF tag = "other" THEN "standard" ELSE tag

(* canonicalize_document                                                    *)
Canonical(d) ==
    [d EXCEPT !.tag = CanonicalTag(@), !.zone = CanonicalZone(@)]
=============================================================================

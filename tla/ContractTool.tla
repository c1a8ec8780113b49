---------------------------- MODULE ContractTool ----------------------------
(* The command line of the three document validators (validate_config.py,   *)
(* validate_receipt.py, validate_release_evidence.py): the arguments, the   *)
(* input that is read, parsed, checked for shape, rules and private         *)
(* content, and the verdict or the canonical form that is printed.  The     *)
(* operator may save a canonical form, respell it, and run the tool again.  *)
EXTENDS ConfigContract

CONSTANTS
    ConfigInputs,   \* inputs that an operator gives to the config validator
    OtherInputs,    \* inputs given to the other two
    MaxRounds       \* bound: runs of the tool, one after the other

Tools == {"config", "receipt", "evidence"}
Calls == {"validate", "canonicalize", "schema", "misuse"}
Codes == {"usage_error", "io_error", "oversized", "json_invalid", "type_invalid",
          "schema_version_unsupported", "missing_field", "unknown_field",
          "format_invalid", "range_invalid", "state_invalid", "hygiene_violation"}
Structural == {"missing_field", "unknown_field", "type_invalid", "format_invalid",
               "range_invalid"}
Stages == {"idle", "args", "read", "parse", "version", "shape", "rules", "scan",
           "report", "ended"}

(* What an input is before it is a document: can the file be opened, are    *)
(* its bytes UTF-8 (if not, a stdin whose locale escapes such bytes gives   *)
(* lone surrogates instead of an error), is it over 8192 bytes, is it       *)
(* strict JSON, how deep does it nest (past 32 levels, past what the        *)
(* interpreter can recurse), is it an object, and which schema version does *)
(* it claim.                                                                *)
Outsides ==
    [opens : BOOLEAN, utf8 : {"valid", "invalid", "escaped"}, big : BOOLEAN, strict : BOOLEAN,
     depth : {"flat", "deep", "abyss"}, object : BOOLEAN,
     version : {"supported", "absent", "nostring", "unsupported"}]

(* The receipt and the evidence are told apart by which checks they fail.   *)
OtherDocs == [shape : BOOLEAN, rules : BOOLEAN, scan : BOOLEAN]

ASSUME ToolAssumption ==
    /\ ConfigInputs \subseteq [outside : Outsides, doc : Configs]
    /\ OtherInputs \subseteq [outside : Outsides, doc : OtherDocs]
    /\ MaxRounds \in Nat \ {0}

VARIABLES
    tool, call, input,   \* what is run, and on what
    stage, errors,       \* the run: where it is, the codes it has reported
    stdout, stderr,      \* what it has printed: nothing, a verdict, a form, ...
    code,                \* its exit code
    saved,               \* the canonical form that an earlier run printed
    rounds

toolRun == <<tool, call, input>>
toolVars == <<toolRun, stage, errors, stdout, stderr, code, saved, rounds>>

Nothing == [kind |-> "nothing"]
Verdict(codes) == [kind |-> "verdict", codes |-> codes]
Running == -1
-----------------------------------------------------------------------------
ToolInit ==
    /\ tool \in Tools
    /\ call \in Calls
    /\ input \in IF tool = "config" THEN ConfigInputs ELSE OtherInputs
    /\ stage = "args"
    /\ errors = {} /\ stdout = Nothing /\ stderr = Nothing /\ code = Running
    /\ saved = Nothing
    /\ rounds = 1

Goes(next) == stage' = next

(* Mutant: what is refused is reported, and the run goes on.                *)
ExitWithoutReturn(n, out, err) ==
    /\ code' = n /\ stdout' = out /\ stderr' = err
    /\ Goes("report")

(* The run ends with an exit code and what it has to say.                   *)
Exit(n, out, err) ==
    /\ code' = n /\ stdout' = out /\ stderr' = err
    /\ stage' = "ended"

Continues == UNCHANGED <<stdout, stderr, code>>

(* An exception nobody catches: a traceback and the exit code of Python.    *)
Crash ==
    /\ Exit(1, Nothing, [kind |-> "traceback"])
    /\ UNCHANGED errors

Fails(codes) == errors' = errors \cup codes

(* The flags of the config validator, which alone knows --canonicalize.     *)
ParseConfigArgs ==
    /\ stage = "args" /\ tool = "config"
    /\ \/ /\ call = "schema"
          /\ Exit(0, [kind |-> "schema"], Nothing)
          /\ UNCHANGED errors
       \/ /\ call = "misuse"
          /\ errors' = {"usage_error"}
          /\ Exit(2, Verdict({"usage_error"}), Nothing)
       \/ /\ call \in {"validate", "canonicalize"}
          /\ Goes("read") /\ Continues /\ UNCHANGED errors
    /\ UNCHANGED <<toolRun, saved, rounds>>

ParseOtherArgs ==
    /\ stage = "args" /\ tool # "config"
    /\ \/ /\ call = "schema"
          /\ Exit(0, [kind |-> "schema"], Nothing)
          /\ UNCHANGED errors
       \/ /\ call \in {"misuse", "canonicalize"}
          /\ errors' = {"usage_error"}
          /\ Exit(2, Verdict({"usage_error"}), Nothing)
       \/ call = "validate" /\ Goes("read") /\ Continues /\ UNCHANGED errors
    /\ UNCHANGED <<toolRun, saved, rounds>>

Unreadable ==
    /\ errors' = {"io_error"}
    /\ Exit(2, Verdict({"io_error"}), Nothing)

(* open and read; bytes that cannot be decoded are an io_error.             *)
ReadConfig ==
    /\ stage = "read" /\ tool = "config"
    /\ LET readable == input.outside.opens /\ input.outside.utf8 # "invalid"
       IN  \/ ~readable /\ Unreadable
           \/ readable /\ Goes("parse") /\ Continues /\ UNCHANGED errors
    /\ UNCHANGED <<toolRun, saved, rounds>>

(* UnicodeDecodeError is no OSError, and the other two catch only that.     *)
ReadOther ==
    /\ stage = "read" /\ tool # "config"
    /\ \/ ~input.outside.opens /\ Unreadable
       \/ input.outside.opens /\ input.outside.utf8 = "invalid" /\ Crash
       \/ /\ input.outside.opens /\ input.outside.utf8 # "invalid"
          /\ Goes("parse") /\ Continues /\ UNCHANGED errors
    /\ UNCHANGED <<toolRun, saved, rounds>>

(* Size and depth are bounded before the parser sees the text.  For its     *)
(* size the text is encoded, which a lone surrogate cannot be: that error   *)
(* is caught by nobody.                                                     *)
ParseConfig ==
    /\ stage = "parse" /\ tool = "config"
    /\ LET o == input.outside
           encoded == o.utf8 # "escaped"
           bounded == ~o.big /\ o.depth = "flat"
       IN  \/ ~encoded /\ Crash
           \/ encoded /\ o.big /\ Fails({"oversized"}) /\ Goes("report") /\ Continues
           \/ /\ encoded /\ ~o.big /\ ~(bounded /\ o.strict)
              /\ Fails({"json_invalid"}) /\ Goes("report") /\ Continues
           \/ /\ encoded /\ bounded /\ o.strict
              /\ Goes("version") /\ Continues /\ UNCHANGED errors
    /\ UNCHANGED <<toolRun, saved, rounds>>

(* Nothing is bounded.  Past the interpreter's depth some builds of Python  *)
(* raise RecursionError in the parser, which nobody catches.                *)
ParseOther ==
    /\ stage = "parse" /\ tool # "config"
    /\ LET o == input.outside
       IN  \/ ~o.strict /\ Fails({"json_invalid"}) /\ Goes("report") /\ Continues
           \/ o.strict /\ o.depth = "abyss" /\ Crash
           \/ o.strict /\ Goes("version") /\ Continues /\ UNCHANGED errors
    /\ UNCHANGED <<toolRun, saved, rounds>>

(* validate_document, up to the version: each of these ends the check.      *)
CheckVersion ==
    /\ stage = "version"
    /\ LET o == input.outside
           code1 == CASE ~o.object -> "type_invalid"
                      [] o.object /\ o.version = "absent" -> "missing_field"
                      [] o.object /\ o.version = "nostring" -> "type_invalid"
                      [] o.object /\ o.version = "unsupported"
                            -> "schema_version_unsupported"
                      [] OTHER -> "none"
       IN  IF code1 = "none" THEN Goes("shape") /\ UNCHANGED errors
                             ELSE Goes("report") /\ Fails({code1})
    /\ Continues
    /\ UNCHANGED <<toolRun, saved, rounds>>

(* _check_node over the whole document.  Where a document nests too deep it *)
(* has a member that is not in the contract, or of another type.            *)
CheckShape ==
    /\ stage = "shape"
    /\ Fails((IF tool = "config" THEN StructureErrors(input.doc)
              ELSE IF input.doc.shape THEN {} ELSE {"format_invalid"})
             \cup (IF input.outside.depth = "flat" THEN {} ELSE {"unknown_field"}))
    /\ Goes("rules") /\ Continues
    /\ UNCHANGED <<toolRun, saved, rounds>>

(* Mutant: a field that is missing does not keep the rules from running.    *)
CheckRulesEagerly ==
    /\ stage = "rules"
    /\ \/ "missing_field" \in errors /\ Crash
       \/ /\ "missing_field" \notin errors
          /\ Fails(IF tool = "config" THEN SemanticErrors(input.doc)
                   ELSE IF input.doc.rules THEN {} ELSE {"state_invalid"})
          /\ Goes("scan") /\ Continues
    /\ UNCHANGED <<toolRun, saved, rounds>>

(* _check_semantics follows the members of the document without asking, and *)
(* is called only when the shape is right.                                  *)
CheckRules ==
    /\ stage = "rules"
    /\ \/ errors \cap Structural # {} /\ UNCHANGED errors
       \/ /\ errors \cap Structural = {}
          /\ Fails(IF tool = "config" THEN SemanticErrors(input.doc)
                   ELSE IF input.doc.rules THEN {} ELSE {"state_invalid"})
    /\ Goes("scan") /\ Continues
    /\ UNCHANGED <<toolRun, saved, rounds>>

(* _check_hygiene walks every string, recursively.                          *)
Scan ==
    /\ stage = "scan"
    /\ \/ input.outside.depth = "abyss" /\ Crash
       \/ /\ input.outside.depth # "abyss"
          /\ Fails(IF tool = "config" THEN HygieneErrors(input.doc)
                   ELSE IF input.doc.scan THEN {} ELSE {"hygiene_violation"})
          /\ Goes("report") /\ Continues
    /\ UNCHANGED <<toolRun, saved, rounds>>

(* The verdict; for --canonicalize the form on stdout, or the verdict on    *)
(* stderr with nothing on stdout.                                           *)
Report ==
    /\ stage = "report"
    /\ \/ /\ call = "validate"
          /\ Exit(IF errors = {} THEN 0 ELSE 1, Verdict(errors), Nothing)
       \/ call = "canonicalize" /\ errors # {} /\ Exit(1, Nothing, Verdict(errors))
       \/ /\ call = "canonicalize" /\ errors = {}
          /\ Exit(0, [kind |-> "form", doc |-> Canonical(input.doc)], Nothing)
    /\ UNCHANGED <<toolRun, errors, saved, rounds>>
-----------------------------------------------------------------------------
(* The operator.                                                            *)

(* Other spellings of a zone that keep the words of capitals as they are.   *)
Respelled(z) ==
    {y \in [DOMAIN z -> Segments] :
        \A i \in DOMAIN z :
            /\ y[i].word = z[i].word
            /\ (z[i].case = "upper") <=> (y[i].case = "upper")}

(* The form that was printed is saved, perhaps respelled, and the tool is   *)
(* run on it again.                                                         *)
RunAgain ==
    /\ stage = "ended" /\ stdout.kind = "form"
    /\ rounds < MaxRounds
    /\ rounds' = rounds + 1
    /\ saved' = stdout.doc
    /\ call' \in {"validate", "canonicalize"}
    /\ \E z \in Respelled(stdout.doc.zone),
          tag \in IF stdout.doc.tag = "standard" THEN {"standard", "other"} ELSE {"null"} :
           input' = [input EXCEPT !.doc = [stdout.doc EXCEPT !.zone = z, !.tag = tag]]
    /\ stage' = "args"
    /\ errors' = {} /\ stdout' = Nothing /\ stderr' = Nothing /\ code' = Running
    /\ UNCHANGED tool

Run ==
    \/ ParseConfigArgs \/ ParseOtherArgs
    \/ ReadConfig \/ ReadOther
    \/ ParseConfig \/ ParseOther
    \/ CheckVersion \/ CheckShape \/ CheckRules \/ Scan
    \/ Report

ToolNext == Run \/ RunAgain

ToolSpec == ToolInit /\ [][ToolNext]_toolVars
-----------------------------------------------------------------------------
(* Properties.                                                              *)

Unprinted == {Nothing} \cup {[kind |-> "schema"], [kind |-> "traceback"]}

(* Every variable has the shape the tool gives it.                          *)
ToolTypeOK ==
    /\ tool \in Tools /\ call \in Calls /\ stage \in Stages
    /\ errors \subseteq Codes
    /\ stdout \in Unprinted \/ stdout.kind \in {"verdict", "form"}
    /\ stderr \in Unprinted \/ stderr.kind = "verdict"
    /\ code \in {Running, 0, 1, 2}
    /\ (code = Running) <=> (stage # "ended")
    /\ rounds \in 0..MaxRounds

(* config/README.md: "Everything else is rejected with a nonzero exit and a *)
(* machine-readable reason".  Whatever the config validator is given, it    *)
(* ends with exit code 0 and no error, or with another code and a verdict   *)
(* that names one, in one place only, unless it reads lone surrogates from  *)
(* stdin.  The validators of the receipt and of the evidence do so unless   *)
(* the bytes cannot be decoded or nest too deep for the interpreter.        *)
AlwaysAVerdict ==
    stage = "ended" =>
        \/ stdout.kind = "schema" /\ code = 0
        \/ /\ IF tool = "config" THEN input.outside.utf8 = "escaped"
              ELSE input.outside.utf8 = "invalid" \/ input.outside.depth = "abyss"
           /\ code = 1 /\ stdout = Nothing
        \/ /\ (code = 0) <=> (errors = {})
           /\ (code = 2) <=> (errors \cap {"usage_error", "io_error"} # {})
           /\ IF call = "canonicalize" /\ code = 1
              THEN stdout = Nothing /\ stderr = Verdict(errors)
              ELSE stderr = Nothing /\ stdout.kind \in {"verdict", "form"}

(* config/README.md: "a standard schema validator rejects the same          *)
(* negatives the CLI does - schema-based authoring cannot produce a         *)
(* document that then fails at ingestion".  Of an input that is a document  *)
(* at all, the validator accepts no more than the published schema, and no  *)
(* less but for two kinds of document, which the schema lets through and    *)
(* the validator refuses: one with a whole number written as a float, and   *)
(* one with private content.  A canonical form satisfies the schema.        *)
SchemaMatchesIngestion ==
    /\ tool = "config" /\ stage = "report"
           /\ input.outside.strict /\ ~input.outside.big /\ input.outside.depth = "flat"
           /\ input.outside.object /\ input.outside.version = "supported"
           => ((errors = {}) <=> /\ SchemaAccepts(input.doc)
                                 /\ ~WrittenAsFloat(input.doc)
                                 /\ HygieneErrors(input.doc) = {})
    /\ stdout.kind = "form" => SchemaAccepts(stdout.doc)

(* config/README.md: canonicalization is idempotent and the form identifies *)
(* the content.  However a printed form is respelled, the tool prints that  *)
(* form again when it accepts the document.                                 *)
CanonicalSettles ==
    stdout.kind = "form" /\ saved # Nothing => stdout.doc = saved

(* config/README.md: the canonical form "cannot contain an endpoint,        *)
(* serial, secret, private path, or device identity", and the scan is run   *)
(* over it.  The form that is printed passes the scan.                      *)
CanonicalIsPublicSafe ==
    stdout.kind = "form" => HygieneErrors(stdout.doc) = {}
=============================================================================

----------------------------- MODULE ConfigStore -----------------------------
(* The configuration store of the JVM clocks (ConfigStore.java): what a      *)
(* process remembers of config.json, what one reload makes of the file, and *)
(* the status.json it publishes.  A document is a value; ExternalConfig     *)
(* accepts it or rejects it for a reason.                                   *)
CONSTANTS
    Accepted,    \* the documents that ExternalConfig.parse accepts
    Oversized,   \* those over MAX_BYTES
    Invalid,     \* those it rejects for any other reason
    NoFile,      \* there is no such file
    Defaults     \* ExternalConfig.defaults()

Documents == Accepted \cup Oversized \cup Invalid

ASSUME DocumentsAssumption ==
    /\ Accepted \cap Oversized = {} /\ Accepted \cap Invalid = {}
    /\ Oversized \cap Invalid = {}
    /\ NoFile \notin Documents \cup {Defaults}
    /\ Defaults \notin Documents

Sources == {"default", "external"}
Reasons == {"none", "oversized", "invalid"}

Stores == [current : Accepted \cup {Defaults}, source : Sources, reject : Reasons]

NewStore == [current |-> Defaults, source |-> "default", reject |-> "none"]

(* Mutant: a rejected document puts the defaults back in force.             *)
RefusedResets(s, reason) == [NewStore EXCEPT !.reject = reason]

(* Whatever is wrong with a document, the last accepted one stays in force. *)
Refused(s, reason) == [s EXCEPT !.reject = reason]

(* Mutant: the limit is looked at once, on the size asked for before.       *)
ParsedUnbounded(s, d) ==
    IF d \in Accepted \cup Oversized
    THEN [current |-> d, source |-> "external", reject |-> "none"]
    ELSE Refused(s, "invalid")

(* ExternalConfig.parse of the bytes that were read, size limit included.   *)
Parsed(s, d) ==
    IF d \in Accepted
    THEN [current |-> d, source |-> "external", reject |-> "none"]
    ELSE Refused(s, IF d \in Oversized THEN "oversized" ELSE "invalid")

(* The three looks that a reload takes at the file, one after the other: is *)
(* it there, how long is it, what does it say.  It may be replaced or gone  *)
(* by the next look.                                                        *)
ReloadStages == {"isfile", "size", "read"}

Reload(s, stage, file) ==
    CASE stage = "isfile" ->
            [store |-> s, next |-> IF file = NoFile THEN "done" ELSE "size"]
      [] stage # "isfile" /\ file = NoFile ->
            [store |-> Refused(s, "invalid"), next |-> "done"]
      [] stage = "size" /\ file \in Oversized ->
            [store |-> Refused(s, "oversized"), next |-> "done"]
      [] stage = "size" /\ file \in Accepted \cup Invalid ->
            [store |-> s, next |-> "read"]
      [] stage = "read" /\ file # NoFile ->
            [store |-> Parsed(s, file), next |-> "done"]

StatusFiles ==
    [source : Sources, reject : Reasons, boot : BOOLEAN,
     effective : Accepted \cup {Defaults}]

(* renderStatus                                                             *)
StatusOf(s, fromBoot) ==
    [source |-> s.source, reject |-> s.reject, boot |-> fromBoot,
     effective |-> s.current]
=============================================================================

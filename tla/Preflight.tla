------------------------------ MODULE Preflight ------------------------------
(* tools/adb-preflight/adb_preflight.py: the read-only prerequisites of a   *)
(* device, asked one adb query at a time while devices come and go, time    *)
(* passes, and any query may fail.  What the tool never reports (serials,   *)
(* the directory of adb) is replaced in every answer before it is read.     *)
EXTENDS Integers, Sequences, FiniteSets

CONSTANTS
    Targets,         \* serials of devices
    AdbDir,          \* the directory of adb, a secret like the serials
    Situations,      \* what an invocation may find
    SkewBound,       \* TX10_PREFLIGHT_MAX_CLOCK_SKEW_SECONDS
    Timeout,         \* TX10_PREFLIGHT_ADB_TIMEOUT_SECONDS
    MaxReplugs,      \* bound: changes of what is attached
    MaxFaults        \* bound: queries that fail though a device could answer

(* The queries, which are the ones that assert_read_only lets through, and  *)
(* the device checks in the order in which they are made and reported.      *)
Queries == {"get-state", "devices", "sdk", "abilist", "abi", "packages", "home", "df",
            "date", "timezone"}
DeviceChecks == <<"android-api", "abi", "package-state", "launcher-state", "storage",
                  "clock-timezone">>

Attachments == {"absent", "offline", "device"}
Nobody == "nobody"         \* no serial, or one that no device has
Unset == "unset"           \* TX10_ADB_TARGET is not in the environment
Malformed == "malformed"
Unread == "garbled"        \* a serial that was replaced in the list of devices
Secrets == Targets \cup {AdbDir}

(* abilist: it has a supported entry, has none, or is empty; abi: the older *)
(* property is supported; skew: how far the clock is ahead of the host's.   *)
Facts == [sdk : BOOLEAN, abilist : {"good", "bad", "empty"}, abi : BOOLEAN,
          home : BOOLEAN, room : BOOLEAN, skew : Int, zone : BOOLEAN]

(* occurs: the secrets that occur, as text, in the answer to a query.       *)
ASSUME PreflightAssumption ==
    /\ AdbDir \notin Targets
    /\ {Nobody, Unset, Malformed, Unread} \cap Targets = {}
    /\ {SkewBound, Timeout, MaxReplugs, MaxFaults} \subseteq Nat
    /\ \A s \in Situations :
          /\ s.facts \in [Targets -> Facts]
          /\ s.attached \in [Targets -> Attachments]
          /\ s.target \in Targets \cup {Unset, Malformed}
          /\ s.adb \in BOOLEAN /\ s.out \in {"none", "file", "broken"}
          /\ s.occurs \subseteq Secrets \X Queries

VARIABLES
    situation, attached,
    replugs, faults,
    clock, started,   \* the host's clock; host_epoch, read once at the start
    redacted,         \* what the redactor replaces
    serial,           \* AdbRunner.serial
    step,             \* what is to be asked next
    skewRead,         \* the difference of the clocks, as it was measured
    checks, report,   \* the checks made, as <<id, status>>; the printed report
    exit,
    answered, flawed  \* who has answered; has a query failed or been garbled

ended == <<report, exit>>
preflightVars ==
    <<situation, attached, replugs, faults, clock, started, redacted, serial, step, skewRead,
      checks, ended, answered, flawed>>

NoReport == [ok |-> FALSE, of |-> Nobody, checks |-> <<>>]
Steps == {"configure", "connect", "sdk", "abilist", "abi", "packages", "home", "df",
          "date", "timezone", "report", "done"}
-----------------------------------------------------------------------------
PreflightInit ==
    /\ situation \in Situations
    /\ attached = situation.attached
    /\ replugs = 0 /\ faults = 0
    /\ clock = 0 /\ started = 0
    /\ redacted = {} /\ serial = Nobody
    /\ step = "configure"
    /\ skewRead = 0
    /\ checks = <<>> /\ report = NoReport /\ exit = -1
    /\ answered = {} /\ flawed = FALSE

Checked(id, good) == Append(checks, <<id, IF good THEN "pass" ELSE "fail">>)

(* What an unmet connection leaves of the device checks.                    *)
Skipped == [i \in DOMAIN DeviceChecks |-> <<DeviceChecks[i], "skip">>]

(* Options and environment, before anything is asked.  What is wrong with   *)
(* them is a usage error, and there is no report.                           *)
Configure ==
    /\ step = "configure"
    /\ LET set == {situation.target} \cap Targets
       IN  /\ redacted' = set \cup (IF situation.adb THEN {AdbDir} ELSE {})
           /\ serial' = IF set = {} THEN Nobody ELSE situation.target
    /\ \/ /\ situation.target = Malformed
          /\ exit' = 2 /\ step' = "done" /\ UNCHANGED checks
       \/ /\ situation.target # Malformed /\ situation.adb
          /\ checks' = Checked("adb-binary", TRUE)
          /\ step' = "connect" /\ UNCHANGED exit
       \/ /\ situation.target # Malformed /\ ~situation.adb
          /\ checks' = Checked("adb-binary", FALSE)
                          \o <<<<"connection-state", "skip">>>> \o Skipped
          /\ step' = "report" /\ UNCHANGED exit
    /\ UNCHANGED <<situation, attached, replugs, faults, clock, started, skewRead, report,
                   answered, flawed>>
-----------------------------------------------------------------------------
(* The devices a query goes to: the one with the serial, or, without one,   *)
(* the only one there is.                                                   *)
Present == {d \in Targets : attached[d] # "absent"}
Addressed ==
    IF serial # Nobody THEN {serial} \cap Targets
    ELSE IF Cardinality(Present) = 1 THEN Present ELSE {}

Answering == {d \in Addressed : attached[d] = "device"}

Garbled(q) == \E s \in redacted : <<s, q>> \in situation.occurs

(* One query: it takes up to the timeout, and one of those who can answers, *)
(* or nobody, when there is none or for another reason.                     *)
Query(q, able, by) ==
    /\ by \in able \cup {Nobody}
    /\ faults' = faults + (IF by = Nobody /\ able # {} THEN 1 ELSE 0)
    /\ faults' <= MaxFaults
    /\ clock' \in clock..(clock + Timeout)
    /\ flawed' = (flawed \/ by = Nobody \/ Garbled(q))
    /\ UNCHANGED <<situation, attached, replugs, started, report, exit>>

Ask(q, by) ==
    /\ Query(q, Answering, by)
    /\ answered' = answered \cup ({by} \ {Nobody})

(* What is read of an answer: what it says; garbled, perhaps nothing.       *)
Reads(q, fact) == IF Garbled(q) THEN {fact, FALSE} ELSE {fact}

(* The connection decides whether the device checks are made.               *)
Connected(met) ==
    /\ checks' = Checked("connection-state", met) \o (IF met THEN <<>> ELSE Skipped)
    /\ step' = IF met THEN "sdk" ELSE "report"
    /\ UNCHANGED skewRead

(* A target of the environment is asked for its state.                      *)
ConnectTarget ==
    /\ step = "connect" /\ situation.target \in Targets
    /\ \E by \in Targets \cup {Nobody} :
          /\ Ask("get-state", by)
          /\ \E good \in Reads("get-state", TRUE) : Connected(by # Nobody /\ good)
    /\ UNCHANGED <<redacted, serial>>

(* Mutant: the serial of the device that was found is not kept.             *)
ConnectOnlyForgetful ==
    /\ step = "connect" /\ situation.target = Unset
    /\ Connected(\E d \in Targets : Present = {d} /\ attached[d] = "device")
    /\ UNCHANGED <<situation, attached, replugs, faults, clock, started, report, exit,
                   answered, flawed, redacted, serial>>

(* Without one, adb devices must list one device, in the right state.  The  *)
(* serial is taken from the redacted list.                                  *)
ConnectOnly ==
    /\ step = "connect" /\ situation.target = Unset
    /\ \E by \in Present \cup {Nobody} :
          /\ Query("devices", Present, by)
          /\ redacted' = IF by = Nobody THEN redacted ELSE redacted \cup Present
          /\ \E good \in Reads("devices", TRUE) :
             \E name \in Reads("devices", TRUE) :
                LET met == by # Nobody /\ Present = {by} /\ attached[by] = "device" /\ good
                IN  /\ Connected(met)
                    /\ serial' = IF ~met THEN serial ELSE IF name THEN by ELSE Unread
    /\ UNCHANGED answered

(* A check that asks one query, which is met by a device of fit.            *)
Check(id, q, fit, next) ==
    /\ step = q
    /\ \E by \in Targets \cup {Nobody} :
          /\ Ask(q, by)
          /\ \E good \in Reads(q, by \in fit) : checks' = Checked(id, good)
    /\ step' = next
    /\ UNCHANGED <<redacted, serial, skewRead>>

CheckApi == Check("android-api", "sdk", {d \in Targets : situation.facts[d].sdk}, "abilist")

(* Mutant: an empty list of ABIs is taken for an answer.                    *)
CheckAbiOnce ==
    Check("abi", "abilist", {d \in Targets : situation.facts[d].abilist = "good"}, "packages")

(* An empty list asks the older property; a query that fails does not.      *)
CheckAbi ==
    \/ /\ step = "abilist"
       /\ \E by \in Targets \cup {Nobody} :
             /\ Ask("abilist", by)
             /\ IF by # Nobody /\ situation.facts[by].abilist = "empty"
                THEN step' = "abi" /\ UNCHANGED checks
                ELSE /\ \E good \in Reads("abilist",
                                      by # Nobody /\ situation.facts[by].abilist = "good") :
                           checks' = Checked("abi", good)
                     /\ step' = "packages"
       /\ UNCHANGED <<redacted, serial, skewRead>>
    \/ Check("abi", "abi", {d \in Targets : situation.facts[d].abi}, "packages")

(* Installed or not is reported, and is no condition.                       *)
CheckPackage ==
    /\ step = "packages"
    /\ \E by \in Targets \cup {Nobody} :
          Ask("packages", by) /\ checks' = Checked("package-state", by # Nobody)
    /\ step' = "home"
    /\ UNCHANGED <<redacted, serial, skewRead>>

CheckLauncher == Check("launcher-state", "home", {d \in Targets : situation.facts[d].home}, "df")
CheckStorage == Check("storage", "df", {d \in Targets : situation.facts[d].room}, "date")

(* The device's clock against host_epoch, which was read at the start.      *)
ReadEpoch ==
    /\ step = "date"
    /\ \E by \in Targets \cup {Nobody} :
          /\ Ask("date", by)
          /\ \E good \in Reads("date", by # Nobody) :
                IF good
                THEN /\ \E now \in clock..clock' :
                           skewRead' = now + situation.facts[by].skew - started
                     /\ step' = "timezone" /\ UNCHANGED checks
                ELSE /\ checks' = Checked("clock-timezone", FALSE)
                     /\ step' = "report" /\ UNCHANGED skewRead
    /\ UNCHANGED <<redacted, serial>>

(* A zone that was garbled may still look like one.                         *)
ReadZone ==
    /\ step = "timezone"
    /\ \E by \in Targets \cup {Nobody} :
          /\ Ask("timezone", by)
          /\ \E zone \in IF by = Nobody THEN {FALSE}
                         ELSE IF Garbled("timezone") THEN BOOLEAN
                         ELSE {situation.facts[by].zone} :
                checks' = Checked("clock-timezone",
                                  zone /\ skewRead \in -SkewBound..SkewBound)
    /\ step' = "report"
    /\ UNCHANGED <<redacted, serial, skewRead>>

(* The report goes to stdout whether or not it can be written to --out.     *)
Publish ==
    /\ step = "report"
    /\ LET ok == \A i \in DOMAIN checks : checks[i][2] = "pass"
       IN  /\ report' = [ok |-> ok, of |-> serial, checks |-> checks]
           /\ exit' = IF situation.out = "broken" THEN 2 ELSE IF ok THEN 0 ELSE 1
    /\ step' = "done"
    /\ UNCHANGED <<situation, attached, replugs, faults, clock, started, redacted, serial,
                   skewRead, checks, answered, flawed>>

(* A cable, a network, or a power supply.                                   *)
Replug ==
    /\ step # "done" /\ replugs < MaxReplugs
    /\ replugs' = replugs + 1
    /\ \E d \in Targets, a \in Attachments : attached' = [attached EXCEPT ![d] = a]
    /\ UNCHANGED <<situation, faults, clock, started, redacted, serial, step, skewRead,
                   checks, ended, answered, flawed>>

PreflightNext ==
    \/ Configure \/ ConnectTarget \/ ConnectOnly
    \/ CheckApi \/ CheckAbi \/ CheckPackage \/ CheckLauncher \/ CheckStorage
    \/ ReadEpoch \/ ReadZone
    \/ Publish
    \/ Replug

PreflightSpec == PreflightInit /\ [][PreflightNext]_preflightVars
-----------------------------------------------------------------------------
(* Properties.                                                              *)

PreflightTypeOK ==
    /\ situation \in Situations
    /\ attached \in [Targets -> Attachments] /\ replugs \in 0..MaxReplugs
    /\ faults \in 0..MaxFaults
    /\ clock \in Nat /\ started \in Nat /\ skewRead \in Int
    /\ redacted \subseteq Secrets
    /\ serial \in Targets \cup {Nobody, Unread}
    /\ step \in Steps
    /\ report = NoReport \/ report.checks = checks
    /\ exit \in {-1, 0, 1, 2}
    /\ answered \subseteq Targets /\ flawed \in BOOLEAN

(* Eight queries at most, the last of them the clock's, follow host_epoch.  *)
Slow == 8 * Timeout

(* delivery/preflight/README.md: the tool "exits 0 only when every          *)
(* prerequisite is met".  With exit code 0 the eight checks are reported in *)
(* their order, all facts were read from one device, the one that the       *)
(* report names and that the environment asked for, and that device meets   *)
(* every condition; its clock, measured against an earlier reading of the   *)
(* host's, may be further behind by the time the queries took.              *)
AcceptedMeetsAll ==
    exit = 0 =>
        /\ [i \in DOMAIN checks |-> checks[i][1]]
              = <<"adb-binary", "connection-state">> \o DeviceChecks
        /\ report.ok
        /\ \E d \in Targets :
              /\ answered = {d} /\ report.of = d
              /\ situation.target \in {d, Unset}
              /\ LET f == situation.facts[d]
                 IN  /\ f.sdk /\ f.home /\ f.room
                     /\ f.abilist = "good" \/ (f.abilist = "empty" /\ f.abi)
                     /\ f.zone \/ Garbled("timezone")
                     /\ -SkewBound - Slow <= f.skew /\ f.skew <= SkewBound

(* A device that meets every condition, with its clock right by more than   *)
(* the time the queries may take, is accepted: it is the target, or the     *)
(* only one, every query was answered and no answer contained a secret.     *)
QualifiedIsAccepted ==
    step = "done" /\ ~flawed /\ replugs = 0 /\ situation.adb /\ situation.out # "broken" =>
        \A d \in Targets :
            LET f == situation.facts[d]
            IN  /\ situation.target = d \/ (situation.target = Unset /\ Present = {d})
                /\ attached[d] = "device"
                /\ f.sdk /\ f.home /\ f.room /\ f.zone
                /\ f.abilist = "good" \/ (f.abilist = "empty" /\ f.abi)
                /\ -SkewBound <= f.skew /\ f.skew <= SkewBound - Slow
                => exit = 0 /\ report.of = d
=============================================================================

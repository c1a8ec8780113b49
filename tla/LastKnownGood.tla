---------------------------- MODULE LastKnownGood ----------------------------
(* What a clock promises about its configuration: a process starts with the *)
(* defaults; each time it looks at the file, in one instant, it takes over  *)
(* an acceptable document, and nothing else moves what is in force.         *)
CONSTANTS Accepted, Documents, NoFile, Defaults

VARIABLES
    file,      \* the document in config.json
    alive,     \* the clock runs
    inForce    \* the configuration in force while it does

vars == <<file, alive, inForce>>

Init ==
    /\ file \in Documents \cup {NoFile}
    /\ alive = FALSE
    /\ inForce = Defaults

Replace ==
    /\ file' \in Documents \cup {NoFile}
    /\ UNCHANGED <<alive, inForce>>

Begin ==
    /\ ~alive
    /\ alive' = TRUE
    /\ UNCHANGED <<file, inForce>>

Look ==
    /\ alive
    /\ file \in Accepted
    /\ inForce' = file
    /\ UNCHANGED <<file, alive>>

End ==
    /\ alive' = FALSE
    /\ inForce' = Defaults
    /\ UNCHANGED file

Next == Replace \/ Begin \/ Look \/ End

Spec == Init /\ [][Next]_vars
=============================================================================

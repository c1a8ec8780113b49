--------------------------- MODULE OneUseApproval ---------------------------
(* What the claim store promises: an approval assertion is spent at most    *)
(* once, by one run, and never becomes usable again, whatever happens to    *)
(* the run that spent it.                                                   *)
CONSTANTS Runs, Approvals, ApprovalOf

VARIABLES
    spent,      \* approvals that no run can claim any more
    executors   \* runs that own the claim of their approval

vars == <<spent, executors>>

Init ==
    /\ spent = {}
    /\ executors = {}

Spend(r) ==
    /\ ApprovalOf[r] \notin spent
    /\ spent' = spent \cup {ApprovalOf[r]}
    /\ executors' = executors \cup {r}

(* A run may lose its claim before it wrote anything; the approval stays    *)
(* spent.                                                                   *)
Abandon(r) ==
    /\ executors' = executors \ {r}
    /\ UNCHANGED spent

Next == \E r \in Runs : Spend(r) \/ Abandon(r)

Spec == Init /\ [][Next]_vars
=============================================================================

-------------------------- MODULE ReceiptContract --------------------------
(* The semantic half of the receipt-v1 contract: what _check_semantics of   *)
(* tools/receipt/validate_receipt.py accepts.  The shape of the document    *)
(* (types, patterns, unknown fields) is taken for granted; a timestamp is   *)
(* a positive number of seconds and NoTime stands for a JSON null.          *)
EXTENDS Naturals, Sequences

NoTime == 0

DeliveryStates == {"built", "published", "delivered", "rolled_back"}
VerificationStates == {"pending", "passed", "failed"}

AllowedTransitions ==
    {<<"built", "published">>, <<"published", "delivered">>,
     <<"delivered", "rolled_back">>}

HistoryEntries == [state : DeliveryStates, at : Nat]

(* rollback is TRUE where the document's "rollback" member is non-null.     *)
Receipts ==
    [history : Seq(HistoryEntries), state : DeliveryStates,
     verification : VerificationStates, verifiedAt : Nat, rollback : BOOLEAN]

ValidHistory(h) ==
    /\ h[1].state = "built"
    /\ \A i \in 2..Len(h) :
          /\ <<h[i-1].state, h[i].state>> \in AllowedTransitions
          /\ h[i-1].at <= h[i].at

(* The first "delivered" entry, which "next(...)" of the validator picks.   *)
FirstDelivered(h, i) ==
    /\ i \in 1..Len(h)
    /\ h[i].state = "delivered"
    /\ \A j \in 1..(i-1) : h[j].state # "delivered"

ValidVerification(doc) ==
    /\ doc.verification # "pending" => doc.state \in {"delivered", "rolled_back"}
    /\ (doc.verification = "pending") <=> (doc.verifiedAt = NoTime)
    /\ doc.verification # "pending" =>
          \E i \in 1..Len(doc.history) :
             /\ FirstDelivered(doc.history, i)
             /\ doc.history[i].at <= doc.verifiedAt

ValidReceipt(doc) ==
    /\ Len(doc.history) > 0
    /\ ValidHistory(doc.history)
    /\ doc.history[Len(doc.history)].state = doc.state
    /\ ValidVerification(doc)
    /\ (doc.state = "rolled_back") <=> doc.rollback
=============================================================================

----------------------------- MODULE MCDelivery -----------------------------
(* Small instances of Delivery for TLC.                                     *)
EXTENDS Delivery, TLC

CONSTANTS r1, r2, a1

MCOneRun == (r1 :> a1)
MCSameApproval == (r1 :> a1) @@ (r2 :> a1)

(* With MaxAge and MaxSkew 0 the approval is fresh at time 2 only.          *)
MCApprovedAt == [a \in Approvals |-> 2]

(* A fresh device, one without a config, and a configured one.              *)
MCDevices ==
    {[apk |-> "absent", config |-> "absent", fg |-> "other", boot |-> FALSE],
     [apk |-> "prior", config |-> "absent", fg |-> "none", boot |-> FALSE],
     [apk |-> "prior", config |-> "prior", fg |-> "other", boot |-> TRUE]}
MCConfigured == {d \in MCDevices : d.config = "prior"}
=============================================================================

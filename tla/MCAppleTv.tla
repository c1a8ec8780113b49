------------------------------ MODULE MCAppleTv ------------------------------
(* A small instance of AppleTv for TLC: two documents with other sounds     *)
(* than the default.                                                        *)
EXTENDS AppleTv

CONSTANTS loud, mute, huge, torn

MCTickOf ==
    [d \in Accepted \cup {Defaults} |->
        CASE d = loud -> "second" [] d = mute -> "off" [] OTHER -> "minute"]
=============================================================================

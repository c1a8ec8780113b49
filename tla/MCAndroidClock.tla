--------------------------- MODULE MCAndroidClock ---------------------------
(* A small instance of AndroidClock for TLC.                                *)
EXTENDS AndroidClock

CONSTANTS show24, stayOff, huge, torn
=============================================================================

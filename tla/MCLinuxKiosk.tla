---------------------------- MODULE MCLinuxKiosk ----------------------------
(* A small instance of LinuxKiosk for TLC.                                  *)
EXTENDS LinuxKiosk

CONSTANTS plain, silver, huge, torn
=============================================================================

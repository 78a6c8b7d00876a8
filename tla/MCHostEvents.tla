----------------------------- MODULE MCHostEvents -----------------------------
(* HostEvents for TLC: nothing to define.                                    *)
EXTENDS HostEvents
=============================================================================

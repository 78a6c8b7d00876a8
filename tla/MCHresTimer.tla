---------------------------- MODULE MCHresTimer ----------------------------
(* HresTimer for TLC: nothing to define.                                   *)
EXTENDS HresTimer
=============================================================================

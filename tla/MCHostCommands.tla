---------------------------- MODULE MCHostCommands ----------------------------
(* HostCommands for TLC: nothing to define.                                  *)
EXTENDS HostCommands
=============================================================================

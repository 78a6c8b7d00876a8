----------------------------- MODULE MCDfuLoader ------------------------------
(* DfuLoader for TLC: both areas hold three packets.                         *)
EXTENDS DfuLoader

ThreeEach == [i \in {"wlan", "bdf"} |-> 3]
\* Single images, several in one request, one the loader does not know, none.
FiveMaps == {{"wlan"}, {"bdf"}, {"wlan", "bdf"}, {"other"}, {}}
=============================================================================

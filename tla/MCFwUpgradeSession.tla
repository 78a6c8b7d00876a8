------------------------- MODULE MCFwUpgradeSession ---------------------------
(* Image sets for model checking FwUpgradeSession.                         *)
EXTENDS FwUpgradeSession

\* Two images, and an empty file system between or after them.
TwoImages   == <<2, 1>>
EmptyMiddle == <<2, 0, 1>>
EmptyLast   == <<2, 0>>
=============================================================================

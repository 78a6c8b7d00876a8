------------------------------ MODULE MCOtaBoot -------------------------------
(* Package sets for model checking OtaBoot.                                *)
EXTENDS OtaBootInv

AppPkg(q)    == [q |-> q, sbl |-> FALSE, magic |-> TRUE]
SblAppPkg(q) == [q |-> q, sbl |-> TRUE,  magic |-> TRUE]
Foreign      == [q |-> "good", sbl |-> FALSE, magic |-> FALSE]

\* APP-only sets that boot or are refused before they are loaded.
AppPackages == {AppPkg("good"), AppPkg("badinit"), Foreign}
\* ... and those whose load or hash check fails.
BadLoadPackages == AppPackages \cup {AppPkg("badload")}
\* Sets that also carry an SBL.
SblPackages == {AppPkg("good"), SblAppPkg("good"), SblAppPkg("badinit")}
AllPackages == BadLoadPackages \cup {SblAppPkg(q) : q \in Quality}
=============================================================================

---------------------------- MODULE MCImageInstall ----------------------------
(* Instances of ImageInstall for TLC.  A block has two units; behind the     *)
(* descriptors come one block each of file system, second file system, RAM   *)
(* dump and user data, then the programs.                                    *)
EXTENDS ImageInstall

E(id, blk, blks, len) ==
  [id |-> id, start |-> blk * 2, size |-> blks * 2, ver |-> 1, len |-> len]
Common == <<E("fs1", 3, 1, 2), E("fs2", 4, 1, 0), E("ram", 5, 1, 1), E("usr", 6, 1, 1)>>

\* Two programs within their half; and a set that reaches into the other half.
ShortSet == <<E("app", 7, 2, 3), E("bdf", 9, 1, 2)>> \o Common
LongSet  == <<E("app", 7, 3, 6), E("bdf", 10, 2, 4)>> \o Common
BothSets == {ShortSet, LongSet}
OneLong  == {LongSet}

G(id, ver, len, disk) == [id |-> id, ver |-> ver, len |-> len, disk |-> disk]
\* The package of tools/fw_upgrade/fw_upgrade.xml; one with images that end at
\* and off block boundaries; a partial one whose app the running set may have;
\* one that does not fit.
Shipped  == [fmt |-> "all", images |-> <<G("fs1", 2, 0, 2), G("sbl", 2, 1, 1), G("app", 2, 5, 5)>>]
Mixed    == [fmt |-> "all", images |-> <<G("app", 3, 4, 4), G("fs1", 3, 1, 2), G("bdf", 3, 1, 1)>>]
Partial  == [fmt |-> "part", images |-> <<G("app", 1, 3, 4), G("fs1", 4, 0, 2), G("bdf", 4, 2, 2)>>]
TooLarge == [fmt |-> "all", images |-> <<G("fs1", 5, 0, 2), G("app", 5, 9, 9)>>]
FewPackages == {Shipped, Mixed, Partial, TooLarge}
OnlyShipped == {Shipped}
\* The file system comes last and is empty.
EmptyLast == {[fmt |-> "all", images |-> <<G("app", 2, 3, 3), G("fs1", 2, 0, 2)>>]}
=============================================================================

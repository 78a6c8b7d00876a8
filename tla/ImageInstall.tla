----------------------------- MODULE ImageInstall -----------------------------
(***************************************************************************)
(* Where an upgrade puts its images and how it writes them: the choice of  *)
(* the trial area, the image entries of the descriptors, the pool of       *)
(* partition handles (modules/fw_upgrade/fw_upgrade_mem.c) and the part of *)
(* the upgrade engine that erases, writes and copies flash                 *)
(* (modules/fw_upgrade/fw_upgrade.c), over several upgrades, with a reboot *)
(* at any time.                                                            *)
(*                                                                         *)
(* Addresses and lengths are in units, BlockSize units to an erase block.  *)
(* A unit of flash holds <<image, version, offset>>, or is erased.  Flash  *)
(* is NOR: a write to a unit that is not erased spoils it.  Sizes are      *)
(* 32 bits wide: Word stands for 2^32.  The SBL's image is in RRAM and     *)
(* only its entry is kept.  The steps of the session that do not concern   *)
(* flash are in FwUpgradeSession, those of accept, reject and the loader   *)
(* in OtaBoot: here each of them is one step.                              *)
(***************************************************************************)
EXTENDS FwdTable, Sequences, FiniteSetsExt

CONSTANTS
  BlockSize,    \* fw_upgrade_mem_params->block_size
  FlashBlocks,  \* density_in_blocks
  Word,         \* 2^32
  SblSize,      \* SBL_MEM_SIZE
  MaxHandles,   \* FW_UPGRADE_MAX_HANDLES
  MaxChunk,     \* FW_UPGRADE_BUF_SIZE
  NoFs,         \* CONFIG_FW_UPGRADE_NO_FS
  Factories,    \* the image entries of FWD 0 a device may be delivered with
  Packages,     \* [fmt : {"all", "part"}, images : Seq([id, ver, len, disk])]
  MaxSessions,  \* bound on the upgrades
  MaxMounts     \* bound on the mounts of the file system between two boots

Programs == {"app", "bdf"}          \* images in the trial area
Ids      == Programs \cup {"fs1", "fs2", "ram", "usr", "sbl"}
FlashSize == FlashBlocks * BlockSize
Addr     == 0 .. FlashSize - 1
Erased   == <<"erased", 0, 0>>
Spoilt   == <<"spoilt", 0, 0>>
Stale    == <<"stale", 0, 0>>       \* what a buffer holds after a failed read

ASSUME InstallAssumption ==
  /\ BlockSize \in Nat \ {0} /\ FlashBlocks \in Nat /\ Word \in Nat /\ Word > FlashSize
  /\ SblSize \in Nat /\ MaxHandles \in Nat \ {0} /\ MaxChunk \in Nat \ {0} /\ NoFs \in BOOLEAN
  /\ MaxSessions \in Nat /\ MaxMounts \in Nat

VARIABLES
  fwd,      \* the descriptors, as in FwdTable
  ent,      \* their image entries
  flash,    \* the flash behind the descriptors
  free,     \* free entries of partition_handles
  active,   \* the FWD whose images run
  boot,     \* as what it was started: Trial, Current or Golden
  sbl,      \* the FDT has an SBL entry of rank AGED
  s,        \* the session
  sessions, \* upgrades so far
  mounts    \* mounts since the last boot

vars == <<fwd, ent, flash, free, active, boot, sbl, s, sessions, mounts>>
bootVars == <<active, boot, sbl, sessions, mounts>>

NoSession == [pc |-> "idle", pkg |-> <<>>, dup |-> FALSE, t |-> 0, start |-> 0, size |-> 0,
              i |-> 1, open |-> FALSE, cnt |-> 0, buf |-> 0, left |-> 0, dl |-> {}]

Init ==
  /\ \E f \in Factories :
       /\ ent = [i \in Sector |-> IF i = 0 THEN f ELSE <<>>]
       /\ flash = [u \in Addr |->
            LET E == {k \in DOMAIN f : f[k].id # "sbl" /\ u \in f[k].start .. f[k].start + f[k].len - 1}
            IN  IF E = {} THEN Erased
                ELSE LET e == f[CHOOSE k \in E : TRUE] IN <<e.id, e.ver, u - e.start>>]
  /\ fwd = [i \in Sector |->
              IF i = 0 THEN [magic |-> TRUE, status |-> "valid", images |-> TRUE, sbl |-> FALSE,
                             rank |-> IF FwdSupportNum = 2 THEN 1 ELSE RankGolden]
              ELSE ErasedFwd]
  /\ free = MaxHandles /\ active = 0 /\ boot = (IF FwdSupportNum = 2 THEN Current ELSE Golden)
  /\ sbl = TRUE /\ s = NoSession /\ sessions = 0 /\ mounts = 0

-----------------------------------------------------------------------------
(* Partitions.                                                             *)

\* fw_upgrade_find_partition takes a handle; without a free one it fails.
Found(i, id) == free > 0 /\ \E k \in DOMAIN ent[i] : ent[i][k].id = id
Entry(i, id) == ent[i][Min({k \in DOMAIN ent[i] : ent[i][k].id = id})]
End(e)       == e.start + e.size

\* fw_upgrade_erase_partition: whole blocks inside the partition.
EraseOK(e, o, n) == n > 0 /\ n % BlockSize = 0 /\ o % BlockSize = 0 /\ o + n <= e.size
Wiped(f, e, o, n) ==
  [u \in Addr |-> IF u \in e.start + o .. e.start + o + n - 1 THEN Erased ELSE f[u]]

\* fw_upgrade_write_partition of the image's units o .. o + n - 1.
Written(f, e, o, n) ==
  [u \in Addr |-> IF u \in e.start + o .. e.start + o + n - 1
                  THEN IF f[u] = Erased THEN <<e.id, e.ver, u - e.start>> ELSE Spoilt
                  ELSE f[u]]

\* Partition e gets a copy of n units of partition d, block by block.
Copied(f, d, e, n) ==
  [u \in Addr |-> IF u \in e.start .. e.start + n - 1 THEN f[d.start + u - e.start] ELSE f[u]]

\* The same by code that does not look whether a block could be read; B are the
\* blocks that could not.
CopiedBlind(f, d, e, n, B) ==
  [u \in Addr |-> IF u \in e.start .. e.start + n - 1 /\ (u - e.start) \div BlockSize \in B
                  THEN Stale ELSE Copied(f, d, e, n)[u]]

\* fw_upgrade_create_partition.
Create(i, e) == ent' = [ent EXCEPT ![i] = Append(@, e)]

-----------------------------------------------------------------------------
(* The trial area (fw_upgrade_select_trial_fwd).                           *)

\* fw_upgrade_get_first_programming_image_start_address: behind the
\* partitions that stay where they are, and behind the descriptors.
ImgStart ==
  Max({End(Entry(active, id)) : id \in {d \in {"fs1", "fs2", "ram", "usr"} : Found(active, d)}}
      \cup {3 * BlockSize})

\* fw_upgrade_get_imageSet_end_addr of FWD 0.  It holds a handle while it
\* asks for the next entry: with a single free handle it sees the first only.
EndKnown == fwd[0].magic /\ free > 0 /\ ent[0] # <<>>
Seen     == IF free > 1 THEN DOMAIN ent[0] ELSE {1}
\* Mutant: the end of the last entry, not the highest.
EndAddrLast == End(ent[0][Len(ent[0])])

EndAddr  == Max({End(ent[0][k]) : k \in {j \in Seen : ent[0][j].id # "sbl"}} \cup {0})

\* The area of FWD t: half of what there is.
Half(from) == (((FlashSize - from) \div BlockSize) \div 2) * BlockSize
TrialArea(t) ==
  IF FwdSupportNum = 2
  THEN LET at == ImgStart + t * Half(ImgStart)
       IN  IF t = 1 /\ at < EndAddr
           THEN [start |-> EndAddr, size |-> (Half(ImgStart) - (EndAddr - at)) % Word]
           ELSE [start |-> at, size |-> Half(ImgStart)]
  ELSE [start |-> EndAddr + (t - 1) * Half(EndAddr), size |-> Half(EndAddr)]

-----------------------------------------------------------------------------
(* The session.                                                            *)

At(p)  == s.pc = p
Go(p)  == s' = [s EXCEPT !.pc = p]
\* The session ends: fw_upgrade_session_fin returns the handle it still has.
Stop   == s' = NoSession /\ free' = IF s.open THEN free + 1 ELSE free

Images == s.pkg.images
Img    == Images[s.i]
\* Disk sizes are rounded up to whole blocks when the header is read.
Disk(g) == IF g.id = "sbl" THEN g.disk
           ELSE ((g.disk + (IF g.disk % BlockSize = 0 THEN 0 ELSE BlockSize)) \div BlockSize)
                  * BlockSize
InArea(g) == g.id \in Programs

Start(p, d) ==
  /\ At("idle") /\ sessions < MaxSessions
  /\ s' = [NoSession EXCEPT !.pc = "info", !.pkg = p, !.dup = d] /\ sessions' = sessions + 1
  /\ UNCHANGED <<fwd, ent, flash, free, active, boot, sbl, mounts>>

\* FW_UPGRADE_STATE_GET_TRIAL_INFO_E.
GetTrialInfo ==
  /\ At("info")
  /\ LET t == SelectTrial(fwd)
     IN  IF t # active /\ (EndKnown \/ (FwdSupportNum = 2 /\ t = 0))
         THEN /\ s' = [s EXCEPT !.pc = "erase", !.t = t, !.start = TrialArea(t).start,
                                !.size = TrialArea(t).size]
              /\ UNCHANGED free
         ELSE Stop
  /\ UNCHANGED <<fwd, ent, flash, bootVars>>

\* FW_UPGRADE_STATE_ERASE_FWD_E.
EraseFwd ==
  /\ At("erase")
  /\ fwd' = [fwd EXCEPT ![s.t] = ErasedFwd] /\ ent' = [ent EXCEPT ![s.t] = <<>>]
  /\ Go(IF NoFs THEN "prepare" ELSE "fs2")
  /\ UNCHANGED <<flash, free, bootVars>>

\* FW_UPGRADE_STATE_ERASE_SECOND_FS_E.
EraseSecondFs ==
  /\ At("fs2")
  /\ IF Found(active, "fs2")
     THEN /\ flash' = Wiped(flash, Entry(active, "fs2"), 0, Entry(active, "fs2").size)
          /\ Go("prepare") /\ UNCHANGED free
     ELSE Stop /\ UNCHANGED flash
  /\ UNCHANGED <<fwd, ent, bootVars>>

\* FW_UPGRADE_STATE_PREPARE_FS_E: the file system in use becomes the second
\* one of the new set, RAM dump and user data stay what they are; a RAM dump
\* is erased if there is one.
Kept(id) == IF Found(active, id) THEN <<Entry(active, id)>> ELSE <<>>

\* Mutant: the second file system of the running set stays the second one.
PreparedSame == <<[Entry(active, "fs2") EXCEPT !.len = 0]>> \o Kept("ram") \o Kept("usr")

Prepared ==
  (IF NoFs THEN <<>> ELSE <<[Entry(active, "fs1") EXCEPT !.id = "fs2", !.len = 0]>>)
    \o Kept("ram") \o Kept("usr")

PrepareFs ==
  /\ At("prepare")
  /\ IF NoFs \/ Found(active, "fs1")
     THEN /\ ent' = [ent EXCEPT ![s.t] = Prepared] /\ Go("config") /\ UNCHANGED free
          /\ flash' = IF Found(active, "ram") /\ flash[Entry(active, "ram").start] # Erased
                      THEN Wiped(flash, Entry(active, "ram"), 0, Entry(active, "ram").size)
                      ELSE flash
     ELSE Stop /\ UNCHANGED <<ent, flash>>
  /\ UNCHANGED <<fwd, bootVars>>

\* fw_upgrade_process_config_file.  Signature and number of images are
\* written before the sizes are checked and an SBL entry is looked for.
\* The loop over the image headers adds up, in 32 bits.
Sums(w) == LET sum[n \in 0 .. Len(w)] == IF n = 0 THEN 0 ELSE sum[n - 1] + w[n] IN sum
Need(D) == Sums([k \in DOMAIN Images |->
                   IF k \in D /\ InArea(Images[k]) THEN Disk(Images[k]) ELSE 0])
Total   == Sums([k \in DOMAIN Images |-> Images[k].len])[Len(Images)]
Fits ==
  /\ Need(DOMAIN Images)[Len(Images)] % Word <= s.size
  /\ \A k \in DOMAIN Images : Images[k].id = "sbl" =>
       Images[k].disk <= SblSize /\ \E j \in DOMAIN Images : Images[j].id = "app"

\* What the download tables of a device are: every partition behind the
\* descriptors, none over another, each image once, two file systems unless
\* the build has none, and (fw_upgrade_select_trial_fwd subtracts without a
\* check) no image beyond the end of the second half.
ImageEntry == [id : Ids, start : Nat, size : Nat, ver : Nat, len : Nat]
Commons    == {"fs1", "fs2", "ram", "usr"}
Apart(d, e) == End(d) <= e.start \/ End(e) <= d.start
Base(f) ==
  Max({End(f[k]) : k \in {j \in DOMAIN f : IF FwdSupportNum = 2 THEN f[j].id \in Commons
                                           ELSE f[j].id # "sbl"}} \cup {3 * BlockSize})
ASSUME FactoryAssumption ==
  \A f \in Factories :
    /\ f \in Seq(ImageEntry)
    /\ \A k \in DOMAIN f : f[k].id # "sbl" =>
         /\ f[k].start >= 3 * BlockSize /\ f[k].len <= f[k].size /\ End(f[k]) <= FlashSize
         /\ FwdSupportNum = 2 => End(f[k]) <= Base(f) + 2 * Half(Base(f))
    /\ \A j, k \in DOMAIN f : j # k =>
         f[j].id # f[k].id /\ (f[j].id # "sbl" /\ f[k].id # "sbl" => Apart(f[j], f[k]))
    /\ \E k \in DOMAIN f : f[k].id \in Programs
    /\ \A id \in {"fs1", "fs2"} : (\E k \in DOMAIN f : f[k].id = id) <=> ~ NoFs

\* Packages are what the code has accepted as one: each image once, none
\* longer than its disk size, sizes that add up in 32 bits; the first file
\* system is among the images unless the build has none.
ASSUME PackageAssumption ==
  \A p \in Packages :
    /\ p.fmt \in {"all", "part"} /\ p.images # <<>>
    /\ p.images \in Seq([id : Programs \cup {"fs1", "sbl"}, ver : Nat, len : Nat, disk : Nat \ {0}])
    /\ \A k \in DOMAIN p.images : p.images[k].len <= p.images[k].disk
    /\ \A j, k \in DOMAIN p.images : j # k => p.images[j].id # p.images[k].id
    /\ (\E k \in DOMAIN p.images : p.images[k].id = "fs1") <=> ~ NoFs
    /\ Sums([k \in DOMAIN p.images |-> IF InArea(p.images[k]) THEN Disk(p.images[k]) ELSE 0])
         [Len(p.images)] < Word

\* Partial upgrade: an image the running set has already, with the padding
\* the hash covers, is not downloaded.
SameAsActive(g) ==
  /\ InArea(g) /\ Found(active, g.id)
  /\ LET e == Entry(active, g.id)
     IN  e.size = Disk(g) /\ \A o \in 0 .. e.size - 1 :
           flash[e.start + o] = IF o < g.len THEN <<g.id, g.ver, o>> ELSE Erased

Config ==
  /\ At("config")
  /\ fwd' = [fwd EXCEPT ![s.t].magic = TRUE, ![s.t].images = TRUE]
  /\ IF Fits /\ sbl
     THEN /\ UNCHANGED free
          /\ IF s.pkg.fmt = "all"
             THEN \E b \in 0 .. Min({MaxChunk, Total}) :
                    s' = [s EXCEPT !.pc = IF b = 0 THEN "recv" ELSE "image", !.buf = b,
                                   !.left = Total - b, !.dl = DOMAIN Images]
             ELSE s' = [s EXCEPT !.pc = "connect",
                                 !.dl = {k \in DOMAIN Images : ~ SameAsActive(Images[k])}]
     ELSE Stop
  /\ UNCHANGED <<ent, flash, bootVars>>

\* The entry of an image of the package; the file system's takes the place of
\* the second one of the running set.
NewEntry(g) ==
  CASE g.id = "fs1" -> [Entry(active, "fs2") EXCEPT !.id = "fs1", !.ver = g.ver, !.len = g.len]
    [] g.id = "sbl" -> [id |-> "sbl", start |-> 0, size |-> g.disk, ver |-> g.ver, len |-> g.len]
    [] OTHER -> [id |-> g.id, start |-> s.start, size |-> Disk(g), ver |-> g.ver, len |-> g.len]
Creatable(g) == free > 0 /\ (g.id = "fs1" => /\ Found(active, "fs2")
                                             /\ Disk(g) <= Entry(active, "fs2").size)

\* FW_UPGRADE_STATE_PREPARE_CONNECT_E of a partial upgrade: the next file to
\* download.  An empty file system is only entered.  Behind the last image the
\* code looks at a header that is not there: it may be the leftover of an
\* older table and name an empty file system.
Connect ==
  LET todo == {k \in s.dl : k >= s.i}
      k == IF todo = {} THEN Len(Images) + 1 ELSE Min(todo)
  IN  /\ At("connect")
      /\ IF todo = {}
         THEN /\ s' = [s EXCEPT !.pc = "dupimages", !.i = 1] /\ UNCHANGED free
              /\ \/ UNCHANGED ent
                 \/ /\ Found(active, "fs2")
                    /\ Create(s.t, [Entry(active, "fs2") EXCEPT !.id = "fs1", !.len = 0])
         ELSE IF Images[k].id = "fs1" /\ Images[k].len = 0
         THEN IF Creatable(Images[k])
              THEN Create(s.t, NewEntry(Images[k])) /\ s' = [s EXCEPT !.i = k + 1] /\ UNCHANGED free
              ELSE Stop /\ UNCHANGED ent
         ELSE /\ UNCHANGED <<ent, free>>
              /\ \E more \in {0, 1} :              \* the file may be too long
                   s' = [s EXCEPT !.pc = "recv", !.i = k, !.left = Images[k].len + more]
      /\ UNCHANGED <<fwd, flash, bootVars>>

\* FW_UPGRADE_STATE_RECEIVE_DATA_E: the plugin has data, or has not.
Receive(n) ==
  /\ At("recv") /\ n <= s.left
  /\ s' = [s EXCEPT !.pc = "image", !.buf = n, !.left = @ - n]
  /\ UNCHANGED <<fwd, ent, flash, free, bootVars>>

\* No more data, an error, a wrong hash, a flash operation that fails, a
\* cancelled session.
SessionFails ==
  /\ s.pc \in {"recv", "image", "dupimages", "dupfs"}
  /\ Stop
  /\ UNCHANGED <<fwd, ent, flash, bootVars>>

\* The image is complete: on to the next one.
Advance(st) ==
  [st EXCEPT !.i = @ + 1, !.open = FALSE, !.start = IF InArea(Img) THEN @ + Disk(Img) ELSE @,
             !.pc = CASE s.pkg.fmt = "part"        -> "connect"
                      [] s.pkg.fmt # "part" /\ s.i = Len(Images) -> "dupfs"
                      [] OTHER -> IF st.buf > 0 THEN "image" ELSE "recv"]

\* fw_upgrade_process_receive_image, the image is not open yet: create its
\* entry, erase its first block.  All in one, an empty image is done at once.
OpenImage ==
  /\ At("image") /\ ~ s.open
  /\ IF Creatable(Img)
     THEN /\ Create(s.t, NewEntry(Img))
          /\ fwd' = [fwd EXCEPT ![s.t].sbl = @ \/ Img.id = "sbl"]
          /\ flash' = IF InArea(Img) THEN Wiped(flash, NewEntry(Img), 0, BlockSize) ELSE flash
          /\ IF Img.len = 0 /\ s.pkg.fmt = "all"
             THEN s' = Advance(s) /\ UNCHANGED free
             ELSE s' = [s EXCEPT !.open = TRUE, !.cnt = 0] /\ free' = free - 1
     ELSE Stop /\ UNCHANGED <<fwd, ent, flash>>
  /\ UNCHANGED bootVars

\* ... the image is open: erase the blocks the data reach into, write, and
\* erase the next block when the data end at a boundary.
\* Which blocks that is: none if the data stay in the block they start in,
\* else those behind it up to the one they end in ...
LastBlock(c, w) == (c + w) \div BlockSize + (IF (c + w) % BlockSize = 0 THEN 0 ELSE 1)
Crosses(c, w)   == c \div BlockSize # (c + w - 1) \div BlockSize
\* ... and the next one, if they end at its start and are not the last.
\* Mutant: the next one is left to the next write.
NextBlockLater(c, w) == FALSE

NextBlock(c, w) == c + w < Img.len /\ (c + w) % BlockSize = 0

WriteImage ==
  LET e == ent[s.t][Len(ent[s.t])]
      c == s.cnt
      w == IF s.pkg.fmt = "part" THEN s.buf ELSE Min({s.buf, Img.len - c})
      b1 == c \div BlockSize + 1
      ahead == Crosses(c, w)
      n1 == (LastBlock(c, w) - b1) * BlockSize
      done == c + w >= Img.len
      next == NextBlock(c, w)
      f1 == IF ahead THEN Wiped(flash, e, b1 * BlockSize, n1) ELSE flash
      f2 == Written(f1, e, c, w)
      st == [s EXCEPT !.cnt = c + w, !.buf = @ - w]
  IN  /\ At("image") /\ s.open
      /\ IF w > Img.len - c \/ (e.id # "sbl" /\ ahead /\ ~ EraseOK(e, b1 * BlockSize, n1))
         THEN Stop /\ UNCHANGED flash
         ELSE /\ flash' = CASE e.id = "sbl" -> flash
                            [] e.id # "sbl" /\ next -> Wiped(f2, e, c + w, BlockSize)
                            [] OTHER -> f2
              /\ IF done THEN s' = Advance(st) /\ free' = free + 1
                 ELSE s' = [st EXCEPT !.pc = "recv"] /\ UNCHANGED free
      /\ UNCHANGED <<fwd, ent, bootVars>>

\* fw_upgrade_process_duplicate_images: what was not downloaded is copied
\* from the running set, behind the images that were.  The result of
\* fw_upgrade_read_partition is ignored: a block that could not be read is
\* written all the same, with what the buffer held.  (After a failed erase or
\* write the code copies the images that follow before it reports the error;
\* SessionFails stops at once.  Nothing of it becomes valid.)
\* Mutant: the copy does not get an entry.
DupImageOnly ==
  /\ At("dupimages") /\ s.i <= Len(Images)
  /\ IF s.i \in s.dl THEN s' = [s EXCEPT !.i = @ + 1] /\ UNCHANGED <<flash, free>>
     ELSE /\ UNCHANGED free
          /\ flash' = Copied(flash, Entry(active, Img.id), NewEntry(Img), Disk(Img))
          /\ s' = [s EXCEPT !.i = @ + 1, !.start = @ + Disk(Img)]
  /\ UNCHANGED <<ent, fwd, bootVars>>

DupImage ==
  /\ At("dupimages") /\ s.i <= Len(Images)
  /\ IF s.i \in s.dl THEN s' = [s EXCEPT !.i = @ + 1] /\ UNCHANGED <<ent, flash, free>>
     ELSE IF free > 1
     THEN /\ Create(s.t, NewEntry(Img)) /\ UNCHANGED free
          /\ \E B \in SUBSET (0 .. Disk(Img) \div BlockSize - 1) :
               flash' = CopiedBlind(flash, Entry(active, Img.id), NewEntry(Img), Disk(Img), B)
          /\ s' = [s EXCEPT !.i = @ + 1, !.start = @ + Disk(Img)]
     ELSE Stop /\ UNCHANGED <<ent, flash>>
  /\ UNCHANGED <<fwd, bootVars>>

DupImagesDone ==
  /\ At("dupimages") /\ s.i > Len(Images) /\ Go("dupfs")
  /\ UNCHANGED <<fwd, ent, flash, free, bootVars>>

\* fw_upgrade_process_duplicate_fs, if asked for.
\* Mutant: from the second to the first.
DupFsBack ==
  /\ At("dupfs")
  /\ IF s.dup /\ Found(active, "fs1") /\ Found(active, "fs2")
     THEN flash' = Copied(flash, Entry(active, "fs2"), Entry(active, "fs1"),
                          Entry(active, "fs1").size)
     ELSE UNCHANGED flash
  /\ Go("finish") /\ UNCHANGED <<fwd, ent, free, bootVars>>

DupFs ==
  /\ At("dupfs")
  /\ IF ~ s.dup THEN Go("finish") /\ UNCHANGED <<flash, free>>
     ELSE IF free > 1 /\ Found(active, "fs1") /\ Found(active, "fs2")
             /\ Entry(active, "fs1").size <= Entry(active, "fs2").size
     THEN /\ flash' = Copied(flash, Entry(active, "fs1"), Entry(active, "fs2"),
                             Entry(active, "fs1").size)
          /\ Go("finish") /\ UNCHANGED free
     ELSE Stop /\ UNCHANGED flash
  /\ UNCHANGED <<fwd, ent, bootVars>>

\* fw_upgrade_session_finalize.  The handle of the SBL's partition is not
\* given back.
Finalize ==
  /\ At("finish")
  /\ fwd' = [fwd EXCEPT ![s.t].status = NorStatus(@, "valid")]
  /\ s' = NoSession
  /\ IF Found(s.t, "sbl") THEN sbl' = FALSE /\ free' = free - 1 ELSE UNCHANGED <<sbl, free>>
  /\ UNCHANGED <<ent, flash, active, boot, sessions, mounts>>

Session ==
  \/ GetTrialInfo \/ EraseFwd \/ EraseSecondFs \/ PrepareFs \/ Config \/ Connect \/ OpenImage
  \/ WriteImage \/ DupImage \/ DupImagesDone \/ DupFs \/ Finalize \/ SessionFails

-----------------------------------------------------------------------------
(* What else happens to the descriptors and the handles.                   *)

\* fw_upgrade_accept_trial_fwd.  The application accepts what it runs; what
\* follows if it accepts a later trial without having rebooted is in OtaBoot.
Accept ==
  /\ Trials(fwd) # {} /\ boot = Trial /\ TrialIndex(fwd) = active
  /\ LET t == TrialIndex(fwd)
         c == CurrentIndex(fwd)
         f == [fwd EXCEPT ![t].rank = HighestRank(fwd) + 1]
     IN  fwd' = IF FwdSupportNum = 2 \/ c # 0
                THEN [f EXCEPT ![c].status = NorStatus(@, "invalid")] ELSE f
  /\ UNCHANGED <<ent, flash, free, active, boot, sbl, s, sessions, mounts>>

\* fw_upgrade_reject_trial_fwd.  Here, too, the handle is lost.
Reject ==
  /\ Trials(fwd) # {}
  /\ LET t == TrialIndex(fwd)
     IN  /\ fwd' = [fwd EXCEPT ![t].status = "invalid", ![t].rank = 1]
         /\ IF Found(t, "sbl") THEN sbl' = TRUE /\ free' = free - 1 ELSE UNCHANGED <<sbl, free>>
  /\ UNCHANGED <<ent, flash, active, boot, s, sessions, mounts>>

\* littlefs_mount looks for its partition and keeps the handle.
Mount ==
  /\ mounts < MaxMounts /\ Found(active, "fs1")
  /\ mounts' = mounts + 1 /\ free' = free - 1
  /\ UNCHANGED <<fwd, ent, flash, active, boot, sbl, s, sessions>>

\* Power fails or the application resets: the loader starts one of the sets it
\* finds; which one, and what becomes of the SBL entries, is in OtaBoot.
Reboot ==
  /\ \E k \in SlotMask(fwd) : active' = SlotTable(fwd)[k] /\ boot' = k
  /\ sbl' \in {sbl, TRUE} /\ free' = MaxHandles /\ s' = NoSession /\ mounts' = 0
  /\ UNCHANGED <<fwd, ent, flash, sessions>>

Next ==
  \/ \E p \in Packages, d \in BOOLEAN : Start(p, d)
  \/ \E n \in 1 .. MaxChunk : Receive(n)
  \/ Session \/ Accept \/ Reject \/ Mount \/ Reboot

Spec == Init /\ [][Next]_vars

-----------------------------------------------------------------------------
(* Properties.                                                             *)

\* The values of the variables.
TypeOK ==
  /\ fwd \in [Sector -> Fwd]
  /\ \A i \in Sector : \A k \in DOMAIN ent[i] :
       ent[i][k] \in ImageEntry
  /\ free \in 0 .. MaxHandles /\ active \in Sector /\ boot \in Slot /\ sbl \in BOOLEAN
  /\ s.t \in Sector /\ s.size \in 0 .. Word - 1 /\ s.buf \in 0 .. MaxChunk /\ s.left \in Nat
  /\ sessions \in 0 .. MaxSessions /\ mounts \in 0 .. MaxMounts

Holds(e) == \A o \in 0 .. e.len - 1 : flash[e.start + o] = <<e.id, e.ver, o>>

\* As far as the code can tell: all but the blocks it never knew it had not read.
Stored(e) == \A o \in 0 .. e.len - 1 : flash[e.start + o] \in {<<e.id, e.ver, o>>, Stale}

\* The images of every valid descriptor are in flash, complete and unspoilt:
\* each unit was erased before it was written (fw_upgrade_process_receive_image
\* decides block by block) and no upgrade since has touched it.  Only a copy
\* from the running set may hold a block that could not be read.
SetsIntact ==
  \A i \in Sector : AppValid(fwd[i]) =>
    \A k \in DOMAIN ent[i] : ent[i][k].id \in Programs => Stored(ent[i][k])

\* The same without the exception.  The code does not keep it: nothing checks the
\* copies of fw_upgrade_process_duplicate_images before the set becomes valid.
SetsExact ==
  \A i \in Sector : AppValid(fwd[i]) =>
    \A k \in DOMAIN ent[i] : ent[i][k].id \in Programs => Holds(ent[i][k])

\* "locate available partition for trial FWD" (fw_upgrade_session_process):
\* the area chosen is inside the flash and no image of another valid set, no
\* file system, RAM dump or user data is in it.
AreaFree ==
  s.pc = "erase" =>
    /\ s.start + s.size <= FlashSize /\ s.start >= 3 * BlockSize
    /\ \A i \in Sector \ {s.t} : AppValid(fwd[i]) =>
         \A k \in DOMAIN ent[i] : ent[i][k].id # "sbl" =>
           End(ent[i][k]) <= s.start \/ ent[i][k].start >= s.start + s.size

\* A set becomes valid only with every image of its package entered, and its
\* file system, unless it was to be a copy of the one in use, is the package's.
InstalledIsPackage ==
  [][\A i \in Sector : (fwd[i].status # "valid" /\ fwd'[i].status = "valid") =>
       \A k \in DOMAIN Images :
         \E j \in DOMAIN ent[i] :
           /\ ent[i][j].id = Images[k].id /\ ent[i][j].ver = Images[k].ver
           /\ (ent[i][j].id = "fs1" /\ ~ s.dup) => Holds(ent[i][j])]_vars

\* An upgrade leaves the file system in use and the user data alone.
RunningDataKept ==
  [][\A id \in {"fs1", "usr"} : \A k \in DOMAIN ent[active] : ent[active][k].id = id =>
       \A u \in ent[active][k].start .. End(ent[active][k]) - 1 : flash'[u] = flash[u]]_flash

\* Every set knows two file system areas, so that the next upgrade, which
\* needs both (EraseSecondFs, PrepareFs), is possible from it.
FsPair ==
  \A i \in Sector : (AppValid(fwd[i]) /\ ~ NoFs) =>
    \E j, k \in DOMAIN ent[i] :
      /\ ent[i][j].id = "fs1" /\ ent[i][k].id = "fs2"
      /\ End(ent[i][j]) <= ent[i][k].start \/ End(ent[i][k]) <= ent[i][j].start

\* "process the case of image length is 0x0 when using all-in-one fw upgrade"
\* (fw_upgrade_process_receive_image): once the whole package has arrived the
\* session does not wait for more.
NeverStarved == ~ (s.pc = "recv" /\ s.left = 0)
=============================================================================

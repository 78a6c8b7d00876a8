------------------------------- MODULE FwdTable -------------------------------
(***************************************************************************)
(* The firmware descriptors (FWDs) in flash and the rules by which the two *)
(* programs that share them read them: the application's upgrade library   *)
(* (modules/fw_upgrade/fw_upgrade_mem.c) and the second-stage boot loader  *)
(* (bootloader/SBL).  One FWD lives in each of the first three erase       *)
(* sectors of the flash.                                                   *)
(*                                                                         *)
(* A FWD is abstracted to the fields the two programs decide on:           *)
(*   magic  : the signature equals FW_UPGRADE_MAGIC_V1                     *)
(*   status : 0xFF "erased", 1 "valid", 0 "invalid"                        *)
(*   rank   : 0 golden, 0xFFFFFFFF (the erased value) trial, else age      *)
(*   images : total_images holds a count (neither 0 nor 0xFF)              *)
(*   sbl    : the image entries name an SBL image                          *)
(***************************************************************************)
EXTENDS Integers, FiniteSets

CONSTANT FwdSupportNum    \* CONFIG_FW_UPGRADE_FWD_SUPPORT_NUM: 2, or 3 with golden

ASSUME FwdSupportNumAssumption == FwdSupportNum \in {2, 3}

Sector == 0 .. 2          \* MAX_FWD_NUM = FW_UPGRADE_MAX_FWD = 3
None   == 3               \* no sector (SBL: index >= MAX_FWD_NUM)

RankTrial  == 2147483647  \* stands for 0xFFFFFFFF, the largest 32-bit rank
RankGolden == 0

Fwd == [magic : BOOLEAN, status : {"erased", "valid", "invalid"},
        rank : Nat, images : BOOLEAN, sbl : BOOLEAN]

\* What a sector erase leaves: all ones.
ErasedFwd == [magic |-> FALSE, status |-> "erased", rank |-> RankTrial,
              images |-> FALSE, sbl |-> FALSE]

\* NOR flash: a write clears bits, it never sets one.  A status byte that was
\* once written 0 stays 0.
NorStatus(old, new) == IF old = "invalid" THEN "invalid" ELSE new

-----------------------------------------------------------------------------
(* The application's reading of the table.                                 *)

AppValid(w) == w.magic /\ w.status = "valid" /\ w.images

\* The sectors get_trial_active_fwd_index walks, and the rank it starts from.
ScanSectors  == IF FwdSupportNum = 2 THEN {0, 1} ELSE {1, 2}
BaseRank(f)  == IF FwdSupportNum = 2 THEN 0 ELSE f[0].rank

Trials(f)     == {i \in ScanSectors : AppValid(f[i]) /\ f[i].rank = RankTrial}
Candidates(f) == {i \in ScanSectors :
                    AppValid(f[i]) /\ f[i].rank # RankTrial /\ f[i].rank > BaseRank(f)}

\* The loop keeps the last trial it meets.
TrialIndex(f) ==
  IF Trials(f) = {} THEN None
  ELSE CHOOSE i \in Trials(f) : \A j \in Trials(f) : j <= i

\* The loop keeps the first FWD of the highest rank, and 0 when it finds none.
CurrentIndex(f) ==
  IF Candidates(f) = {} THEN 0
  ELSE CHOOSE i \in Candidates(f) :
         \A j \in Candidates(f) : f[i].rank > f[j].rank \/ (f[i].rank = f[j].rank /\ i <= j)

\* Mutant: the loop forgets to raise the maximum it starts from.
HighestRankNotRaised(f) == BaseRank(f)

HighestRank(f) ==
  IF Candidates(f) = {} THEN BaseRank(f) ELSE f[CurrentIndex(f)].rank

\* Which FWD an upgrade overwrites.
SelectTrial(f) ==
  IF FwdSupportNum = 2 THEN (IF CurrentIndex(f) = 0 THEN 1 ELSE 0)
  ELSE (IF CurrentIndex(f) = 1 THEN 2 ELSE 1)

\* select_trial_fwd needs the end of the image set of FWD 0 to place the trial.
TrialAreaKnown(f) == (FwdSupportNum = 2 /\ SelectTrial(f) = 0) \/ f[0].magic

\* fw_upgrade_get_current_index: the first accepted FWD, None when there is none.
\* Mutant: rank 0, golden, counts as an accepted one.
OldCurrentsWithGolden(f) == {i \in 0 .. (FwdSupportNum - 1) :
                               AppValid(f[i]) /\ f[i].rank # RankTrial}

OldCurrents(f) == {i \in 0 .. (FwdSupportNum - 1) :
                     AppValid(f[i]) /\ f[i].rank # RankTrial /\ f[i].rank > 0}
FirstCurrent(f) ==
  IF OldCurrents(f) = {} THEN None
  ELSE CHOOSE i \in OldCurrents(f) : \A j \in OldCurrents(f) : i <= j

-----------------------------------------------------------------------------
(* The boot loader's reading of the table.                                 *)

SblValid(w) == w.magic /\ w.status = "valid"

\* INDEX_TRIAL, INDEX_CURRENT, INDEX_GOLDEN; 3 is "none left".
Trial   == 0
Current == 1
Golden  == 2
Slot    == {Trial, Current, Golden}

SlotOf(w) == IF w.rank = RankGolden THEN Golden
             ELSE IF w.rank = RankTrial THEN Trial ELSE Current

\* boot_sbl_get_fwd_info: later sectors overwrite earlier ones of the same slot.
SlotTable(f) ==
  [k \in Slot |->
     LET S == {i \in Sector : SblValid(f[i]) /\ SlotOf(f[i]) = k}
     IN  IF S = {} THEN None ELSE CHOOSE i \in S : \A j \in S : j <= i]

SlotMask(f) == {k \in Slot : SlotTable(f)[k] # None}
=============================================================================

------------------------------- MODULE OtaBoot --------------------------------
(***************************************************************************)
(* Over-the-air upgrade as the persistent memory sees it.  The application *)
(* installs a trial image set, the PBL and the SBL choose what to boot, and *)
(* the booted application accepts or rejects the trial.  Writes to flash   *)
(* or RRAM that the code issues one after the other are actions of their   *)
(* own, and the power may fail between any two of them.  The header fields *)
(* of a new FWD (magic, version, count) count as one write: its status is  *)
(* still erased, so nobody reads them before the last one is there.        *)
(*                                                                         *)
(*   application : modules/fw_upgrade/fw_upgrade.c, fw_upgrade_mem.c,      *)
(*                 drivers/fw_upgrade/qapi_firmware_upgrade.c              *)
(*   SBL         : bootloader/SBL/src/sbl_main.c, system/sbl_flash_fwd.c   *)
(*   PBL (ROM)   : external, modelled from how the SBL uses its results    *)
(***************************************************************************)
EXTENDS FwdTable

CONSTANTS
  Packages,     \* image sets a server may deliver: [q, sbl, magic]
  Auth,         \* TRUE: CS PBL, the SBL verifies the hash of what it loaded
  DoneReboots,  \* TRUE: qapi_Fw_Upgrade_Done is called with the reboot flag
  MaxCrash,     \* bound on power failures
  MaxRank       \* bound on accepted ranks

\* How an image behaves when the SBL tries it: it boots, it is refused before
\* anything is loaded (ELF header, signature), or loading or the final hash
\* check fails after RRAM was overwritten.
Quality == {"good", "badinit", "badload"}

ASSUME OtaBootAssumption ==
  /\ Packages \subseteq [q : Quality, sbl : BOOLEAN, magic : BOOLEAN]
  /\ Auth \in BOOLEAN /\ DoneReboots \in BOOLEAN
  /\ MaxCrash \in Nat /\ MaxRank \in Nat /\ MaxRank < RankTrial

VARIABLES
  fwd,       \* flash: the firmware descriptors
  img,       \* flash: the image set a descriptor describes
  rram,      \* RRAM: the sector whose APP code it holds completely, or None
  appFde,    \* RRAM FDT: the APP entry [addr, rank, mask]
  sblFde,    \* RRAM FDT: the second SBL entry: "aged", "new", "pending", "valid"
  pc,        \* which step of which program comes next
  sbl,       \* SBL RAM: g_sbl_info, plus the rank of the SBL entry PBL picked
  fde,       \* SBL RAM: the working copy of the APP entry
  job,       \* application RAM: the upgrade, accept or reject in progress
  crashes    \* power failures so far

vars == <<fwd, img, rram, appFde, sblFde, pc, sbl, fde, job, crashes>>

SblPc == {"select", "load", "copy", "commitSbl", "commitApp"}
UpgPc == {"erase", "config", "program", "programming", "status", "sblfde"}
AppPc == {"verify", "idle", "accept2", "reject2", "reject3"} \cup UpgPc
Fde   == [addr : Sector \cup {None}, rank : Slot, mask : SUBSET Slot]

NoSbl == [tab |-> [k \in Slot |-> None], mask |-> {}, slot |-> Trial,
          err |-> "none", ota |-> TRUE, rank |-> Current, full |-> TRUE]
NoFde == [addr |-> None, rank |-> Current, mask |-> {}]
NoJob == [t |-> None, done |-> FALSE, pkg |-> [q |-> "good", sbl |-> FALSE, magic |-> TRUE]]

Running == appFde.addr        \* fw_upgrade_get_active_fwd, once the app is up

-----------------------------------------------------------------------------
\* Factory state: one image set in sector 0, golden in the three-FWD layout.
Init ==
  /\ fwd = [i \in Sector |->
              IF i = 0 THEN [magic |-> TRUE, status |-> "valid", images |-> TRUE, sbl |-> FALSE,
                             rank |-> IF FwdSupportNum = 2 THEN 1 ELSE RankGolden]
              ELSE ErasedFwd]
  /\ img = [i \in Sector |-> IF i = 0 THEN "good" ELSE "none"]
  /\ rram = None /\ appFde = NoFde /\ sblFde = "aged"
  /\ pc = "off" /\ sbl = NoSbl /\ fde = NoFde /\ job = NoJob /\ crashes = 0

\* A reset: RAM is lost, flash and RRAM stay.
ToOff == pc' = "off" /\ sbl' = NoSbl /\ fde' = NoFde /\ job' = NoJob

PowerFail ==
  /\ pc # "off" /\ crashes < MaxCrash
  /\ crashes' = crashes + 1
  /\ ToOff
  /\ UNCHANGED <<fwd, img, rram, appFde, sblFde>>

-----------------------------------------------------------------------------
(* Boot.                                                                   *)

\* PBL (ROM): try a new trial SBL once; one that never confirmed is reverted;
\* a confirmed one is used as it is or made the current one.
PblPick(rank, entry) ==
  \/ sblFde = "aged"    /\ rank = Current /\ entry = "aged"
  \/ sblFde = "new"     /\ \/ rank = Trial   /\ entry = "pending"
                           \/ rank = Current /\ entry = "aged"
  \/ sblFde = "pending" /\ rank = Current /\ entry = "aged"
  \/ sblFde = "valid"   /\ \/ rank = Trial   /\ entry = "valid"
                           \/ rank = Current /\ entry = "aged"

\* PBL starts the SBL, which reads the APP entry and scans the descriptors.
Boot ==
  /\ pc = "off"
  /\ \E rank \in {Trial, Current}, entry \in {"aged", "pending", "valid"} :
       /\ PblPick(rank, entry)
       /\ sblFde' = entry
       /\ sbl' = [NoSbl EXCEPT !.tab = SlotTable(fwd), !.mask = SlotMask(fwd), !.rank = rank]
  /\ fde' = appFde
  /\ pc' = "select"
  /\ UNCHANGED <<fwd, img, rram, appFde, job, crashes>>

\* boot_sbl_sw_reset does nothing when it takes the slot for the last one.
LastImage(g) ==
  \/ g.slot = Golden
  \/ g.slot = Current /\ g.tab[Golden] = None
  \/ g.slot = Trial   /\ g.tab[Current] = None

\* boot_sbl_prepare_set_fde and the load that follows; a slot without a valid
\* descriptor leaves the working entry alone and loads from a wrong address.
Prepare(g) ==
  LET s == g.tab[g.slot] IN
  /\ pc' = "load"
  /\ IF s # None
     THEN /\ sbl' = [g EXCEPT !.full = (fde.addr # s)]
          /\ fde' = [addr |-> s, rank |-> g.slot, mask |-> g.mask]
     ELSE sbl' = g /\ UNCHANGED fde

\* boot_sbl_select_validFwd without an error: trial, current, golden.
SblSelect ==
  /\ pc = "select" /\ sbl.err = "none"
  /\ LET tab == sbl.tab
         pick(S) == CHOOSE k \in S : \A j \in S : k <= j
         S0   == {k \in Slot : tab[k] # None}
         s0   == pick(S0)
         ota  == fwd[tab[s0]].sbl
         \* PBL went back to the current SBL, so its trial APP is not tried
         skip == ota /\ sbl.rank = Current /\ s0 = Trial
         g    == [sbl EXCEPT !.ota = ota,
                    !.slot = IF skip /\ S0 # {Trial} THEN pick(S0 \ {Trial}) ELSE s0,
                    !.tab  = IF skip THEN [tab EXCEPT ![Trial] = None] ELSE tab]
     IN  IF S0 = {} THEN Prepare(sbl) ELSE Prepare(g)
  /\ UNCHANGED <<fwd, img, rram, appFde, sblFde, job, crashes>>

\* After an error: reset (the next boot decides), or try the next slot.
\* boot_sbl_update_fwd, called before the reset after a load or hash error,
\* changes the flash only when reading the descriptor fails: never here.
SblErrorReset ==
  /\ pc = "select" /\ sbl.err # "none"
  /\ sbl.ota \/ sbl.err = "load"
  /\ ~ LastImage(sbl)
  /\ ToOff
  /\ UNCHANGED <<fwd, img, rram, appFde, sblFde, crashes>>

\* Mutant: the failed slot is tried again.
SblErrorSame ==
  /\ pc = "select" /\ sbl.err # "none" /\ sbl.slot # Golden
  /\ LastImage(sbl) \/ (~ sbl.ota /\ sbl.err # "load")
  /\ Prepare([sbl EXCEPT !.err = "none"])
  /\ UNCHANGED <<fwd, img, rram, appFde, sblFde, job, crashes>>

SblErrorNext ==
  /\ pc = "select" /\ sbl.err # "none" /\ sbl.slot # Golden
  /\ LastImage(sbl) \/ (~ sbl.ota /\ sbl.err # "load")
  /\ Prepare([sbl EXCEPT !.err = "none", !.slot = @ + 1, !.tab[sbl.slot] = None])
  /\ UNCHANGED <<fwd, img, rram, appFde, sblFde, job, crashes>>

\* After golden the index is 3: the same load is repeated and fails again.  Then
\* boot_sbl_sw_reset takes 3 for a slot that is not the last and resets, but it
\* is called only when the set first selected has an SBL; otherwise the loop
\* never ends ("dead": only the power switch helps).
SblGiveUp ==
  /\ pc = "select" /\ sbl.err # "none" /\ sbl.slot = Golden
  /\ IF sbl.ota THEN ToOff ELSE pc' = "dead" /\ UNCHANGED <<sbl, fde, job>>
  /\ UNCHANGED <<fwd, img, rram, appFde, sblFde, crashes>>

\* An image boot_elf_load_init and sbl_image_auth let through.
Loadable(s) == s # None /\ img[s] \in {"good", "badload"}

\* boot_elf_load_init and sbl_image_auth refuse the image.
SblLoadRefused ==
  /\ pc = "load"
  /\ ~ Loadable(sbl.tab[sbl.slot])
  /\ sbl' = [sbl EXCEPT !.err = "init"]
  /\ pc' = "select"
  /\ UNCHANGED <<fwd, img, rram, appFde, sblFde, fde, job, crashes>>

\* boot_elf_load_image starts; a full load overwrites the code in RRAM.
SblLoadStart ==
  /\ pc = "load"
  /\ Loadable(sbl.tab[sbl.slot])
  /\ rram' = IF sbl.full THEN None ELSE rram
  /\ pc' = "copy"
  /\ UNCHANGED <<fwd, img, appFde, sblFde, sbl, fde, job, crashes>>

\* ... and ends; sbl_compute_verify_hash covers RRAM and RAM segments alike.
\* Mutant: the hash covers only what this boot loaded.
SblLoadEndLoadedOnly ==
  /\ pc = "copy"
  /\ LET s  == sbl.tab[sbl.slot]
         ok == img[s] = "good"
     IN  /\ rram' = IF sbl.full /\ ok THEN s ELSE rram
         /\ sbl'  = [sbl EXCEPT !.err = IF ok THEN "none" ELSE "load"]
         /\ pc'   = IF ok THEN "commitSbl" ELSE "select"
  /\ UNCHANGED <<fwd, img, appFde, sblFde, fde, job, crashes>>

SblLoadEnd ==
  /\ pc = "copy"
  /\ LET s  == sbl.tab[sbl.slot]
         ok == img[s] = "good" /\ (sbl.full \/ rram = s \/ ~ Auth)
     IN  /\ rram' = IF sbl.full /\ ok THEN s ELSE rram
         /\ sbl'  = [sbl EXCEPT !.err = IF ok THEN "none" ELSE "load"]
         /\ pc'   = IF ok THEN "commitSbl" ELSE "select"
  /\ UNCHANGED <<fwd, img, appFde, sblFde, fde, job, crashes>>

\* The trial SBL confirms itself.
SblCommitSbl ==
  /\ pc = "commitSbl"
  /\ sblFde' = IF sbl.rank = Trial /\ sblFde = "pending" THEN "valid" ELSE sblFde
  /\ pc' = "commitApp"
  /\ UNCHANGED <<fwd, img, rram, appFde, sbl, fde, job, crashes>>

\* The APP entry is updated and the application entered.
SblCommitApp ==
  /\ pc = "commitApp"
  /\ appFde' = fde
  /\ pc' = "verify" /\ sbl' = NoSbl /\ fde' = NoFde
  /\ UNCHANGED <<fwd, img, rram, sblFde, job, crashes>>

-----------------------------------------------------------------------------
(* The application.                                                        *)

\* fw_upgrade_reject_trial_fwd, first write: the status of the trial.  done says
\* whether qapi_Fw_Upgrade_Done asked for it.
RejectStatus(done) ==
  LET t == TrialIndex(fwd) IN
  /\ t # None
  /\ fwd' = [fwd EXCEPT ![t].status = NorStatus(@, "invalid")]
  /\ job' = [job EXCEPT !.t = t, !.done = done]
  /\ pc' = "reject2"
  /\ UNCHANGED <<img, rram, appFde, sblFde, sbl, fde, crashes>>

\* qapi_Fw_Upgrade_Verify_FWD, run by main() at every start: a trial that was
\* there and was not booted is rejected; a current one that golden replaced is
\* erased.
TrialPassedOver == appFde.rank # Trial /\ Trial \in appFde.mask

VerifyReject == pc = "verify" /\ TrialPassedOver /\ RejectStatus(FALSE)

VerifyEraseCurrent ==
  /\ pc = "verify" /\ ~ TrialPassedOver
  /\ appFde.rank = Golden /\ Current \in appFde.mask /\ FirstCurrent(fwd) # None
  /\ fwd' = [fwd EXCEPT ![FirstCurrent(fwd)] = ErasedFwd]
  /\ pc' = "idle"
  /\ UNCHANGED <<img, rram, appFde, sblFde, sbl, fde, job, crashes>>

VerifyNothing ==
  /\ pc = "verify"
  /\ IF TrialPassedOver THEN TrialIndex(fwd) = None
     ELSE ~ (appFde.rank = Golden /\ Current \in appFde.mask /\ FirstCurrent(fwd) # None)
  /\ pc' = "idle"
  /\ UNCHANGED <<fwd, img, rram, appFde, sblFde, sbl, fde, job, crashes>>

Reboot ==
  /\ pc = "idle"
  /\ ToOff
  /\ UNCHANGED <<fwd, img, rram, appFde, sblFde, crashes>>

\* fw_upgrade, state GET_TRIAL_INFO: choose the FWD to overwrite; refused when
\* the application itself runs from it.
\* Mutant: the running FWD is not protected.
UpgradeStartAnywhere ==
  /\ pc = "idle"
  /\ TrialAreaKnown(fwd)
  /\ job' = [NoJob EXCEPT !.t = SelectTrial(fwd)]
  /\ pc' = "erase"
  /\ UNCHANGED <<fwd, img, rram, appFde, sblFde, sbl, fde, crashes>>

UpgradeStart ==
  /\ pc = "idle"
  /\ TrialAreaKnown(fwd) /\ SelectTrial(fwd) # Running
  /\ job' = [NoJob EXCEPT !.t = SelectTrial(fwd)]
  /\ pc' = "erase"
  /\ UNCHANGED <<fwd, img, rram, appFde, sblFde, sbl, fde, crashes>>

\* State ERASE_FWD.
\* Mutant: the old descriptor is kept until the new one is written over it.
UpgradeEraseSkipped ==
  /\ pc = "erase"
  /\ pc' = "config"
  /\ UNCHANGED <<fwd, img, rram, appFde, sblFde, sbl, fde, job, crashes>>

UpgradeErase ==
  /\ pc = "erase"
  /\ fwd' = [fwd EXCEPT ![job.t] = ErasedFwd]
  /\ pc' = "config"
  /\ UNCHANGED <<img, rram, appFde, sblFde, sbl, fde, job, crashes>>

\* State PROCESS_CONFIG_FILE: magic, version and image count go to flash, then
\* the entries are checked.  A free SBL entry is asked for in every case, and
\* without one the session ends with the header already written.
ConfigHeader(p) == fwd' = [fwd EXCEPT ![job.t].magic = p.magic, ![job.t].images = TRUE]

UpgradeConfig ==
  /\ pc = "config" /\ sblFde = "aged"
  /\ \E p \in Packages : ConfigHeader(p) /\ job' = [job EXCEPT !.pkg = p]
  /\ pc' = "program"
  /\ UNCHANGED <<img, rram, appFde, sblFde, sbl, fde, crashes>>

UpgradeConfigRefused ==
  /\ pc = "config" /\ sblFde # "aged"
  /\ \E p \in Packages : ConfigHeader(p)
  /\ pc' = "idle" /\ job' = NoJob
  /\ UNCHANGED <<img, rram, appFde, sblFde, sbl, fde, crashes>>

\* State PROCESS_IMAGE, first block: entries are created, the area is erased and
\* written.  Code of an older image of this sector is no longer in flash.
UpgradeProgram ==
  /\ pc = "program"
  /\ fwd' = [fwd EXCEPT ![job.t].sbl = job.pkg.sbl]
  /\ img' = [img EXCEPT ![job.t] = "partial"]
  /\ rram' = IF rram = job.t THEN None ELSE rram
  /\ pc' = "programming"
  /\ UNCHANGED <<appFde, sblFde, sbl, fde, job, crashes>>

\* ... last block of the last image, its hash verified: FINISH.
UpgradeProgrammed ==
  /\ pc = "programming"
  /\ img' = [img EXCEPT ![job.t] = job.pkg.q]
  /\ pc' = "status"
  /\ UNCHANGED <<fwd, rram, appFde, sblFde, sbl, fde, job, crashes>>

\* Cancel, a lost connection, a flash error, a wrong hash: the session ends.
UpgradeFail ==
  /\ pc \in {"erase", "config", "program", "programming"}
  /\ pc' = "idle" /\ job' = NoJob
  /\ UNCHANGED <<fwd, img, rram, appFde, sblFde, sbl, fde, crashes>>

\* fw_upgrade_session_finalize: the status first ...
FinalizeStatus ==
  /\ pc = "status"
  /\ fwd' = [fwd EXCEPT ![job.t].status = NorStatus(@, "valid")]
  /\ pc' = "sblfde"
  /\ UNCHANGED <<img, rram, appFde, sblFde, sbl, fde, job, crashes>>

\* ... then the SBL entry, when the set has an SBL.
FinalizeSbl ==
  /\ pc = "sblfde"
  /\ sblFde' = IF fwd[job.t].sbl /\ sblFde = "aged" THEN "new" ELSE sblFde
  /\ pc' = "idle" /\ job' = NoJob
  /\ UNCHANGED <<fwd, img, rram, appFde, sbl, fde, crashes>>

\* qapi_Fw_Upgrade_Done(1): the trial gets the highest rank ...
\* Mutants: any trial is accepted, booted or not; the old FWD is invalidated
\* before the trial has its rank.
AcceptRankAnyBoot ==
  /\ pc = "idle" /\ TrialIndex(fwd) # None
  /\ HighestRank(fwd) < MaxRank
  /\ fwd' = [fwd EXCEPT ![TrialIndex(fwd)].rank = HighestRank(fwd) + 1]
  /\ job' = [job EXCEPT !.t = CurrentIndex(fwd)]
  /\ pc' = "accept2"
  /\ UNCHANGED <<img, rram, appFde, sblFde, sbl, fde, crashes>>

AcceptInvalidateFirst ==
  /\ pc = "idle" /\ TrialIndex(fwd) # None /\ appFde.rank = Trial
  /\ HighestRank(fwd) < MaxRank
  /\ fwd' = [fwd EXCEPT ![CurrentIndex(fwd)].status = NorStatus(@, "invalid")]
  /\ job' = [job EXCEPT !.t = TrialIndex(fwd)]
  /\ pc' = "accept2"
  /\ UNCHANGED <<img, rram, appFde, sblFde, sbl, fde, crashes>>

AcceptRank ==
  /\ pc = "idle" /\ TrialIndex(fwd) # None /\ appFde.rank = Trial
  /\ HighestRank(fwd) < MaxRank
  /\ LET t == TrialIndex(fwd)
         c == CurrentIndex(fwd)
         more == FwdSupportNum = 2 \/ c # 0
     IN  /\ fwd' = [fwd EXCEPT ![t].rank = HighestRank(fwd) + 1]
         /\ IF more THEN job' = [job EXCEPT !.t = c] /\ pc' = "accept2" /\ UNCHANGED <<sbl, fde>>
            ELSE IF DoneReboots THEN ToOff
            ELSE pc' = "idle" /\ UNCHANGED <<job, sbl, fde>>
  /\ UNCHANGED <<img, rram, appFde, sblFde, crashes>>

\* ... then the FWD it replaces is invalidated, unless that is golden.
AcceptInvalidate ==
  /\ pc = "accept2"
  /\ fwd' = [fwd EXCEPT ![job.t].status = NorStatus(@, "invalid")]
  /\ IF DoneReboots THEN ToOff
     ELSE pc' = "idle" /\ job' = NoJob /\ UNCHANGED <<sbl, fde>>
  /\ UNCHANGED <<img, rram, appFde, sblFde, crashes>>

\* qapi_Fw_Upgrade_Done(0), whatever was booted.
DoneReject == pc = "idle" /\ RejectStatus(TRUE)

RejectRank ==
  /\ pc = "reject2"
  /\ fwd' = [fwd EXCEPT ![job.t].rank = 1]
  /\ pc' = "reject3"
  /\ UNCHANGED <<img, rram, appFde, sblFde, sbl, fde, job, crashes>>

\* fw_upgrade_reject_sbl_trial_fde, when the set has an SBL; it fails when the
\* entry was given up already, and after a failure Done does not reboot.
RejectSbl ==
  /\ pc = "reject3"
  /\ sblFde' = IF fwd[job.t].sbl THEN "aged" ELSE sblFde
  /\ IF job.done /\ DoneReboots /\ (fwd[job.t].sbl => sblFde # "aged") THEN ToOff
     ELSE pc' = "idle" /\ job' = NoJob /\ UNCHANGED <<sbl, fde>>
  /\ UNCHANGED <<fwd, img, rram, appFde, crashes>>

-----------------------------------------------------------------------------
BootStep ==
  \/ Boot \/ SblSelect \/ SblErrorReset \/ SblErrorNext \/ SblGiveUp \/ SblLoadRefused
  \/ SblLoadStart \/ SblLoadEnd \/ SblCommitSbl \/ SblCommitApp

AppStep ==
  \/ VerifyReject \/ VerifyEraseCurrent \/ VerifyNothing \/ Reboot
  \/ UpgradeStart \/ UpgradeErase \/ UpgradeConfig \/ UpgradeConfigRefused
  \/ UpgradeProgram \/ UpgradeProgrammed
  \/ UpgradeFail \/ FinalizeStatus \/ FinalizeSbl
  \/ AcceptRank \/ AcceptInvalidate \/ DoneReject \/ RejectRank \/ RejectSbl

Next == BootStep \/ AppStep \/ PowerFail

Spec == Init /\ [][Next]_vars

\* The CPU executes boot code without waiting for anybody.
FairSpec == Spec /\ WF_vars(BootStep)

-----------------------------------------------------------------------------
(* Properties.                                                             *)

\* Type correctness of flash, RRAM and both programs' RAM.
TypeOK ==
  /\ fwd \in [Sector -> Fwd]
  /\ img \in [Sector -> Quality \cup {"none", "partial"}]
  /\ rram \in Sector \cup {None}
  /\ appFde \in Fde /\ fde \in Fde
  /\ sblFde \in {"aged", "new", "pending", "valid"}
  /\ pc \in {"off", "dead"} \cup SblPc \cup AppPc
  /\ sbl \in [tab : [Slot -> Sector \cup {None}], mask : SUBSET Slot, slot : Slot,
              err : {"none", "init", "load"}, ota : BOOLEAN, rank : {Trial, Current},
              full : BOOLEAN]
  /\ job \in [t : Sector \cup {None}, done : BOOLEAN, pkg : [q : Quality, sbl : BOOLEAN, magic : BOOLEAN]]
  /\ crashes \in Nat

\* An image set the SBL accepts as current or golden.
Accepted(i) == AppValid(fwd[i]) /\ fwd[i].rank # RankTrial

\* At every instant, power failures included, flash holds an accepted image set
\* that boots: installing, accepting and rejecting never leave the device with
\* nothing but an untried or a damaged image.
AcceptedImageBootable == \E i \in Sector : Accepted(i) /\ img[i] = "good"

\* A descriptor reads "valid" only once every image it describes is programmed
\* and verified (finalize writes the status last), so a power failure during
\* the download never makes a half-written image bootable.
ValidIsComplete ==
  \A i \in Sector : SblValid(fwd[i]) => img[i] \notin {"none", "partial"}

\* The application never erases the descriptor or overwrites the flash area of
\* the image it is executing (code runs in place from it).
RunningImageUntouched ==
  [][(pc \in AppPc) => /\ img'[Running] = img[Running]
                       /\ fwd'[Running].magic = fwd[Running].magic]_vars

\* In the three-FWD layout nothing ever changes the golden FWD or its images.
GoldenUntouched ==
  [][FwdSupportNum = 3 => (fwd'[0] = fwd[0] /\ img'[0] = img[0])]_vars

\* No two accepted FWDs have the same rank: the application's choice of the
\* current one never depends on the scan order, also after an interrupted accept.
DistinctRanks ==
  \A i, j \in ScanSectors : i # j /\ Accepted(i) /\ Accepted(j) => fwd[i].rank # fwd[j].rank

\* The code in RRAM belongs to the image the application runs: a RAM-only load
\* is chosen only when an earlier full load of the same image completed.
RramMatchesRunning == pc \in AppPc => rram = Running

\* After every reset an application starts again.
BootsAgain == []<>(pc \in AppPc)

\* The same as far as boot_sbl_select_validFwd keeps it: power failures, refused
\* sets, interrupted upgrades, accepts and rejects never keep the application
\* from starting again, only a set in flash whose load fails or that brought an
\* SBL may.
Harmless == \A i \in Sector : img[i] # "badload" /\ ~ fwd[i].sbl
BootsUnlessSpoilt == <>[]Harmless => []<>(pc \in AppPc)

\* The FWD the SBL booted as current is the one the application calls current.
\* qapi_Fw_Upgrade_Done(1) promises "set trial image to active".
CurrentAgreed ==
  pc \in AppPc /\ appFde.rank = Current => Running = CurrentIndex(fwd) \/ pc = "accept2"

\* "only allow active FWD is trial to accept": the FWD that is accepted is the
\* one the application runs from.
AcceptsRunningTrial ==
  [][(\E i \in Sector : fwd[i].rank = RankTrial /\ AppValid(fwd[i]) /\ fwd'[i].rank # RankTrial
                        /\ fwd'[i].status = "valid") => TrialIndex(fwd) = Running]_vars

\* "SBL image must be upgraded together with APP image": a trial SBL confirms
\* itself only when it starts the trial APP it came with.
SblConfirmedWithTrialApp ==
  [][sblFde = "pending" /\ sblFde' = "valid" => fde.rank = Trial /\ fwd[fde.addr].sbl]_vars
=============================================================================

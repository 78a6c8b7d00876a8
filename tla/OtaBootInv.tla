------------------------------ MODULE OtaBootInv ------------------------------
(***************************************************************************)
(* The inductive invariant behind the safety properties of OtaBoot.  It is *)
(* model-checked on small instances and proved in OtaBootProofs.           *)
(***************************************************************************)
EXTENDS OtaBoot

GoldenFwd == [magic |-> TRUE, status |-> "valid", images |-> TRUE, sbl |-> FALSE,
              rank |-> RankGolden]

ValidTrial(i) == SblValid(fwd[i]) /\ fwd[i].rank = RankTrial

\* Rank 0 is the factory image's and nobody else's; without golden the third
\* sector is never used.
GoldenInv ==
  /\ FwdSupportNum = 3 => fwd[0] = GoldenFwd /\ img[0] = "good"
  /\ \A i \in Sector : i # 0 \/ FwdSupportNum = 2 => fwd[i].rank # RankGolden
  /\ FwdSupportNum = 2 => fwd[2] = ErasedFwd

\* A bootable trial is always where the next upgrade would go.
TrialInv == \A i \in Sector : ValidTrial(i) => i = SelectTrial(fwd)

\* An upgrade works on that FWD, never on the running one, and the status is
\* written only after everything else.
UpgradeInv ==
  pc \in UpgPc =>
    /\ job.t = SelectTrial(fwd) /\ job.t # appFde.addr
    /\ pc # "erase" => fwd[job.t].rank = RankTrial
    /\ pc \in {"config", "program", "programming", "status"} => fwd[job.t].status = "erased"
    /\ pc = "status" => img[job.t] \notin {"none", "partial"}

RejectInv ==
  pc \in {"reject2", "reject3"} => job.t \in ScanSectors /\ fwd[job.t].status = "invalid"

AcceptInv ==
  pc = "accept2" => job.t \in ScanSectors /\ \A i \in Sector : ~ ValidTrial(i)

\* What the SBL holds in RAM is what the scan of the descriptors returned,
\* without the slots it gave up.
SblInv ==
  pc \in SblPc =>
    /\ sbl.mask = SlotMask(fwd)
    /\ \A k \in Slot : sbl.tab[k] \in {None, SlotTable(fwd)[k]}
    /\ pc # "select" /\ sbl.tab[sbl.slot] # None =>
         fde = [addr |-> sbl.tab[sbl.slot], rank |-> sbl.slot, mask |-> sbl.mask]
    /\ pc \notin {"select", "load"} => sbl.tab[sbl.slot] # None
    /\ pc \in {"commitSbl", "commitApp"} =>
         img[sbl.tab[sbl.slot]] = "good" /\ (Auth => rram = sbl.tab[sbl.slot])

AppInv ==
  pc \in AppPc =>
    /\ appFde.addr \in Sector
    /\ Auth => rram = appFde.addr
    /\ pc = "verify" =>
         /\ appFde.mask = SlotMask(fwd)
         /\ appFde.rank = Golden => FwdSupportNum = 3 /\ appFde.addr = 0

\* With a reboot after every Done only images that booted are ever accepted, ...
AcceptedInv ==
  DoneReboots =>
    /\ \A i \in Sector : Accepted(i) => img[i] = "good"
    /\ \E i \in Sector : Accepted(i)

\* ... because the APP entry is never stale: who runs as trial is the trial.
RunningInv ==
  DoneReboots =>
    /\ pc \in AppPc \ {"accept2"} /\ appFde.rank = Trial =>
         appFde.addr = SelectTrial(fwd) /\ img[appFde.addr] = "good"
    /\ pc = "accept2" => \E i \in Sector \ {job.t} : Accepted(i)

\* What holds of the flash alone, at every instant.
FlashInv == GoldenInv /\ TrialInv /\ AcceptedInv /\ ValidIsComplete /\ DistinctRanks

\* Inductive for every layout, package set and crash bound: together with the
\* flash, what each program relies on between two of its writes.
IInv ==
  /\ TypeOK /\ FlashInv
  /\ UpgradeInv /\ RejectInv /\ AcceptInv /\ SblInv /\ AppInv /\ RunningInv
=============================================================================

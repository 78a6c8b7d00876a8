----------------------------- MODULE OtaBootProofs ----------------------------
(***************************************************************************)
(* Proofs of the safety properties of OtaBoot, for both FWD layouts, every *)
(* set of packages, with and without hash verification, and any number of  *)
(* power failures.                                                         *)
(***************************************************************************)
EXTENDS OtaBootInv, TLAPS

-----------------------------------------------------------------------------
(* What the readings of the descriptor table return.                       *)

\* A non-empty set of sectors has a least and a greatest element.
LEMMA SectorExtrema ==
  ASSUME NEW S \in SUBSET Sector, S # {}
  PROVE  /\ \E i \in S : \A j \in S : i <= j
         /\ \E i \in S : \A j \in S : j <= i
<1>1. CASE 0 \in S /\ 2 \in S
  BY <1>1 DEF Sector
<1>2. CASE 0 \in S /\ 2 \notin S /\ 1 \in S
  BY <1>2 DEF Sector
<1>3. CASE 0 \in S /\ 2 \notin S /\ 1 \notin S
  BY <1>3 DEF Sector
<1>4. CASE 0 \notin S /\ 1 \in S /\ 2 \in S
  BY <1>4 DEF Sector
<1>5. CASE 0 \notin S /\ 1 \in S /\ 2 \notin S
  BY <1>5 DEF Sector
<1>6. CASE 0 \notin S /\ 1 \notin S
  <2>1. \A i \in S : i = 2
    <3>1. \A i \in Sector : i = 0 \/ i = 1 \/ i = 2
      BY DEF Sector
    <3> QED BY <1>6, <3>1
  <2>2. PICK i \in S : TRUE
    OBVIOUS
  <2> QED BY <2>1, <2>2
<1> QED BY <1>1, <1>2, <1>3, <1>4, <1>5, <1>6

\* fw_upgrade_get_trial_active_fwd_index reports a trial exactly when there is one.
LEMMA TrialIndexChoice ==
  ASSUME NEW f \in [Sector -> Fwd]
  PROVE  /\ Trials(f) # {} => TrialIndex(f) \in Trials(f)
         /\ Trials(f) = {} => TrialIndex(f) = None
         /\ Trials(f) \subseteq ScanSectors /\ ScanSectors \subseteq Sector
<1>1. ScanSectors \subseteq Sector
  BY DEF ScanSectors, Sector
<1>2. Trials(f) \in SUBSET Sector /\ Trials(f) \subseteq ScanSectors
  BY <1>1 DEF Trials
<1>3. ASSUME Trials(f) # {} PROVE TrialIndex(f) \in Trials(f)
  <2>1. \E i \in Trials(f) : \A j \in Trials(f) : j <= i
    BY <1>2, <1>3, SectorExtrema
  <2> QED BY <1>3, <2>1 DEF TrialIndex
<1> QED BY <1>1, <1>2, <1>3 DEF TrialIndex

LEMMA FirstCurrentChoice ==
  ASSUME NEW f \in [Sector -> Fwd]
  PROVE  /\ FirstCurrent(f) # None => FirstCurrent(f) \in OldCurrents(f)
         /\ OldCurrents(f) \subseteq Sector
<1>1. OldCurrents(f) \in SUBSET Sector
  BY FwdSupportNumAssumption DEF OldCurrents, Sector
<1>2. ASSUME OldCurrents(f) # {} PROVE FirstCurrent(f) \in OldCurrents(f)
  <2>1. \E i \in OldCurrents(f) : \A j \in OldCurrents(f) : i <= j
    BY <1>1, <1>2, SectorExtrema
  <2> QED BY <1>2, <2>1 DEF FirstCurrent
<1> QED BY <1>1, <1>2 DEF FirstCurrent

\* The current FWD: the candidate of the highest rank, the first among equals.
LEMMA CurrentIndexChoice ==
  ASSUME NEW f \in [Sector -> Fwd]
  PROVE  /\ Candidates(f) \subseteq ScanSectors
         /\ Candidates(f) = {} => CurrentIndex(f) = 0
         /\ Candidates(f) # {} =>
              /\ CurrentIndex(f) \in Candidates(f)
              /\ \A j \in Candidates(f) :
                   \/ f[CurrentIndex(f)].rank > f[j].rank
                   \/ f[CurrentIndex(f)].rank = f[j].rank /\ CurrentIndex(f) <= j
<1>1. Candidates(f) \subseteq ScanSectors
  BY DEF Candidates
<1> DEFINE Best(i) == \A j \in Candidates(f) :
                        f[i].rank > f[j].rank \/ (f[i].rank = f[j].rank /\ i <= j)
<1>2. ASSUME Candidates(f) # {} PROVE \E i \in Candidates(f) : Best(i)
  <2>0. \A i \in Sector : f[i].rank \in Nat
    BY DEF Fwd
  <2>1. CASE FwdSupportNum = 2
    <3>1. Candidates(f) \subseteq {0, 1}
      BY <1>1, <2>1 DEF ScanSectors
    <3>2. f[0].rank \in Nat /\ f[1].rank \in Nat
      BY <2>0 DEF Sector
    <3> QED BY <1>2, <3>1, <3>2
  <2>2. CASE FwdSupportNum = 3
    <3>1. Candidates(f) \subseteq {1, 2}
      BY <1>1, <2>2 DEF ScanSectors
    <3>2. f[1].rank \in Nat /\ f[2].rank \in Nat
      BY <2>0 DEF Sector
    <3> QED BY <1>2, <3>1, <3>2
  <2> QED BY <2>1, <2>2, FwdSupportNumAssumption
<1>3. ASSUME Candidates(f) # {} PROVE CurrentIndex(f) \in Candidates(f) /\ Best(CurrentIndex(f))
  BY <1>2, <1>3 DEF CurrentIndex
<1> QED BY <1>1, <1>3 DEF CurrentIndex

\* The FWD an upgrade overwrites is one of the two that alternate, never the
\* current one and never golden.
LEMMA SelectTrialChoice ==
  ASSUME NEW f \in [Sector -> Fwd]
  PROVE  /\ SelectTrial(f) \in ScanSectors
         /\ SelectTrial(f) # CurrentIndex(f)
         /\ CurrentIndex(f) \in ScanSectors \cup {0}
<1>1. CurrentIndex(f) \in ScanSectors \cup {0}
  BY CurrentIndexChoice
<1> QED BY <1>1, FwdSupportNumAssumption DEF SelectTrial, ScanSectors

\* The highest rank bounds the rank of every candidate.
LEMMA HighestRankBound ==
  ASSUME NEW f \in [Sector -> Fwd]
  PROVE  /\ HighestRank(f) \in Nat
         /\ \A j \in Candidates(f) : f[j].rank <= HighestRank(f)
<1>1. \A i \in Sector : f[i].rank \in Nat
  BY DEF Fwd
<1>2. BaseRank(f) \in Nat
  BY <1>1 DEF BaseRank, Sector
<1>3. Candidates(f) \subseteq Sector
  BY CurrentIndexChoice, TrialIndexChoice
<1>4. CASE Candidates(f) = {}
  BY <1>2, <1>4 DEF HighestRank
<1>5. CASE Candidates(f) # {}
  <2>1. CurrentIndex(f) \in Candidates(f) /\ HighestRank(f) = f[CurrentIndex(f)].rank
    BY <1>5, CurrentIndexChoice DEF HighestRank
  <2>2. \A j \in Candidates(f) : \/ f[CurrentIndex(f)].rank > f[j].rank
                                 \/ f[CurrentIndex(f)].rank = f[j].rank
    BY <1>5, CurrentIndexChoice
  <2> QED BY <1>1, <1>3, <2>1, <2>2
<1> QED BY <1>4, <1>5

\* Rewriting a FWD that is not the current one, and is none afterwards, leaves
\* the choice of the FWD to overwrite as it was.
LEMMA SelectTrialFrame ==
  ASSUME NEW f \in [Sector -> Fwd], NEW g \in [Sector -> Fwd], NEW t \in ScanSectors,
         \A i \in Sector : i # t => g[i] = f[i],
         t \notin Candidates(g),
         t \notin Candidates(f) \/ t # CurrentIndex(f)
  PROVE  SelectTrial(g) = SelectTrial(f)
<1>0. ScanSectors \subseteq Sector
  BY DEF ScanSectors, Sector
<1>1. BaseRank(g) = BaseRank(f)
  BY FwdSupportNumAssumption DEF BaseRank, ScanSectors, Sector
<1>2. Candidates(g) = Candidates(f) \ {t}
  BY <1>0, <1>1 DEF Candidates
<1>3. CurrentIndex(g) = CurrentIndex(f)
  <2>1. CASE t \notin Candidates(f) /\ Candidates(f) = {}
    BY <1>2, <2>1, CurrentIndexChoice
  <2>2. CASE Candidates(f) # {} /\ t # CurrentIndex(f)
    <3>1. CurrentIndex(f) \in Candidates(g) /\ CurrentIndex(g) \in Candidates(g)
      BY <1>2, <2>2, CurrentIndexChoice
    <3>2. CurrentIndex(g) \in Candidates(f) /\ CurrentIndex(g) # t
      BY <1>2, <3>1
    <3>3. \A i \in Candidates(g) : g[i] = f[i] /\ f[i].rank \in Nat /\ i \in Int
      BY <1>0, <1>2 DEF Candidates, Fwd, Sector
    <3>4. \/ g[CurrentIndex(g)].rank > g[CurrentIndex(f)].rank
          \/ g[CurrentIndex(g)].rank = g[CurrentIndex(f)].rank /\ CurrentIndex(g) <= CurrentIndex(f)
      BY <3>1, CurrentIndexChoice
    <3>5. \/ f[CurrentIndex(f)].rank > f[CurrentIndex(g)].rank
          \/ f[CurrentIndex(f)].rank = f[CurrentIndex(g)].rank /\ CurrentIndex(f) <= CurrentIndex(g)
      BY <2>2, <3>2, CurrentIndexChoice
    <3> QED BY <3>1, <3>3, <3>4, <3>5
  <2>3. CASE t \notin Candidates(f) /\ Candidates(f) # {}
    BY <2>2, <2>3, CurrentIndexChoice
  <2> QED BY <2>1, <2>2, <2>3
<1> QED BY <1>3 DEF SelectTrial

\* Each slot of the SBL's table is empty or holds a valid FWD of that kind, and
\* a slot is empty only if there is none.
LEMMA SlotTableChoice ==
  ASSUME NEW f \in [Sector -> Fwd]
  PROVE  /\ SlotTable(f) \in [Slot -> Sector \cup {None}]
         /\ \A k \in Slot : SlotTable(f)[k] # None =>
              /\ SlotTable(f)[k] \in Sector
              /\ SblValid(f[SlotTable(f)[k]]) /\ SlotOf(f[SlotTable(f)[k]]) = k
         /\ \A k \in Slot, i \in Sector :
              SblValid(f[i]) /\ SlotOf(f[i]) = k => SlotTable(f)[k] # None
         /\ SlotMask(f) \in SUBSET Slot
<1> DEFINE S(k) == {i \in Sector : SblValid(f[i]) /\ SlotOf(f[i]) = k}
<1>1. ASSUME NEW k \in Slot
      PROVE  /\ S(k) = {} => SlotTable(f)[k] = None
             /\ S(k) # {} => SlotTable(f)[k] \in S(k)
  <2>1. S(k) \in SUBSET Sector
    OBVIOUS
  <2>2. ASSUME S(k) # {} PROVE \E i \in S(k) : \A j \in S(k) : j <= i
    <3> HIDE DEF S
    <3> QED BY <2>1, <2>2, SectorExtrema
  <2>3. SlotTable(f)[k] = IF S(k) = {} THEN None ELSE CHOOSE i \in S(k) : \A j \in S(k) : j <= i
    BY DEF SlotTable
  <2> HIDE DEF S
  <2> QED BY <2>2, <2>3
<1>2. \A k \in Slot : S(k) \subseteq Sector
  OBVIOUS
<1>3. None \notin Sector
  BY DEF None, Sector
<1>4. DOMAIN SlotTable(f) = Slot /\ SlotTable(f) = [k \in Slot |-> SlotTable(f)[k]]
  BY DEF SlotTable
<1>5. \A k \in Slot : SlotTable(f)[k] \in Sector \cup {None}
  <2> HIDE DEF S
  <2> QED BY <1>1, <1>2
<1>6. SlotTable(f) \in [Slot -> Sector \cup {None}]
  BY <1>4, <1>5
<1>7. ASSUME NEW k \in Slot, SlotTable(f)[k] # None
      PROVE  /\ SlotTable(f)[k] \in Sector
             /\ SblValid(f[SlotTable(f)[k]]) /\ SlotOf(f[SlotTable(f)[k]]) = k
  <2>1. SlotTable(f)[k] \in S(k)
    <3> HIDE DEF S
    <3> QED BY <1>1, <1>7
  <2> QED BY <2>1
<1>8. ASSUME NEW k \in Slot, NEW i \in Sector, SblValid(f[i]), SlotOf(f[i]) = k
      PROVE  SlotTable(f)[k] # None
  <2>1. i \in S(k)
    BY <1>8
  <2>2. SlotTable(f)[k] \in S(k)
    <3> HIDE DEF S
    <3> QED BY <1>1, <2>1
  <2> QED BY <1>2, <1>3, <2>2
<1> QED BY <1>6, <1>7, <1>8 DEF SlotMask

-----------------------------------------------------------------------------
(* Type correctness.                                                       *)

\* Small facts the steps below share.
LEMMA Constants ==
  /\ None \notin Sector /\ Sector = {0, 1, 2} /\ None = 3
  /\ Slot = {0, 1, 2} /\ Trial = 0 /\ Current = 1 /\ Golden = 2
  /\ ErasedFwd \in Fwd /\ ErasedFwd.rank = RankTrial
  /\ RankTrial \in Nat /\ RankTrial # RankGolden /\ RankTrial # 1 /\ RankGolden = 0
  /\ NoFde \in Fde
  /\ NoJob \in [t : Sector \cup {None}, done : BOOLEAN, pkg : [q : Quality, sbl : BOOLEAN, magic : BOOLEAN]]
<1>1. Sector = {0, 1, 2} /\ None = 3
  BY DEF None, Sector
<1>2. Slot = {0, 1, 2} /\ Trial = 0 /\ Current = 1 /\ Golden = 2
  BY DEF Slot, Trial, Current, Golden
<1>3. RankTrial \in Nat /\ RankTrial # RankGolden /\ RankTrial # 1 /\ RankGolden = 0
  BY SMT DEF RankTrial, RankGolden
<1>6. ErasedFwd \in Fwd /\ ErasedFwd.rank = RankTrial
  BY <1>3 DEF ErasedFwd, Fwd
<1>4. NoFde \in Fde
  BY <1>1, <1>2 DEF NoFde, Fde
<1>5. NoJob \in [t : Sector \cup {None}, done : BOOLEAN, pkg : [q : Quality, sbl : BOOLEAN, magic : BOOLEAN]]
  BY DEF NoJob, Quality
<1> QED BY <1>1, <1>2, <1>3, <1>4, <1>5, <1>6

\* g_sbl_info as the type invariant sees it.
SblInfo == [tab : [Slot -> Sector \cup {None}], mask : SUBSET Slot, slot : Slot,
            err : {"none", "init", "load"}, ota : BOOLEAN, rank : {Trial, Current},
            full : BOOLEAN]

LEMMA PrepareType ==
  ASSUME TypeOK, NEW g \in SblInfo, Prepare(g)
  PROVE  sbl' \in SblInfo /\ fde' \in Fde /\ pc' = "load"
<1> DEFINE s == g.tab[g.slot]
<1>1. s \in Sector \cup {None} /\ g.slot \in Slot /\ g.mask \in SUBSET Slot
  BY DEF SblInfo
<1>2. CASE s = None
  BY <1>2 DEF Prepare, TypeOK
<1>3. CASE s # None
  <2>1. sbl' = [g EXCEPT !.full = (fde.addr # s)] /\ fde' = [addr |-> s, rank |-> g.slot, mask |-> g.mask]
    BY <1>3 DEF Prepare
  <2>2. sbl' \in SblInfo
    BY <2>1 DEF SblInfo
  <2> QED BY <1>1, <2>1, <2>2 DEF Fde, Prepare
<1> QED BY <1>2, <1>3

LEMMA NoSblType == NoSbl \in SblInfo
BY Constants DEF NoSbl, SblInfo

\* The slot boot_sbl_select_validFwd picks exists when any slot is filled.
LEMMA SlotPick ==
  ASSUME NEW S \in SUBSET Slot, S # {}
  PROVE  (CHOOSE k \in S : \A j \in S : k <= j) \in S
<1>1. S \in SUBSET Sector
  BY Constants
<1>2. \E k \in S : \A j \in S : k <= j
  BY <1>1, SectorExtrema
<1> QED BY <1>2

LEMMA TypeBoot == TypeOK /\ BootStep => TypeOK'
<1> SUFFICES ASSUME TypeOK, BootStep PROVE TypeOK'
  OBVIOUS
<1>0. sbl \in SblInfo /\ fwd \in [Sector -> Fwd]
  BY DEF TypeOK, SblInfo
<1> USE DEF SblPc
<1>1. CASE Boot
  <2>1. SlotTable(fwd) \in [Slot -> Sector \cup {None}] /\ SlotMask(fwd) \in SUBSET Slot
    BY <1>0, SlotTableChoice
  <2>2. PICK rank \in {Trial, Current}, entry \in {"aged", "pending", "valid"} :
          /\ sblFde' = entry
          /\ sbl' = [NoSbl EXCEPT !.tab = SlotTable(fwd), !.mask = SlotMask(fwd), !.rank = rank]
    BY <1>1 DEF Boot
  <2>3. sbl' \in SblInfo
    BY <2>1, <2>2, NoSblType DEF SblInfo
  <2> QED BY <1>1, <2>2, <2>3 DEF Boot, TypeOK, SblInfo
<1>2. CASE SblSelect
  <2> DEFINE tab == sbl.tab
             pick(S) == CHOOSE k \in S : \A j \in S : k <= j
             S0   == {k \in Slot : tab[k] # None}
             s0   == pick(S0)
             ota  == fwd[tab[s0]].sbl
             skip == ota /\ sbl.rank = Current /\ s0 = Trial
             g    == [sbl EXCEPT !.ota = ota,
                        !.slot = IF skip /\ S0 # {Trial} THEN pick(S0 \ {Trial}) ELSE s0,
                        !.tab  = IF skip THEN [tab EXCEPT ![Trial] = None] ELSE tab]
  <2>1. IF S0 = {} THEN Prepare(sbl) ELSE Prepare(g)
    BY <1>2 DEF SblSelect
  <2>2. UNCHANGED <<fwd, img, rram, appFde, sblFde, job, crashes>>
    BY <1>2 DEF SblSelect
  <2>3. CASE S0 = {}
    <3>1. sbl' \in SblInfo /\ fde' \in Fde /\ pc' = "load"
      BY <1>0, <2>1, <2>3, PrepareType
    <3> QED BY <2>2, <3>1 DEF TypeOK, SblInfo
  <2>4. CASE S0 # {}
    <3>1. s0 \in S0
      BY <2>4, SlotPick
    <3>2. tab \in [Slot -> Sector \cup {None}] /\ tab[s0] \in Sector
      BY <1>0, <3>1 DEF SblInfo
    <3>3. ota \in BOOLEAN
      BY <1>0, <3>2 DEF Fwd
    <3>4. (IF skip /\ S0 # {Trial} THEN pick(S0 \ {Trial}) ELSE s0) \in Slot
      <4>1. CASE S0 # {Trial}
        <5>1. S0 \ {Trial} # {} /\ S0 \ {Trial} \in SUBSET Slot
          BY <2>4, <4>1
        <5>2. pick(S0 \ {Trial}) \in S0 \ {Trial}
          BY <5>1, SlotPick
        <5> QED BY <3>1, <5>2
      <4>2. CASE S0 = {Trial}
        BY <3>1, <4>2
      <4> QED BY <4>1, <4>2
    <3>5. (IF skip THEN [tab EXCEPT ![Trial] = None] ELSE tab) \in [Slot -> Sector \cup {None}]
      BY <3>2
    <3>6. g \in SblInfo
      <4> HIDE DEF tab, pick, S0, s0, ota, skip
      <4> QED BY <1>0, <3>3, <3>4, <3>5 DEF SblInfo
    <3> HIDE DEF g
    <3>7. sbl' \in SblInfo /\ fde' \in Fde /\ pc' = "load"
      BY <2>1, <2>4, <3>6, PrepareType
    <3> QED BY <2>2, <3>7 DEF TypeOK, SblInfo
  <2> QED BY <2>3, <2>4
<1>3. CASE SblErrorReset
  BY <1>3, NoSblType, Constants DEF SblErrorReset, ToOff, TypeOK, SblInfo
<1>4. CASE SblErrorNext
  <2> DEFINE g == [sbl EXCEPT !.err = "none", !.slot = @ + 1, !.tab[sbl.slot] = None]
  <2>1. sbl.slot + 1 \in Slot /\ Prepare(g)
    BY <1>0, <1>4, Constants DEF SblInfo, SblErrorNext
  <2>2. g \in SblInfo
    BY <1>0, <2>1 DEF SblInfo
  <2> HIDE DEF g
  <2>3. sbl' \in SblInfo /\ fde' \in Fde /\ pc' = "load"
    BY <2>1, <2>2, PrepareType
  <2> QED BY <1>4, <2>3 DEF SblErrorNext, TypeOK, SblInfo
<1>10. CASE SblGiveUp
  BY <1>10, NoSblType, Constants DEF SblGiveUp, ToOff, TypeOK, SblInfo
<1>5. CASE SblLoadRefused
  BY <1>5 DEF SblLoadRefused, TypeOK
<1>6. CASE SblLoadStart
  BY <1>6 DEF SblLoadStart, TypeOK
<1>7. CASE SblLoadEnd
  <2>1. sbl.tab[sbl.slot] \in Sector \cup {None}
    BY <1>0 DEF SblInfo
  <2>2. rram' \in Sector \cup {None} /\ pc' \in {"commitSbl", "select"}
    BY <1>7, <2>1 DEF SblLoadEnd, TypeOK
  <2>3. sbl' \in SblInfo
    BY <1>0, <1>7 DEF SblLoadEnd, SblInfo
  <2> QED BY <1>7, <2>2, <2>3 DEF SblLoadEnd, TypeOK, SblInfo
<1>8. CASE SblCommitSbl
  BY <1>8 DEF SblCommitSbl, TypeOK
<1>9. CASE SblCommitApp
  BY <1>9, NoSblType, Constants DEF SblCommitApp, TypeOK, AppPc, SblInfo
<1> QED BY <1>1, <1>2, <1>3, <1>4, <1>5, <1>6, <1>7, <1>8, <1>9, <1>10 DEF BootStep

\* Writing a field of a FWD keeps the table well formed.
LEMMA FwdWrite ==
  ASSUME fwd \in [Sector -> Fwd], NEW t
  PROVE  /\ \A st \in {"valid", "invalid"} : [fwd EXCEPT ![t].status = NorStatus(@, st)] \in [Sector -> Fwd]
         /\ \A r \in Nat : [fwd EXCEPT ![t].rank = r] \in [Sector -> Fwd]
         /\ \A b \in BOOLEAN : /\ [fwd EXCEPT ![t].sbl = b] \in [Sector -> Fwd]
                               /\ [fwd EXCEPT ![t].magic = b, ![t].images = TRUE] \in [Sector -> Fwd]
         /\ [fwd EXCEPT ![t] = ErasedFwd] \in [Sector -> Fwd]
<1>1. ASSUME NEW st \in {"valid", "invalid"}
      PROVE  [fwd EXCEPT ![t].status = NorStatus(@, st)] \in [Sector -> Fwd]
  BY DEF Fwd, NorStatus
<1>2. ASSUME NEW r \in Nat PROVE [fwd EXCEPT ![t].rank = r] \in [Sector -> Fwd]
  BY DEF Fwd
<1>3. ASSUME NEW b \in BOOLEAN
      PROVE  /\ [fwd EXCEPT ![t].sbl = b] \in [Sector -> Fwd]
             /\ [fwd EXCEPT ![t].magic = b, ![t].images = TRUE] \in [Sector -> Fwd]
  BY DEF Fwd
<1>4. [fwd EXCEPT ![t] = ErasedFwd] \in [Sector -> Fwd]
  BY Constants
<1> QED BY <1>1, <1>2, <1>3, <1>4

LEMMA TypeApp == TypeOK /\ AppStep => TypeOK'
<1> SUFFICES ASSUME TypeOK, AppStep PROVE TypeOK'
  OBVIOUS
<1>0. fwd \in [Sector -> Fwd]
  BY DEF TypeOK
<1> USE DEF AppPc, UpgPc
<1>1. ASSUME NEW d \in BOOLEAN, RejectStatus(d) PROVE TypeOK'
  <2>1. TrialIndex(fwd) \in Sector
    BY <1>0, <1>1, TrialIndexChoice DEF RejectStatus
  <2>2. fwd' \in [Sector -> Fwd]
    BY <1>0, <1>1, FwdWrite DEF RejectStatus
  <2> QED BY <1>1, <2>1, <2>2 DEF RejectStatus, TypeOK
<1>2. CASE VerifyReject
  BY <1>1, <1>2 DEF VerifyReject
<1>3. CASE VerifyEraseCurrent
  BY <1>0, <1>3, FwdWrite, ZenonT(60) DEF VerifyEraseCurrent, TypeOK
<1>4. CASE VerifyNothing
  BY <1>4 DEF VerifyNothing, TypeOK
<1>5. CASE Reboot
  BY <1>5, NoSblType, Constants DEF Reboot, ToOff, TypeOK, SblInfo
<1>6. CASE UpgradeStart
  <2>1. SelectTrial(fwd) \in Sector
    BY <1>0, SelectTrialChoice, TrialIndexChoice
  <2> QED BY <1>6, <2>1, Constants DEF UpgradeStart, TypeOK
<1>7. CASE UpgradeErase
  BY <1>0, <1>7, FwdWrite, ZenonT(60) DEF UpgradeErase, TypeOK
<1>8. CASE UpgradeConfig
  <2>1. PICK p \in Packages : ConfigHeader(p) /\ job' = [job EXCEPT !.pkg = p]
    BY <1>8 DEF UpgradeConfig
  <2>2. p \in [q : Quality, sbl : BOOLEAN, magic : BOOLEAN]
    BY OtaBootAssumption
  <2>3. fwd' \in [Sector -> Fwd]
    BY <1>0, <2>1, <2>2, FwdWrite DEF ConfigHeader
  <2> QED BY <1>8, <2>1, <2>2, <2>3 DEF UpgradeConfig, TypeOK
<1>9. CASE UpgradeConfigRefused
  <2>1. PICK p \in Packages : ConfigHeader(p)
    BY <1>9 DEF UpgradeConfigRefused
  <2>2. p \in [q : Quality, sbl : BOOLEAN, magic : BOOLEAN]
    BY OtaBootAssumption
  <2>3. fwd' \in [Sector -> Fwd]
    BY <1>0, <2>1, <2>2, FwdWrite DEF ConfigHeader
  <2> QED BY <1>9, <2>3, Constants DEF UpgradeConfigRefused, TypeOK
<1>10. CASE UpgradeProgram
  <2>1. fwd' \in [Sector -> Fwd]
    BY <1>0, <1>10, FwdWrite DEF UpgradeProgram, TypeOK
  <2> QED BY <1>10, <2>1 DEF UpgradeProgram, TypeOK
<1>11. CASE UpgradeProgrammed
  BY <1>11, ZenonT(60) DEF UpgradeProgrammed, TypeOK
<1>12. CASE UpgradeFail
  BY <1>12, Constants DEF UpgradeFail, TypeOK
<1>13. CASE FinalizeStatus
  BY <1>0, <1>13, FwdWrite, ZenonT(60) DEF FinalizeStatus, TypeOK
<1>14. CASE FinalizeSbl
  BY <1>14, Constants DEF FinalizeSbl, TypeOK
<1>15. CASE AcceptRank
  <2>1. HighestRank(fwd) + 1 \in Nat /\ CurrentIndex(fwd) \in Sector
    BY <1>0, HighestRankBound, SelectTrialChoice, TrialIndexChoice, Constants
  <2>2. fwd' \in [Sector -> Fwd]
    BY <1>0, <1>15, <2>1, FwdWrite DEF AcceptRank
  <2>3. /\ pc' \in {"accept2", "off", "idle"}
        /\ job' = [job EXCEPT !.t = CurrentIndex(fwd)] \/ job' = NoJob \/ job' = job
        /\ sbl' = sbl \/ sbl' = NoSbl
        /\ fde' = fde \/ fde' = NoFde
    BY <1>15 DEF AcceptRank, ToOff
  <2> QED BY <1>15, <2>1, <2>2, <2>3, NoSblType, Constants DEF AcceptRank, TypeOK, SblInfo
<1>16. CASE AcceptInvalidate
  <2>1. fwd' \in [Sector -> Fwd]
    BY <1>0, <1>16, FwdWrite DEF AcceptInvalidate
  <2> QED BY <1>16, <2>1, NoSblType, Constants DEF AcceptInvalidate, ToOff, TypeOK, SblInfo
<1>17. CASE DoneReject
  BY <1>1, <1>17 DEF DoneReject
<1>18. CASE RejectRank
  BY <1>0, <1>18, FwdWrite, ZenonT(60) DEF RejectRank, TypeOK
<1>19. CASE RejectSbl
  BY <1>19, NoSblType, Constants DEF RejectSbl, ToOff, TypeOK, SblInfo
<1> QED BY <1>2, <1>3, <1>4, <1>5, <1>6, <1>7, <1>8, <1>9, <1>10, <1>11, <1>12, <1>13,
           <1>14, <1>15, <1>16, <1>17, <1>18, <1>19 DEF AppStep

LEMMA TypeInit == Init => TypeOK
<1> SUFFICES ASSUME Init PROVE TypeOK
  OBVIOUS
<1>1. fwd \in [Sector -> Fwd]
  <2>1. [magic |-> TRUE, status |-> "valid", images |-> TRUE, sbl |-> FALSE,
         rank |-> IF FwdSupportNum = 2 THEN 1 ELSE RankGolden] \in Fwd
    BY DEF Fwd, RankGolden
  <2> QED BY <2>1, Constants DEF Init
<1>2. img \in [Sector -> Quality \cup {"none", "partial"}]
  BY DEF Init, Quality
<1> QED BY <1>1, <1>2, NoSblType, Constants DEF Init, TypeOK, SblInfo

LEMMA TypeStep == TypeOK /\ [Next]_vars => TypeOK'
<1> SUFFICES ASSUME TypeOK, [Next]_vars PROVE TypeOK'
  OBVIOUS
<1>1. CASE PowerFail
  BY <1>1, NoSblType, Constants DEF PowerFail, ToOff, TypeOK, SblInfo
<1>2. CASE UNCHANGED vars
  BY <1>2 DEF vars, TypeOK
<1> QED BY <1>1, <1>2, TypeBoot, TypeApp DEF Next

\* Every behaviour of installing, booting, accepting and rejecting keeps the
\* variables within their types.
THEOREM TypeCorrect == Spec => []TypeOK
BY TypeInit, TypeStep, PTL DEF Spec

-----------------------------------------------------------------------------
(* The inductive invariant: boot.                                          *)

LEMMA InvInit == Init => IInv
<1> SUFFICES ASSUME Init PROVE IInv
  OBVIOUS
<1> DEFINE first == [magic |-> TRUE, status |-> "valid", images |-> TRUE, sbl |-> FALSE,
                     rank |-> IF FwdSupportNum = 2 THEN 1 ELSE RankGolden]
<1>0. TypeOK
  BY TypeInit
<1>1. fwd[0] = first /\ fwd[1] = ErasedFwd /\ fwd[2] = ErasedFwd /\ img[0] = "good"
  BY Constants DEF Init
<1>2. pc = "off"
  BY DEF Init
<1>3. \A i \in Sector : i = 0 \/ i = 1 \/ i = 2
  BY Constants
<1>4. ~ SblValid(ErasedFwd) /\ ~ AppValid(ErasedFwd) /\ ErasedFwd.rank # RankGolden
  BY Constants DEF ErasedFwd, SblValid, AppValid
<1>5. SblValid(first) /\ AppValid(first) /\ first.rank # RankTrial
  BY Constants DEF SblValid, AppValid
<1>6. GoldenInv
  <2>1. FwdSupportNum = 2 => first.rank # RankGolden
    BY DEF RankGolden
  <2>2. FwdSupportNum = 3 => first = GoldenFwd
    BY DEF GoldenFwd
  <2> HIDE DEF first
  <2> QED BY <1>1, <1>3, <1>4, <2>1, <2>2 DEF GoldenInv
<1> HIDE DEF first
<1>7. FlashInv
  BY <1>1, <1>3, <1>4, <1>5, <1>6, Constants
  DEF FlashInv, TrialInv, ValidTrial, AcceptedInv, Accepted, ValidIsComplete, DistinctRanks, ScanSectors
<1> QED BY <1>0, <1>2, <1>7
        DEF IInv, UpgradeInv, RejectInv, AcceptInv, SblInv, AppInv, RunningInv, UpgPc, SblPc, AppPc

LEMMA FlashSame ==
  ASSUME FlashInv, fwd' = fwd, img' = img
  PROVE  FlashInv'
BY DEF FlashInv, GoldenInv, TrialInv, ValidTrial, AcceptedInv, Accepted, ValidIsComplete, DistinctRanks

\* With no program running there is nothing but the flash to speak of.
LEMMA InvOff ==
  ASSUME TypeOK', FlashInv', pc' \in {"off", "dead"}
  PROVE  IInv'
BY DEF IInv, UpgradeInv, RejectInv, AcceptInv, SblInv, AppInv, RunningInv, UpgPc, SblPc, AppPc

LEMMA InvSbl ==
  ASSUME TypeOK', FlashInv', pc' \in SblPc, SblInv'
  PROVE  IInv'
BY DEF IInv, UpgradeInv, RejectInv, AcceptInv, AppInv, RunningInv, UpgPc, SblPc, AppPc

\* boot_sbl_prepare_set_fde keeps the working entry in step with the slot.
LEMMA PrepareInv ==
  ASSUME TypeOK, FlashInv, fwd' = fwd, img' = img, TypeOK',
         NEW g \in SblInfo, Prepare(g),
         g.mask = SlotMask(fwd),
         \A k \in Slot : g.tab[k] \in {None, SlotTable(fwd)[k]}
  PROVE  IInv'
<1>1. pc' = "load" /\ pc' \in SblPc
  BY DEF Prepare, SblPc
<1>2. SblInv'
  <2> DEFINE s == g.tab[g.slot]
  <2>1. CASE s = None
    <3>1. sbl' = g
      BY <2>1 DEF Prepare
    <3> QED BY <1>1, <2>1, <3>1 DEF SblInv
  <2>2. CASE s # None
    <3>1. sbl' = [g EXCEPT !.full = (fde.addr # s)] /\ fde' = [addr |-> s, rank |-> g.slot, mask |-> g.mask]
      BY <2>2 DEF Prepare
    <3>2. sbl'.tab = g.tab /\ sbl'.mask = g.mask /\ sbl'.slot = g.slot
      BY <3>1 DEF SblInfo
    <3> QED BY <1>1, <3>1, <3>2 DEF SblInv
  <2> QED BY <2>1, <2>2
<1>3. FlashInv'
  BY FlashSame
<1> QED BY <1>1, <1>2, <1>3, InvSbl

LEMMA InvBoot == IInv /\ BootStep => IInv'
<1> SUFFICES ASSUME IInv, BootStep PROVE IInv'
  OBVIOUS
<1>0. /\ TypeOK /\ TypeOK' /\ FlashInv /\ FlashInv' /\ fwd' = fwd /\ img' = img
      /\ sbl \in SblInfo /\ fwd \in [Sector -> Fwd]
  <2>1. fwd' = fwd /\ img' = img
    BY DEF BootStep, Boot, SblSelect, SblErrorReset, SblErrorNext, SblGiveUp, SblLoadRefused,
           SblLoadStart, SblLoadEnd, SblCommitSbl, SblCommitApp
  <2>2. TypeOK /\ FlashInv
    BY DEF IInv
  <2> QED BY <2>1, <2>2, TypeBoot, FlashSame DEF TypeOK, SblInfo
<1>1. CASE Boot
  <2>1. pc' = "select" /\ sbl'.mask = SlotMask(fwd) /\ sbl'.tab = SlotTable(fwd)
    BY <1>1 DEF Boot, NoSbl
  <2>2. SblInv'
    BY <1>0, <2>1 DEF SblInv
  <2> QED BY <1>0, <2>1, <2>2, InvSbl DEF SblPc
<1>2. CASE SblSelect
  <2> DEFINE tab == sbl.tab
             pick(S) == CHOOSE k \in S : \A j \in S : k <= j
             S0   == {k \in Slot : tab[k] # None}
             s0   == pick(S0)
             ota  == fwd[tab[s0]].sbl
             skip == ota /\ sbl.rank = Current /\ s0 = Trial
             ns   == IF skip /\ S0 # {Trial} THEN pick(S0 \ {Trial}) ELSE s0
             nt   == IF skip THEN [tab EXCEPT ![Trial] = None] ELSE tab
             g    == [sbl EXCEPT !.ota = ota, !.slot = ns, !.tab = nt]
  <2>1. IF S0 = {} THEN Prepare(sbl) ELSE Prepare(g)
    BY <1>2 DEF SblSelect
  <2>2. CASE S0 = {}
    <3>1. sbl.mask = SlotMask(fwd) /\ \A k \in Slot : sbl.tab[k] \in {None, SlotTable(fwd)[k]}
      BY <1>2 DEF IInv, SblInv, SblSelect, SblPc
    <3> QED BY <1>0, <2>1, <2>2, <3>1, PrepareInv
  <2>3. CASE S0 # {}
    <3>1. s0 \in S0
      BY <2>3, SlotPick
    <3>2. tab \in [Slot -> Sector \cup {None}] /\ tab[s0] \in Sector
      BY <1>0, <3>1 DEF SblInfo
    <3>3. ota \in BOOLEAN
      BY <1>0, <3>2 DEF Fwd
    <3>4. ns \in Slot
      <4>1. CASE S0 # {Trial}
        <5>1. S0 \ {Trial} # {} /\ S0 \ {Trial} \in SUBSET Slot
          BY <2>3, <4>1
        <5>2. pick(S0 \ {Trial}) \in S0 \ {Trial}
          BY <5>1, SlotPick
        <5> QED BY <3>1, <5>2
      <4>2. CASE S0 = {Trial}
        BY <3>1, <4>2
      <4> QED BY <4>1, <4>2
    <3>5. nt \in [Slot -> Sector \cup {None}]
      BY <3>2
    <3>6. sbl.mask = SlotMask(fwd) /\ \A k \in Slot : tab[k] \in {None, SlotTable(fwd)[k]}
      BY <1>2 DEF IInv, SblInv, SblSelect, SblPc
    <3>7. \A k \in Slot : nt[k] \in {None, SlotTable(fwd)[k]}
      BY <3>2, <3>6
    <3> HIDE DEF tab, pick, S0, s0, ota, skip, ns, nt
    <3>8. g \in SblInfo /\ g.mask = sbl.mask /\ g.tab = nt
      BY <1>0, <3>3, <3>4, <3>5 DEF SblInfo
    <3> HIDE DEF g
    <3> QED BY <1>0, <2>1, <2>3, <3>6, <3>7, <3>8, PrepareInv
  <2> QED BY <2>2, <2>3
<1>3. CASE SblErrorReset
  BY <1>0, <1>3, InvOff DEF SblErrorReset, ToOff
<1>4. CASE SblErrorNext
  <2> DEFINE g == [sbl EXCEPT !.err = "none", !.slot = @ + 1, !.tab[sbl.slot] = None]
  <2>1. sbl.slot + 1 \in Slot /\ Prepare(g)
    BY <1>0, <1>4, Constants DEF SblInfo, SblErrorNext
  <2>2. g \in SblInfo /\ g.mask = sbl.mask /\ \A k \in Slot : g.tab[k] \in {None, sbl.tab[k]}
    BY <1>0, <2>1 DEF SblInfo
  <2>3. sbl.mask = SlotMask(fwd) /\ \A k \in Slot : sbl.tab[k] \in {None, SlotTable(fwd)[k]}
    BY <1>4 DEF IInv, SblInv, SblErrorNext, SblPc
  <2>4. \A k \in Slot : g.tab[k] \in {None, SlotTable(fwd)[k]}
    BY <2>2, <2>3
  <2> HIDE DEF g
  <2> QED BY <1>0, <2>1, <2>2, <2>3, <2>4, PrepareInv
<1>10. CASE SblGiveUp
  BY <1>0, <1>10, InvOff DEF SblGiveUp, ToOff
<1>5. CASE SblLoadRefused
  <2>1. /\ pc = "load" /\ pc' = "select"
        /\ sbl'.mask = sbl.mask /\ sbl'.tab = sbl.tab /\ sbl'.slot = sbl.slot
    BY <1>0, <1>5 DEF SblLoadRefused, SblInfo
  <2>2. SblInv'
    BY <1>0, <2>1 DEF IInv, SblInv, SblPc
  <2> QED BY <1>0, <2>1, <2>2, InvSbl DEF SblPc
<1>6. CASE SblLoadStart
  <2>1. pc = "load" /\ pc' = "copy" /\ sbl' = sbl /\ fde' = fde /\ sbl.tab[sbl.slot] # None
    BY <1>6 DEF SblLoadStart, Loadable
  <2>2. SblInv'
    BY <1>0, <2>1 DEF IInv, SblInv, SblPc
  <2> QED BY <1>0, <2>1, <2>2, InvSbl DEF SblPc
<1>7. CASE SblLoadEnd
  <2> DEFINE s  == sbl.tab[sbl.slot]
             ok == img[s] = "good" /\ (sbl.full \/ rram = s \/ ~ Auth)
  <2>1. /\ pc = "copy" /\ pc' = IF ok THEN "commitSbl" ELSE "select"
        /\ rram' = IF sbl.full /\ ok THEN s ELSE rram
        /\ fde' = fde
    BY <1>7 DEF SblLoadEnd
  <2>2. sbl'.mask = sbl.mask /\ sbl'.tab = sbl.tab /\ sbl'.slot = sbl.slot
    BY <1>0, <1>7 DEF SblLoadEnd, SblInfo
  <2>3. pc' = "commitSbl" => img[s] = "good" /\ (Auth => rram' = s)
    BY <2>1
  <2>4. SblInv'
    BY <1>0, <2>1, <2>2, <2>3 DEF IInv, SblInv, SblPc
  <2> QED BY <1>0, <2>1, <2>4, InvSbl DEF SblPc
<1>8. CASE SblCommitSbl
  <2>1. pc = "commitSbl" /\ pc' = "commitApp" /\ sbl' = sbl /\ fde' = fde /\ rram' = rram
    BY <1>8 DEF SblCommitSbl
  <2>2. SblInv'
    BY <1>0, <2>1 DEF IInv, SblInv, SblPc
  <2> QED BY <1>0, <2>1, <2>2, InvSbl DEF SblPc
<1>9. CASE SblCommitApp
  <2> DEFINE s == sbl.tab[sbl.slot]
  <2>1. pc = "commitApp" /\ pc' = "verify" /\ appFde' = fde /\ rram' = rram
    BY <1>9 DEF SblCommitApp
  <2>2. /\ sbl.slot \in Slot /\ s \in Sector /\ s = SlotTable(fwd)[sbl.slot] /\ s # None
        /\ fde = [addr |-> s, rank |-> sbl.slot, mask |-> SlotMask(fwd)]
        /\ img[s] = "good" /\ (Auth => rram = s)
    BY <1>0, <2>1 DEF IInv, SblInv, SblPc, SblInfo
  <2>3. SblValid(fwd[s]) /\ SlotOf(fwd[s]) = sbl.slot
    BY <1>0, <2>2, SlotTableChoice
  <2>4. sbl.slot = Golden => FwdSupportNum = 3 /\ s = 0
    BY <1>0, <2>2, <2>3, Constants, FwdSupportNumAssumption DEF SlotOf, FlashInv, GoldenInv
  <2>5. sbl.slot = Trial => s = SelectTrial(fwd)
    <3>1. sbl.slot = Trial => fwd[s].rank = RankTrial
      BY <2>3, Constants DEF SlotOf
    <3> QED BY <1>0, <2>2, <2>3, <3>1 DEF FlashInv, TrialInv, ValidTrial
  <2>6. AppInv'
    BY <1>0, <2>1, <2>2, <2>4 DEF AppInv
  <2>7. RunningInv'
    BY <1>0, <2>1, <2>2, <2>5 DEF RunningInv
  <2> QED BY <1>0, <2>1, <2>6, <2>7
          DEF IInv, UpgradeInv, RejectInv, AcceptInv, SblInv, UpgPc, SblPc, AppPc
<1> QED BY <1>1, <1>2, <1>3, <1>4, <1>5, <1>6, <1>7, <1>8, <1>9, <1>10 DEF BootStep

-----------------------------------------------------------------------------
(* The inductive invariant: the application.                               *)

\* The FWDs the application scans for the current one are the accepted ones.
LEMMA CandidatesAccepted ==
  ASSUME TypeOK, GoldenInv
  PROVE  /\ Candidates(fwd) = {i \in ScanSectors : Accepted(i)}
         /\ ScanSectors \subseteq Sector
         /\ FwdSupportNum = 3 => 0 \notin ScanSectors
         /\ FwdSupportNum = 2 => 2 \notin ScanSectors
         /\ \A i \in Sector : Accepted(i) => i \in ScanSectors \/ (i = 0 /\ FwdSupportNum = 3)
<1>1. BaseRank(fwd) = 0
  BY FwdSupportNumAssumption DEF GoldenInv, GoldenFwd, RankGolden, BaseRank
<1>2. \A i \in ScanSectors : i \in Sector /\ fwd[i].rank \in Nat /\ fwd[i].rank # 0
  BY FwdSupportNumAssumption, Constants DEF GoldenInv, RankGolden, ScanSectors, TypeOK, Fwd
<1>3. ~ AppValid(ErasedFwd)
  BY DEF AppValid, ErasedFwd
<1>4. ASSUME NEW i \in Sector, Accepted(i) PROVE i \in ScanSectors \/ (i = 0 /\ FwdSupportNum = 3)
  <2>1. CASE FwdSupportNum = 2
    BY <1>3, <1>4, <2>1, Constants DEF GoldenInv, Accepted, ScanSectors
  <2>2. CASE FwdSupportNum = 3
    BY <2>2, Constants DEF ScanSectors
  <2> QED BY <2>1, <2>2, FwdSupportNumAssumption
<1>5. Candidates(fwd) = {i \in ScanSectors : Accepted(i)}
  BY <1>1, <1>2 DEF Candidates, Accepted
<1> QED BY <1>2, <1>4, <1>5 DEF ScanSectors

\* A write to a FWD, or to its image area, that the next upgrade may overwrite
\* anyway and that accepts nothing keeps what holds of the flash.
LEMMA QuietWrite ==
  ASSUME TypeOK, FlashInv, TypeOK', NEW t \in ScanSectors,
         \A i \in Sector : i # t => fwd'[i] = fwd[i] /\ img'[i] = img[i],
         ~ Accepted(t) \/ t = SelectTrial(fwd),
         ~ (AppValid(fwd'[t]) /\ fwd'[t].rank # RankTrial),
         fwd'[t].rank # RankGolden,
         SblValid(fwd'[t]) /\ fwd'[t].rank = RankTrial => t = SelectTrial(fwd),
         SblValid(fwd'[t]) => img'[t] \notin {"none", "partial"}
  PROVE  FlashInv' /\ SelectTrial(fwd') = SelectTrial(fwd)
<1>0. /\ GoldenInv /\ fwd \in [Sector -> Fwd] /\ fwd' \in [Sector -> Fwd]
      /\ TrialInv /\ AcceptedInv /\ ValidIsComplete /\ DistinctRanks
  BY DEF FlashInv, TypeOK
<1>1. t \in Sector /\ ScanSectors \subseteq Sector
  BY <1>0, CandidatesAccepted
<1>2. GoldenInv'
  <2>1. FwdSupportNum = 3 => t # 0
    BY <1>0, CandidatesAccepted
  <2>2. FwdSupportNum = 2 => t # 2
    BY <1>0, CandidatesAccepted
  <2> QED BY <1>0, <1>1, <2>1, <2>2, Constants DEF GoldenInv
<1>3. t \notin Candidates(fwd') /\ (t \notin Candidates(fwd) \/ t # CurrentIndex(fwd))
  <2>1. t \notin Candidates(fwd')
    BY DEF Candidates, Accepted
  <2>2. t \notin Candidates(fwd) \/ t = SelectTrial(fwd)
    BY <1>0, CandidatesAccepted
  <2> QED BY <1>0, <2>1, <2>2, SelectTrialChoice
<1>4. SelectTrial(fwd') = SelectTrial(fwd)
  BY <1>0, <1>3, SelectTrialFrame
<1>5. TrialInv'
  BY <1>0, <1>4 DEF TrialInv, ValidTrial
<1>6. AcceptedInv'
  <2> SUFFICES ASSUME DoneReboots
               PROVE  /\ \A i \in Sector : Accepted(i)' => img'[i] = "good"
                      /\ \E i \in Sector : Accepted(i)'
    BY DEF AcceptedInv
  <2>1. ~ Accepted(t)' /\ \A i \in Sector : i # t => (Accepted(i)' <=> Accepted(i))
    BY DEF Accepted
  <2>2. \A i \in Sector : Accepted(i)' => img'[i] = "good"
    BY <1>0, <2>1 DEF AcceptedInv
  <2>3. PICK i \in Sector : Accepted(i)
    BY <1>0 DEF AcceptedInv
  <2>4. CASE i # t
    BY <2>1, <2>2, <2>3, <2>4
  <2>5. CASE i = t
    <3>1. t \in Candidates(fwd)
      BY <1>0, <2>3, <2>5, CandidatesAccepted
    <3>2. CurrentIndex(fwd) \in Candidates(fwd) /\ CurrentIndex(fwd) # t
      BY <1>0, <1>3, <3>1, CurrentIndexChoice
    <3>3. CurrentIndex(fwd) \in Sector /\ Accepted(CurrentIndex(fwd))
      BY <1>0, <1>1, <3>2, CandidatesAccepted
    <3> QED BY <2>1, <2>2, <3>2, <3>3
  <2> QED BY <2>4, <2>5
<1>7. ValidIsComplete'
  BY <1>0 DEF ValidIsComplete
<1>8. DistinctRanks'
  BY <1>0, <1>1 DEF DistinctRanks, Accepted
<1> QED BY <1>2, <1>4, <1>5, <1>6, <1>7, <1>8 DEF FlashInv

\* What an application step that leaves the code in RRAM alone has to show.
LEMMA InvAppStay ==
  ASSUME IInv, TypeOK', FlashInv', pc \in AppPc, pc' \in AppPc \ {"verify"},
         appFde' = appFde, Auth => rram' = rram,
         UpgradeInv', RejectInv', AcceptInv', RunningInv'
  PROVE  IInv'
<1>1. AppInv'
  BY DEF IInv, AppInv
<1>2. SblInv'
  BY DEF SblInv, SblPc, AppPc, UpgPc
<1> QED BY <1>1, <1>2 DEF IInv

\* fw_upgrade_reject_trial_fwd, its first write.
LEMMA InvRejectStatus ==
  ASSUME IInv, pc \in {"verify", "idle"}, NEW d \in BOOLEAN, RejectStatus(d), TypeOK'
  PROVE  IInv'
<1> PICK t : t = TrialIndex(fwd)
  OBVIOUS
<1>0. TypeOK /\ FlashInv /\ fwd \in [Sector -> Fwd]
  BY DEF IInv, TypeOK
<1>1. t \in Trials(fwd) /\ t \in ScanSectors /\ t \in Sector
  BY <1>0, TrialIndexChoice DEF RejectStatus
<1>2. SblValid(fwd[t]) /\ fwd[t].rank = RankTrial /\ ~ Accepted(t)
  BY <1>1 DEF Trials, AppValid, SblValid, Accepted
<1>3. /\ fwd' = [fwd EXCEPT ![t].status = NorStatus(@, "invalid")]
      /\ img' = img /\ appFde' = appFde /\ rram' = rram /\ pc' = "reject2" /\ job' = [job EXCEPT !.t = t, !.done = d]
  BY DEF RejectStatus
<1>4. fwd'[t].status = "invalid" /\ fwd'[t].rank = RankTrial
  BY <1>0, <1>1, <1>2, <1>3 DEF NorStatus, Fwd
<1>5. \A i \in Sector : i # t => fwd'[i] = fwd[i] /\ img'[i] = img[i]
  BY <1>0, <1>3
<1>6. ~ SblValid(fwd'[t]) /\ ~ AppValid(fwd'[t]) /\ fwd'[t].rank # RankGolden
  BY <1>4, Constants DEF SblValid, AppValid
<1>7. FlashInv' /\ SelectTrial(fwd') = SelectTrial(fwd)
  BY <1>0, <1>1, <1>2, <1>5, <1>6, QuietWrite
<1>8. RunningInv'
  BY <1>3, <1>7 DEF IInv, RunningInv, AppPc
<1>9. job'.t = t
  BY <1>3 DEF IInv, TypeOK
<1>10. UpgradeInv' /\ RejectInv' /\ AcceptInv'
  BY <1>1, <1>3, <1>4, <1>9 DEF UpgradeInv, RejectInv, AcceptInv, UpgPc
<1> QED BY <1>3, <1>7, <1>8, <1>10, InvAppStay DEF AppPc

\* Every write of an upgrade goes to the FWD that UpgradeStart chose.
LEMMA UpgradeTarget ==
  ASSUME IInv, pc \in UpgPc
  PROVE  /\ TypeOK /\ FlashInv /\ fwd \in [Sector -> Fwd] /\ pc \in AppPc \ {"verify", "accept2"}
         /\ job.t = SelectTrial(fwd) /\ job.t \in ScanSectors /\ job.t \in Sector
         /\ job.t # appFde.addr /\ appFde.addr \in Sector
         /\ DoneReboots => appFde.rank # Trial
<1>1. TypeOK /\ FlashInv /\ fwd \in [Sector -> Fwd] /\ pc \in AppPc \ {"verify", "accept2"}
  BY DEF IInv, TypeOK, AppPc, UpgPc
<1>2. job.t = SelectTrial(fwd) /\ job.t # appFde.addr
  BY DEF IInv, UpgradeInv
<1>3. job.t \in ScanSectors /\ job.t \in Sector
  BY <1>1, <1>2, SelectTrialChoice, TrialIndexChoice
<1> QED BY <1>1, <1>2, <1>3 DEF IInv, AppInv, RunningInv

LEMMA InvUpgradeErase == IInv /\ TypeOK' /\ UpgradeErase => IInv'
<1> SUFFICES ASSUME IInv, TypeOK', UpgradeErase PROVE IInv'
  OBVIOUS
<1> PICK t : t = job.t
  OBVIOUS
<1>0. pc = "erase" /\ pc \in UpgPc
  BY DEF UpgradeErase, UpgPc
<1>1. /\ TypeOK /\ FlashInv /\ fwd \in [Sector -> Fwd] /\ pc \in AppPc \ {"verify", "accept2"}
      /\ t = SelectTrial(fwd) /\ t \in ScanSectors /\ t \in Sector /\ t # appFde.addr
      /\ DoneReboots => appFde.rank # Trial
  BY <1>0, UpgradeTarget
<1>2. /\ fwd' = [fwd EXCEPT ![t] = ErasedFwd] /\ img' = img /\ job' = job /\ pc' = "config"
      /\ appFde' = appFde /\ rram' = rram
  BY DEF UpgradeErase
<1>3. fwd'[t] = ErasedFwd /\ \A i \in Sector : i # t => fwd'[i] = fwd[i] /\ img'[i] = img[i]
  BY <1>1, <1>2
<1>4. /\ ~ SblValid(fwd'[t]) /\ ~ AppValid(fwd'[t]) /\ fwd'[t].rank = RankTrial
      /\ fwd'[t].rank # RankGolden /\ fwd'[t].status = "erased"
  BY <1>3, Constants DEF SblValid, AppValid, ErasedFwd
<1>5. FlashInv' /\ SelectTrial(fwd') = SelectTrial(fwd)
  BY <1>1, <1>3, <1>4, QuietWrite
<1>6. UpgradeInv' /\ RejectInv' /\ AcceptInv'
  BY <1>1, <1>2, <1>4, <1>5 DEF UpgradeInv, RejectInv, AcceptInv
<1>7. RunningInv'
  BY <1>1, <1>2 DEF RunningInv
<1> QED BY <1>1, <1>2, <1>5, <1>6, <1>7, InvAppStay DEF AppPc, UpgPc

\* The header, the image entries and the images: the status stays erased.
LEMMA InvUpgradeWrite ==
  ASSUME IInv, TypeOK', NEW t, t = job.t,
         pc \in {"config", "program", "programming"},
         pc' \in {"program", "programming", "status", "idle"},
         \A i \in Sector : i # t => fwd'[i] = fwd[i] /\ img'[i] = img[i],
         fwd'[t].status = fwd[t].status, fwd'[t].rank = fwd[t].rank,
         pc' = "status" => img'[t] \notin {"none", "partial"},
         pc' # "idle" => job'.t = t,
         appFde' = appFde, Auth => rram' = rram
  PROVE  IInv'
<1>0. pc \in UpgPc
  BY DEF UpgPc
<1>1. /\ TypeOK /\ FlashInv /\ fwd \in [Sector -> Fwd] /\ pc \in AppPc \ {"verify", "accept2"}
      /\ t = SelectTrial(fwd) /\ t \in ScanSectors /\ t \in Sector /\ t # appFde.addr
      /\ DoneReboots => appFde.rank # Trial
  BY <1>0, UpgradeTarget
<1>2. fwd[t].status = "erased" /\ fwd[t].rank = RankTrial
  BY <1>0 DEF IInv, UpgradeInv
<1>3. ~ SblValid(fwd'[t]) /\ ~ AppValid(fwd'[t]) /\ fwd'[t].rank # RankGolden
  BY <1>2, Constants DEF SblValid, AppValid
<1>4. FlashInv' /\ SelectTrial(fwd') = SelectTrial(fwd)
  BY <1>1, <1>3, QuietWrite
<1>5. UpgradeInv' /\ RejectInv' /\ AcceptInv'
  BY <1>1, <1>2, <1>4 DEF UpgradeInv, RejectInv, AcceptInv, UpgPc
<1>6. RunningInv'
  BY <1>1 DEF RunningInv
<1> QED BY <1>1, <1>4, <1>5, <1>6, InvAppStay DEF AppPc, UpgPc

LEMMA InvUpgradeData ==
  ASSUME IInv, TypeOK',
         UpgradeConfig \/ UpgradeConfigRefused \/ UpgradeProgram \/ UpgradeProgrammed
  PROVE  IInv'
<1> PICK t : t = job.t
  OBVIOUS
<1>0. pc \in {"config", "program", "programming"} /\ pc \in UpgPc
  BY DEF UpgradeConfig, UpgradeConfigRefused, UpgradeProgram, UpgradeProgrammed, UpgPc
<1>1. /\ TypeOK /\ fwd \in [Sector -> Fwd] /\ t \in Sector /\ t # appFde.addr
      /\ img \in [Sector -> Quality \cup {"none", "partial"}]
  BY <1>0, UpgradeTarget DEF TypeOK
<1>2. CASE UpgradeConfig \/ UpgradeConfigRefused
  <2>1. PICK p \in Packages : /\ fwd' = [fwd EXCEPT ![t].magic = p.magic, ![t].images = TRUE]
                              /\ pc' = "idle" \/ (pc' = "program" /\ job' = [job EXCEPT !.pkg = p])
    BY <1>2 DEF UpgradeConfig, UpgradeConfigRefused, ConfigHeader
  <2>2. img' = img /\ appFde' = appFde /\ rram' = rram
    BY <1>2 DEF UpgradeConfig, UpgradeConfigRefused
  <2>3. fwd'[t].status = fwd[t].status /\ fwd'[t].rank = fwd[t].rank
    BY <1>1, <2>1 DEF Fwd
  <2>4. \A i \in Sector : i # t => fwd'[i] = fwd[i] /\ img'[i] = img[i]
    BY <1>1, <2>1, <2>2
  <2>5. pc' # "idle" => job'.t = t
    BY <1>1, <2>1 DEF TypeOK
  <2> QED BY <1>0, <2>1, <2>2, <2>3, <2>4, <2>5, InvUpgradeWrite
<1>3. CASE UpgradeProgram
  <2>1. /\ fwd' = [fwd EXCEPT ![t].sbl = job.pkg.sbl] /\ img' = [img EXCEPT ![t] = "partial"]
        /\ pc' = "programming" /\ job' = job /\ appFde' = appFde
        /\ rram' = IF rram = t THEN None ELSE rram
    BY <1>3 DEF UpgradeProgram
  <2>2. fwd'[t].status = fwd[t].status /\ fwd'[t].rank = fwd[t].rank
    BY <1>1, <2>1 DEF Fwd
  <2>3. \A i \in Sector : i # t => fwd'[i] = fwd[i] /\ img'[i] = img[i]
    BY <1>1, <2>1
  <2>4. Auth => rram' = rram
    BY <1>0, <1>1, <2>1 DEF IInv, AppInv, AppPc
  <2> QED BY <1>0, <2>1, <2>2, <2>3, <2>4, InvUpgradeWrite
<1>4. CASE UpgradeProgrammed
  <2>1. /\ img' = [img EXCEPT ![t] = job.pkg.q] /\ pc' = "status" /\ job' = job
        /\ fwd' = fwd /\ appFde' = appFde /\ rram' = rram
    BY <1>4 DEF UpgradeProgrammed
  <2>2. img'[t] \notin {"none", "partial"}
    BY <1>1, <2>1 DEF TypeOK, Quality
  <2>3. \A i \in Sector : i # t => fwd'[i] = fwd[i] /\ img'[i] = img[i]
    BY <1>1, <2>1
  <2> QED BY <1>0, <2>1, <2>2, <2>3, InvUpgradeWrite
<1> QED BY <1>2, <1>3, <1>4

LEMMA InvFinalizeStatus == IInv /\ TypeOK' /\ FinalizeStatus => IInv'
<1> SUFFICES ASSUME IInv, TypeOK', FinalizeStatus PROVE IInv'
  OBVIOUS
<1> PICK t : t = job.t
  OBVIOUS
<1>0. pc = "status" /\ pc \in UpgPc
  BY DEF FinalizeStatus, UpgPc
<1>1. /\ TypeOK /\ FlashInv /\ fwd \in [Sector -> Fwd] /\ pc \in AppPc \ {"verify", "accept2"}
      /\ t = SelectTrial(fwd) /\ t \in ScanSectors /\ t \in Sector /\ t # appFde.addr
      /\ DoneReboots => appFde.rank # Trial
  BY <1>0, UpgradeTarget
<1>2. fwd[t].status = "erased" /\ fwd[t].rank = RankTrial /\ img[t] \notin {"none", "partial"}
  BY <1>0 DEF IInv, UpgradeInv
<1>3. /\ fwd' = [fwd EXCEPT ![t].status = NorStatus(@, "valid")]
      /\ img' = img /\ job' = job /\ pc' = "sblfde" /\ appFde' = appFde /\ rram' = rram
  BY DEF FinalizeStatus
<1>4. fwd'[t].rank = RankTrial /\ \A i \in Sector : i # t => fwd'[i] = fwd[i] /\ img'[i] = img[i]
  BY <1>1, <1>2, <1>3 DEF Fwd
<1>5. ~ Accepted(t) /\ fwd'[t].rank # RankGolden
  BY <1>2, <1>4, Constants DEF Accepted
<1>6. FlashInv' /\ SelectTrial(fwd') = SelectTrial(fwd)
  BY <1>1, <1>2, <1>3, <1>4, <1>5, QuietWrite
<1>7. UpgradeInv' /\ RejectInv' /\ AcceptInv'
  BY <1>1, <1>3, <1>4, <1>6 DEF UpgradeInv, RejectInv, AcceptInv
<1>8. RunningInv'
  BY <1>1, <1>3 DEF RunningInv
<1> QED BY <1>1, <1>3, <1>6, <1>7, <1>8, InvAppStay DEF AppPc, UpgPc

LEMMA InvRejectRank == IInv /\ TypeOK' /\ RejectRank => IInv'
<1> SUFFICES ASSUME IInv, TypeOK', RejectRank PROVE IInv'
  OBVIOUS
<1> PICK t : t = job.t
  OBVIOUS
<1>0. pc = "reject2" /\ TypeOK /\ FlashInv /\ fwd \in [Sector -> Fwd]
  BY DEF RejectRank, IInv, TypeOK
<1>1. t \in ScanSectors /\ t \in Sector /\ fwd[t].status = "invalid"
  BY <1>0, CandidatesAccepted DEF IInv, RejectInv, FlashInv
<1>2. /\ fwd' = [fwd EXCEPT ![t].rank = 1]
      /\ img' = img /\ job' = job /\ pc' = "reject3" /\ appFde' = appFde /\ rram' = rram
  BY DEF RejectRank
<1>3. /\ fwd'[t].rank = 1 /\ fwd'[t].status = "invalid"
      /\ \A i \in Sector : i # t => fwd'[i] = fwd[i] /\ img'[i] = img[i]
  BY <1>0, <1>1, <1>2 DEF Fwd
<1>4. ~ Accepted(t) /\ ~ SblValid(fwd'[t]) /\ ~ AppValid(fwd'[t]) /\ fwd'[t].rank # RankGolden
  BY <1>1, <1>3, Constants DEF Accepted, SblValid, AppValid
<1>5. FlashInv' /\ SelectTrial(fwd') = SelectTrial(fwd)
  BY <1>0, <1>1, <1>3, <1>4, QuietWrite
<1>6. UpgradeInv' /\ RejectInv' /\ AcceptInv'
  BY <1>1, <1>2, <1>3 DEF UpgradeInv, RejectInv, AcceptInv, UpgPc
<1>7. RunningInv'
  BY <1>0, <1>2, <1>5 DEF IInv, RunningInv, AppPc
<1> QED BY <1>0, <1>2, <1>5, <1>6, <1>7, InvAppStay DEF AppPc

\* Golden took over and there is no trial: the current FWD may go.
LEMMA InvVerifyEraseCurrent == IInv /\ TypeOK' /\ VerifyEraseCurrent => IInv'
<1> SUFFICES ASSUME IInv, TypeOK', VerifyEraseCurrent PROVE IInv'
  OBVIOUS
<1> PICK t : t = FirstCurrent(fwd)
  OBVIOUS
<1>0. TypeOK /\ FlashInv /\ GoldenInv /\ fwd \in [Sector -> Fwd] /\ fwd' \in [Sector -> Fwd]
  BY DEF IInv, TypeOK, FlashInv
<1>1. /\ pc = "verify" /\ pc' = "idle" /\ fwd' = [fwd EXCEPT ![t] = ErasedFwd] /\ img' = img
      /\ appFde' = appFde /\ rram' = rram /\ t # None /\ ~ TrialPassedOver /\ appFde.rank = Golden
  BY DEF VerifyEraseCurrent
<1>2. FwdSupportNum = 3 /\ appFde.mask = SlotMask(fwd) /\ Trial \notin SlotMask(fwd)
  BY <1>1, Constants DEF IInv, AppInv, AppPc, TrialPassedOver
<1>3. t \in OldCurrents(fwd) /\ t \in Sector /\ t # 0
  <2>1. t \in OldCurrents(fwd) /\ t \in Sector
    BY <1>0, <1>1, FirstCurrentChoice
  <2>2. fwd[0].rank = 0
    BY <1>0, <1>2, Constants DEF GoldenInv, GoldenFwd
  <2> QED BY <2>1, <2>2 DEF OldCurrents
<1>4. fwd'[t] = ErasedFwd /\ \A i \in Sector : i # t => fwd'[i] = fwd[i]
  BY <1>0, <1>1, <1>3
<1>5. ~ SblValid(ErasedFwd) /\ ~ AppValid(ErasedFwd) /\ ErasedFwd.rank # RankGolden
  BY Constants DEF ErasedFwd, SblValid, AppValid
<1>6. GoldenInv'
  BY <1>0, <1>1, <1>2, <1>3, <1>4, <1>5, Constants DEF GoldenInv
<1>7. TrialInv'
  <2>1. \A i \in Sector : ~ ValidTrial(i)
    <3>1. \A i \in Sector : ValidTrial(i) => SlotOf(fwd[i]) = Trial
      BY Constants DEF ValidTrial, SlotOf
    <3> QED BY <1>0, <1>2, <3>1, SlotTableChoice, Constants DEF SlotMask, ValidTrial
  <2>2. \A i \in Sector : ~ ValidTrial(i)'
    BY <1>4, <1>5, <2>1 DEF ValidTrial
  <2> QED BY <2>2 DEF TrialInv
<1>8. AcceptedInv'
  <2>1. Accepted(0)'
    BY <1>2, <1>6, Constants DEF GoldenInv, GoldenFwd, Accepted, AppValid
  <2>2. \A i \in Sector : Accepted(i)' => Accepted(i) /\ img'[i] = img[i]
    BY <1>1, <1>4, <1>5 DEF Accepted
  <2> QED BY <1>0, <2>1, <2>2, Constants DEF FlashInv, AcceptedInv
<1>9. ValidIsComplete'
  BY <1>0, <1>1, <1>4, <1>5 DEF FlashInv, ValidIsComplete
<1>10. DistinctRanks'
  <2>1. ScanSectors \subseteq Sector
    BY <1>0, CandidatesAccepted
  <2>2. \A i \in Sector : Accepted(i)' => Accepted(i) /\ fwd'[i] = fwd[i]
    BY <1>4, <1>5 DEF Accepted
  <2> QED BY <1>0, <2>1, <2>2 DEF FlashInv, DistinctRanks
<1>11. FlashInv'
  BY <1>6, <1>7, <1>8, <1>9, <1>10 DEF FlashInv
<1>12. UpgradeInv' /\ RejectInv' /\ AcceptInv'
  BY <1>1 DEF UpgradeInv, RejectInv, AcceptInv, UpgPc
<1>13. RunningInv'
  BY <1>1, Constants DEF RunningInv
<1> QED BY <1>1, <1>11, <1>12, <1>13, InvAppStay DEF AppPc

\* Accepting: the trial becomes the FWD of the highest rank, and nothing is a
\* trial any more.
LEMMA AcceptRankFlash ==
  ASSUME IInv, TypeOK', AcceptRank, NEW t, t = TrialIndex(fwd)
  PROVE  /\ FlashInv' /\ t \in Sector /\ t # CurrentIndex(fwd) /\ Accepted(t)'
         /\ \A i \in Sector : ~ ValidTrial(i)'
<1>0. /\ TypeOK /\ FlashInv /\ GoldenInv /\ TrialInv /\ AcceptedInv /\ ValidIsComplete /\ DistinctRanks
      /\ fwd \in [Sector -> Fwd] /\ fwd' \in [Sector -> Fwd]
  BY DEF IInv, TypeOK, FlashInv
<1> PICK r : r = HighestRank(fwd) + 1
  OBVIOUS
<1>1. /\ pc = "idle" /\ t # None /\ appFde.rank = Trial /\ HighestRank(fwd) < MaxRank
      /\ fwd' = [fwd EXCEPT ![t].rank = r] /\ img' = img
  BY DEF AcceptRank
<1>2. t \in Trials(fwd) /\ t \in ScanSectors /\ t \in Sector /\ ScanSectors \subseteq Sector
  BY <1>0, <1>1, TrialIndexChoice
<1>3. AppValid(fwd[t]) /\ SblValid(fwd[t]) /\ ValidTrial(t)
  BY <1>2 DEF Trials, AppValid, SblValid, ValidTrial
<1>4. t = SelectTrial(fwd) /\ t # CurrentIndex(fwd)
  BY <1>0, <1>2, <1>3, SelectTrialChoice DEF TrialInv
<1>5. /\ r \in Nat /\ r # RankGolden /\ r # RankTrial
      /\ \A j \in Candidates(fwd) : fwd[j].rank < r
  <2>1. HighestRank(fwd) \in Nat /\ \A j \in Candidates(fwd) : fwd[j].rank <= HighestRank(fwd)
    BY <1>0, HighestRankBound
  <2>2. MaxRank \in Nat /\ MaxRank < RankTrial /\ RankTrial \in Nat /\ RankGolden = 0
    BY OtaBootAssumption, Constants
  <2>3. \A j \in Candidates(fwd) : fwd[j].rank \in Nat
    BY <1>0, <1>2, CurrentIndexChoice DEF Fwd
  <2> HIDE DEF HighestRank, RankTrial
  <2> QED BY <1>1, <2>1, <2>2, <2>3
<1>6. /\ fwd'[t].rank = r /\ AppValid(fwd'[t])
      /\ \A i \in Sector : i # t => fwd'[i] = fwd[i]
  BY <1>0, <1>1, <1>2, <1>3 DEF Fwd, AppValid
<1>7. GoldenInv'
  <2>1. (FwdSupportNum = 3 => t # 0) /\ (FwdSupportNum = 2 => t # 2)
    BY <1>0, <1>2, CandidatesAccepted
  <2> QED BY <1>0, <1>1, <1>2, <1>5, <1>6, <2>1, Constants DEF GoldenInv
<1>8. \A i \in Sector : ~ ValidTrial(i)'
  BY <1>0, <1>4, <1>5, <1>6 DEF TrialInv, ValidTrial
<1>9. Accepted(t)' /\ \A i \in Sector : i # t => (Accepted(i)' <=> Accepted(i))
  BY <1>5, <1>6 DEF Accepted
<1>10. AcceptedInv'
  <2>1. DoneReboots => img[t] = "good"
    BY <1>1, <1>4 DEF IInv, RunningInv, AppPc
  <2> QED BY <1>0, <1>1, <1>2, <1>9, <2>1 DEF AcceptedInv
<1>11. ValidIsComplete'
  BY <1>0, <1>1, <1>3, <1>6 DEF ValidIsComplete
<1>12. DistinctRanks'
  <2>1. \A j \in ScanSectors : Accepted(j) => fwd[j].rank < r /\ fwd[j].rank \in Nat
    BY <1>0, <1>2, <1>5, CandidatesAccepted DEF Fwd
  <2>2. \A j \in ScanSectors : j # t /\ Accepted(j)' => fwd'[j].rank # r
    BY <1>2, <1>5, <1>6, <1>9, <2>1
  <2> QED BY <1>0, <1>2, <1>6, <1>9, <2>2 DEF DistinctRanks
<1> QED BY <1>2, <1>4, <1>7, <1>8, <1>9, <1>10, <1>11, <1>12 DEF FlashInv, TrialInv

LEMMA InvAcceptRank == IInv /\ TypeOK' /\ AcceptRank => IInv'
<1> SUFFICES ASSUME IInv, TypeOK', AcceptRank PROVE IInv'
  OBVIOUS
<1> PICK t : t = TrialIndex(fwd)
  OBVIOUS
<1> PICK c : c = CurrentIndex(fwd)
  OBVIOUS
<1>1. FlashInv' /\ t \in Sector /\ t # c /\ Accepted(t)' /\ \A i \in Sector : ~ ValidTrial(i)'
  BY AcceptRankFlash
<1>2. /\ pc = "idle" /\ appFde' = appFde /\ rram' = rram
      /\ \/ pc' = "accept2" /\ job' = [job EXCEPT !.t = c] /\ (FwdSupportNum = 2 \/ c # 0)
         \/ pc' = "off"
         \/ pc' = "idle" /\ ~ DoneReboots
  BY DEF AcceptRank, ToOff
<1>3. CASE pc' = "accept2"
  <2>1. job'.t = c /\ c \in ScanSectors
    <3>1. c \in ScanSectors \cup {0}
      BY SelectTrialChoice DEF IInv, TypeOK
    <3> QED BY <1>2, <1>3, <3>1 DEF IInv, TypeOK, ScanSectors
  <2>2. AcceptInv' /\ RunningInv'
    BY <1>1, <1>3, <2>1 DEF AcceptInv, RunningInv
  <2>3. UpgradeInv' /\ RejectInv'
    BY <1>3 DEF UpgradeInv, RejectInv, UpgPc
  <2> QED BY <1>1, <1>2, <1>3, <2>2, <2>3, InvAppStay DEF AppPc
<1>4. CASE pc' = "off"
  BY <1>1, <1>4, InvOff
<1>5. CASE pc' = "idle" /\ ~ DoneReboots
  <2>1. UpgradeInv' /\ RejectInv' /\ AcceptInv' /\ RunningInv'
    BY <1>5 DEF UpgradeInv, RejectInv, AcceptInv, RunningInv, UpgPc
  <2> QED BY <1>1, <1>2, <1>5, <2>1, InvAppStay DEF AppPc
<1> QED BY <1>2, <1>3, <1>4, <1>5

\* Invalidating the replaced FWD: with a reboot at the end of every Done the new
\* one is still there.
LEMMA InvAcceptInvalidate == IInv /\ TypeOK' /\ AcceptInvalidate => IInv'
<1> SUFFICES ASSUME IInv, TypeOK', AcceptInvalidate PROVE IInv'
  OBVIOUS
<1> PICK t : t = job.t
  OBVIOUS
<1>0. /\ TypeOK /\ GoldenInv /\ AcceptedInv /\ ValidIsComplete /\ DistinctRanks
      /\ fwd \in [Sector -> Fwd]
  BY DEF IInv, TypeOK, FlashInv
<1>1. /\ pc = "accept2" /\ fwd' = [fwd EXCEPT ![t].status = NorStatus(@, "invalid")]
      /\ img' = img /\ appFde' = appFde /\ rram' = rram
      /\ pc' = "off" \/ (pc' = "idle" /\ ~ DoneReboots)
  BY DEF AcceptInvalidate, ToOff
<1>2. t \in ScanSectors /\ t \in Sector /\ ScanSectors \subseteq Sector
  BY <1>0, <1>1, CandidatesAccepted DEF IInv, AcceptInv
<1>3. /\ fwd'[t].status = "invalid" /\ fwd'[t].rank = fwd[t].rank
      /\ \A i \in Sector : i # t => fwd'[i] = fwd[i]
  BY <1>0, <1>1, <1>2 DEF NorStatus, Fwd
<1>4. ~ SblValid(fwd'[t]) /\ ~ AppValid(fwd'[t])
  BY <1>3 DEF SblValid, AppValid
<1>5. GoldenInv'
  <2>1. (FwdSupportNum = 3 => t # 0) /\ (FwdSupportNum = 2 => t # 2)
    BY <1>0, <1>2, CandidatesAccepted
  <2> QED BY <1>0, <1>1, <1>2, <1>3, <2>1, Constants DEF GoldenInv
<1>6. TrialInv'
  <2>1. \A i \in Sector : ~ ValidTrial(i)
    BY <1>1 DEF IInv, AcceptInv
  <2> QED BY <1>3, <1>4, <2>1 DEF TrialInv, ValidTrial
<1>7. ~ Accepted(t)' /\ \A i \in Sector : i # t => (Accepted(i)' <=> Accepted(i))
  BY <1>3, <1>4 DEF Accepted
<1>8. AcceptedInv'
  <2>1. DoneReboots => \E i \in Sector \ {t} : Accepted(i)
    BY <1>1 DEF IInv, RunningInv
  <2> QED BY <1>0, <1>1, <1>7, <2>1 DEF AcceptedInv
<1>9. ValidIsComplete' /\ DistinctRanks'
  BY <1>0, <1>1, <1>2, <1>3, <1>4, <1>7 DEF ValidIsComplete, DistinctRanks
<1>10. FlashInv'
  BY <1>5, <1>6, <1>8, <1>9 DEF FlashInv
<1>11. CASE pc' = "off"
  BY <1>10, <1>11, InvOff
<1>12. CASE pc' = "idle" /\ ~ DoneReboots
  <2>1. UpgradeInv' /\ RejectInv' /\ AcceptInv' /\ RunningInv'
    BY <1>12 DEF UpgradeInv, RejectInv, AcceptInv, RunningInv, UpgPc
  <2> QED BY <1>1, <1>10, <1>12, <2>1, InvAppStay DEF AppPc
<1> QED BY <1>1, <1>11, <1>12

\* Steps of the application that write no flash and end in idle.
LEMMA InvAppIdle ==
  ASSUME IInv, TypeOK', pc \in AppPc \ {"accept2"}, pc' = "idle",
         fwd' = fwd, img' = img, appFde' = appFde, rram' = rram
  PROVE  IInv'
<1>1. FlashInv'
  BY FlashSame DEF IInv
<1>2. UpgradeInv' /\ RejectInv' /\ AcceptInv'
  BY DEF UpgradeInv, RejectInv, AcceptInv, UpgPc
<1>3. RunningInv'
  BY DEF IInv, RunningInv
<1> QED BY <1>1, <1>2, <1>3, InvAppStay DEF AppPc

LEMMA InvApp == IInv /\ AppStep => IInv'
<1> SUFFICES ASSUME IInv, AppStep PROVE IInv'
  OBVIOUS
<1>0. TypeOK /\ TypeOK' /\ FlashInv
  BY TypeApp DEF IInv
<1>1. CASE VerifyReject \/ DoneReject
  BY <1>0, <1>1, InvRejectStatus DEF VerifyReject, DoneReject
<1>2. CASE VerifyEraseCurrent
  BY <1>0, <1>2, InvVerifyEraseCurrent
<1>3. CASE VerifyNothing
  BY <1>0, <1>3, InvAppIdle DEF VerifyNothing, AppPc
<1>4. CASE Reboot
  <2>1. fwd' = fwd /\ img' = img /\ pc' = "off"
    BY <1>4 DEF Reboot, ToOff
  <2> QED BY <1>0, <2>1, FlashSame, InvOff
<1>5. CASE UpgradeStart
  <2>1. /\ pc = "idle" /\ pc' = "erase" /\ fwd' = fwd /\ img' = img /\ appFde' = appFde /\ rram' = rram
        /\ SelectTrial(fwd) # appFde.addr /\ job'.t = SelectTrial(fwd)
    BY <1>5 DEF UpgradeStart, Running, NoJob
  <2>2. FlashInv'
    BY <1>0, <2>1, FlashSame
  <2>3. UpgradeInv' /\ RejectInv' /\ AcceptInv'
    BY <2>1 DEF UpgradeInv, RejectInv, AcceptInv, UpgPc
  <2>4. RunningInv'
    BY <2>1 DEF IInv, RunningInv, AppPc
  <2> QED BY <1>0, <2>1, <2>2, <2>3, <2>4, InvAppStay DEF AppPc, UpgPc
<1>6. CASE UpgradeErase
  BY <1>0, <1>6, InvUpgradeErase
<1>7. CASE UpgradeConfig \/ UpgradeConfigRefused \/ UpgradeProgram \/ UpgradeProgrammed
  BY <1>0, <1>7, InvUpgradeData
<1>8. CASE UpgradeFail
  BY <1>0, <1>8, InvAppIdle DEF UpgradeFail, AppPc, UpgPc
<1>9. CASE FinalizeStatus
  BY <1>0, <1>9, InvFinalizeStatus
<1>10. CASE FinalizeSbl
  BY <1>0, <1>10, InvAppIdle DEF FinalizeSbl, AppPc, UpgPc
<1>11. CASE AcceptRank
  BY <1>0, <1>11, InvAcceptRank
<1>12. CASE AcceptInvalidate
  BY <1>0, <1>12, InvAcceptInvalidate
<1>13. CASE RejectRank
  BY <1>0, <1>13, InvRejectRank
<1>14. CASE RejectSbl
  <2>1. /\ pc = "reject3" /\ fwd' = fwd /\ img' = img /\ appFde' = appFde /\ rram' = rram
        /\ pc' \in {"idle", "off"}
    BY <1>14 DEF RejectSbl, ToOff
  <2>2. CASE pc' = "off"
    BY <1>0, <2>1, <2>2, FlashSame, InvOff
  <2>3. CASE pc' = "idle"
    BY <1>0, <2>1, <2>3, InvAppIdle DEF AppPc
  <2> QED BY <2>1, <2>2, <2>3
<1> QED BY <1>1, <1>2, <1>3, <1>4, <1>5, <1>6, <1>7, <1>8, <1>9, <1>10, <1>11, <1>12,
           <1>13, <1>14 DEF AppStep

LEMMA InvStep == IInv /\ [Next]_vars => IInv'
<1> SUFFICES ASSUME IInv, [Next]_vars PROVE IInv'
  OBVIOUS
<1>1. TypeOK' /\ FlashInv
  BY TypeStep DEF IInv
<1>2. CASE PowerFail
  <2>1. fwd' = fwd /\ img' = img /\ pc' = "off"
    BY <1>2 DEF PowerFail, ToOff
  <2> QED BY <1>1, <2>1, FlashSame, InvOff
<1>3. CASE UNCHANGED vars
  <2>1. FlashInv'
    BY <1>1, <1>3, FlashSame DEF vars
  <2> QED BY <1>1, <1>3, <2>1
          DEF vars, IInv, UpgradeInv, RejectInv, AcceptInv, SblInv, AppInv, RunningInv,
              ValidTrial, Accepted
<1> QED BY <1>2, <1>3, InvBoot, InvApp DEF Next

\* The invariant holds at every instant, for both layouts, any packages, any
\* number of power failures, and with or without hash verification.
THEOREM Invariance == Spec => []IInv
BY InvInit, InvStep, PTL DEF Spec

-----------------------------------------------------------------------------
(* The properties.                                                         *)

\* A descriptor that reads "valid" describes completely programmed images,
\* wherever the power failed during the download.
THEOREM ValidFwdIsComplete == Spec => []ValidIsComplete
<1>1. IInv => ValidIsComplete
  BY DEF IInv, FlashInv
<1> QED BY <1>1, Invariance, PTL

\* Two accepted descriptors never tie, also between the two writes of an accept.
THEOREM RanksDiffer == Spec => []DistinctRanks
<1>1. IInv => DistinctRanks
  BY DEF IInv, FlashInv
<1> QED BY <1>1, Invariance, PTL

\* When every Done reboots, flash holds an accepted image that boots at every
\* instant.
THEOREM SomethingBootable ==
  ASSUME DoneReboots
  PROVE  Spec => []AcceptedImageBootable
<1>1. IInv => AcceptedImageBootable
  BY DEF IInv, FlashInv, AcceptedInv, AcceptedImageBootable
<1> QED BY <1>1, Invariance, PTL

\* When the SBL verifies the hash of what it loaded, RRAM holds the code of the
\* image that runs.
THEOREM RramRunning ==
  ASSUME Auth
  PROVE  Spec => []RramMatchesRunning
<1>1. IInv => RramMatchesRunning
  BY DEF IInv, AppInv, RramMatchesRunning, Running
<1> QED BY <1>1, Invariance, PTL

\* The only FWD a step may write: one of the two that alternate, and while the
\* application runs, never the running image nor the descriptor's magic.
LEMMA FlashWrites ==
  ASSUME IInv, Next
  PROVE  /\ FwdSupportNum = 3 => fwd'[0] = fwd[0] /\ img'[0] = img[0]
         /\ pc \in AppPc => /\ img'[appFde.addr] = img[appFde.addr]
                            /\ fwd'[appFde.addr].magic = fwd[appFde.addr].magic
<1>0. TypeOK /\ FlashInv /\ GoldenInv /\ fwd \in [Sector -> Fwd] /\ img \in [Sector -> Quality \cup {"none", "partial"}]
  BY DEF IInv, FlashInv, TypeOK
<1>1. ScanSectors \subseteq Sector /\ (FwdSupportNum = 3 => 0 \notin ScanSectors)
  BY <1>0, CandidatesAccepted
<1>2. pc \in AppPc => appFde.addr \in Sector
  BY DEF IInv, AppInv
<1>3. CASE fwd' = fwd /\ img' = img
  BY <1>3
<1>4. ASSUME NEW t \in ScanSectors, img' = img,
             \A i \in Sector : i # t => fwd'[i] = fwd[i], fwd'[t].magic = fwd[t].magic
      PROVE  /\ FwdSupportNum = 3 => fwd'[0] = fwd[0] /\ img'[0] = img[0]
             /\ pc \in AppPc => /\ img'[appFde.addr] = img[appFde.addr]
                                /\ fwd'[appFde.addr].magic = fwd[appFde.addr].magic
  BY <1>1, <1>2, <1>4, Constants
<1>5. ASSUME NEW t \in ScanSectors, t # appFde.addr,
             \A i \in Sector : i # t => fwd'[i] = fwd[i] /\ img'[i] = img[i]
      PROVE  /\ FwdSupportNum = 3 => fwd'[0] = fwd[0] /\ img'[0] = img[0]
             /\ pc \in AppPc => /\ img'[appFde.addr] = img[appFde.addr]
                                /\ fwd'[appFde.addr].magic = fwd[appFde.addr].magic
  BY <1>1, <1>2, <1>5, Constants
<1>6. CASE VerifyReject \/ DoneReject
  <2> PICK t : t = TrialIndex(fwd)
    OBVIOUS
  <2>1. t # None /\ img' = img /\ fwd' = [fwd EXCEPT ![t].status = NorStatus(@, "invalid")]
    BY <1>6 DEF VerifyReject, DoneReject, RejectStatus
  <2>2. t \in ScanSectors
    BY <1>0, <2>1, TrialIndexChoice
  <2>3. fwd'[t].magic = fwd[t].magic /\ \A i \in Sector : i # t => fwd'[i] = fwd[i]
    BY <1>0, <1>1, <2>1, <2>2 DEF Fwd
  <2> QED BY <1>4, <2>1, <2>2, <2>3
<1>7. CASE VerifyEraseCurrent
  <2> PICK t : t = FirstCurrent(fwd)
    OBVIOUS
  <2>1. /\ pc = "verify" /\ img' = img /\ fwd' = [fwd EXCEPT ![t] = ErasedFwd]
        /\ t # None /\ appFde.rank = Golden
    BY <1>7 DEF VerifyEraseCurrent
  <2>2. FwdSupportNum = 3 /\ appFde.addr = 0
    BY <2>1 DEF IInv, AppInv, AppPc
  <2>3. t \in OldCurrents(fwd) /\ t \in Sector
    BY <1>0, <2>1, FirstCurrentChoice
  <2>4. fwd[0].rank = 0
    BY <1>0, <2>2, Constants DEF GoldenInv, GoldenFwd
  <2>5. t # 0
    BY <2>3, <2>4 DEF OldCurrents
  <2>6. t \in ScanSectors
    BY <2>2, <2>3, <2>5, Constants DEF ScanSectors
  <2> QED BY <1>0, <1>5, <2>1, <2>2, <2>5, <2>6
<1>8. CASE UpgradeErase \/ UpgradeConfig \/ UpgradeConfigRefused \/ UpgradeProgram \/ UpgradeProgrammed
  <2> PICK t : t = job.t
    OBVIOUS
  <2>1. pc \in UpgPc
    BY <1>8 DEF UpgradeErase, UpgradeConfig, UpgradeConfigRefused, UpgradeProgram, UpgradeProgrammed, UpgPc
  <2>2. t \in ScanSectors /\ t # appFde.addr
    BY <2>1, UpgradeTarget
  <2>3. \A i \in Sector : i # t => fwd'[i] = fwd[i] /\ img'[i] = img[i]
    BY <1>0, <1>8 DEF UpgradeErase, UpgradeConfig, UpgradeConfigRefused, ConfigHeader,
                      UpgradeProgram, UpgradeProgrammed
  <2> QED BY <1>5, <2>2, <2>3
<1>9. CASE FinalizeStatus \/ AcceptInvalidate \/ RejectRank
  <2> PICK t : t = job.t
    OBVIOUS
  <2>1. t \in ScanSectors
    <3>1. CASE FinalizeStatus
      BY <3>1, UpgradeTarget DEF FinalizeStatus, UpgPc
    <3>2. CASE AcceptInvalidate
      BY <3>2 DEF AcceptInvalidate, IInv, AcceptInv
    <3>3. CASE RejectRank
      BY <3>3 DEF RejectRank, IInv, RejectInv
    <3> QED BY <1>9, <3>1, <3>2, <3>3
  <2>2. img' = img
    BY <1>9 DEF FinalizeStatus, AcceptInvalidate, RejectRank
  <2>3. fwd'[t].magic = fwd[t].magic /\ \A i \in Sector : i # t => fwd'[i] = fwd[i]
    BY <1>0, <1>1, <1>9, <2>1 DEF FinalizeStatus, AcceptInvalidate, RejectRank, Fwd
  <2> QED BY <1>4, <2>1, <2>2, <2>3
<1>10. CASE AcceptRank
  <2> PICK t : t = TrialIndex(fwd)
    OBVIOUS
  <2>1. t # None /\ img' = img /\ fwd' = [fwd EXCEPT ![t].rank = HighestRank(fwd) + 1]
    BY <1>10 DEF AcceptRank
  <2>2. t \in ScanSectors
    BY <1>0, <2>1, TrialIndexChoice
  <2>3. fwd'[t].magic = fwd[t].magic /\ \A i \in Sector : i # t => fwd'[i] = fwd[i]
    BY <1>0, <1>1, <2>1, <2>2 DEF Fwd
  <2> QED BY <1>4, <2>1, <2>2, <2>3
<1>11. CASE BootStep
  BY <1>3, <1>11 DEF BootStep, Boot, SblSelect, SblErrorReset, SblErrorNext, SblGiveUp, SblLoadRefused,
           SblLoadStart, SblLoadEnd, SblCommitSbl, SblCommitApp
<1>12. CASE VerifyNothing \/ Reboot \/ UpgradeStart \/ UpgradeFail \/ FinalizeSbl \/ RejectSbl
            \/ PowerFail
  BY <1>3, <1>12 DEF VerifyNothing, Reboot, UpgradeStart, UpgradeFail, FinalizeSbl, RejectSbl,
                     PowerFail, vars
<1> QED BY <1>6, <1>7, <1>8, <1>9, <1>10, <1>11, <1>12 DEF Next, AppStep

\* No step ever writes the golden FWD or its images in the three-FWD layout.
THEOREM GoldenStays == Spec => GoldenUntouched
<1>1. IInv /\ [Next]_vars => [FwdSupportNum = 3 => (fwd'[0] = fwd[0] /\ img'[0] = img[0])]_vars
  BY FlashWrites
<1> QED BY <1>1, Invariance, PTL DEF GoldenUntouched, Spec

\* No step of the application erases or overwrites the image it runs from, in
\* either layout, after any history of upgrades, rejects and power failures.
THEOREM RunningStays == Spec => RunningImageUntouched
<1>1. IInv /\ [Next]_vars =>
        [(pc \in AppPc) => /\ img'[Running] = img[Running]
                           /\ fwd'[Running].magic = fwd[Running].magic]_vars
  <2> SUFFICES ASSUME IInv, Next, pc \in AppPc
               PROVE  /\ img'[Running] = img[Running]
                      /\ fwd'[Running].magic = fwd[Running].magic
    OBVIOUS
  <2> QED BY FlashWrites DEF Running
<1> QED BY <1>1, Invariance, PTL DEF RunningImageUntouched, Spec

\* Only fw_upgrade_accept_trial_fwd takes the trial rank away from a FWD that
\* stays valid.
LEMMA TrialRankKept ==
  ASSUME IInv, Next, ~ AcceptRank, NEW k \in Sector,
         fwd[k].rank = RankTrial, fwd'[k].status = "valid"
  PROVE  fwd'[k].rank = RankTrial
<1>0. fwd \in [Sector -> Fwd]
  BY DEF IInv, TypeOK
<1>1. CASE VerifyReject \/ DoneReject
  BY <1>0, <1>1 DEF VerifyReject, DoneReject, RejectStatus, Fwd
<1>2. CASE VerifyEraseCurrent \/ UpgradeErase
  BY <1>0, <1>2, Constants DEF VerifyEraseCurrent, UpgradeErase
<1>3. CASE UpgradeConfig \/ UpgradeConfigRefused
  <2>1. PICK p \in Packages : fwd' = [fwd EXCEPT ![job.t].magic = p.magic, ![job.t].images = TRUE]
    BY <1>3 DEF UpgradeConfig, UpgradeConfigRefused, ConfigHeader
  <2> QED BY <1>0, <2>1 DEF Fwd
<1>9. CASE UpgradeProgram
  BY <1>0, <1>9 DEF UpgradeProgram, Fwd
<1>4. CASE FinalizeStatus \/ AcceptInvalidate
  BY <1>0, <1>4 DEF FinalizeStatus, AcceptInvalidate, Fwd
<1>5. CASE RejectRank
  <2>1. fwd[job.t].status = "invalid" /\ fwd' = [fwd EXCEPT ![job.t].rank = 1]
    BY <1>5 DEF RejectRank, IInv, RejectInv
  <2>2. fwd'[k].status = fwd[k].status
    BY <1>0, <2>1 DEF Fwd
  <2> QED BY <1>0, <2>1, <2>2
<1>6. CASE fwd' = fwd
  BY <1>6
<1>7. CASE BootStep
  BY <1>6, <1>7 DEF BootStep, Boot, SblSelect, SblErrorReset, SblErrorNext, SblGiveUp, SblLoadRefused,
           SblLoadStart, SblLoadEnd, SblCommitSbl, SblCommitApp
<1>8. CASE VerifyNothing \/ Reboot \/ UpgradeStart \/ UpgradeProgrammed \/ UpgradeFail
           \/ FinalizeSbl \/ RejectSbl \/ PowerFail
  BY <1>6, <1>8 DEF VerifyNothing, Reboot, UpgradeStart, UpgradeProgrammed, UpgradeFail,
                    FinalizeSbl, RejectSbl, PowerFail, vars
<1> QED BY <1>1, <1>2, <1>3, <1>4, <1>5, <1>7, <1>8, <1>9 DEF Next, AppStep

\* When every Done reboots, the FWD that qapi_Fw_Upgrade_Done(1) accepts is the
\* one the application runs from.
THEOREM AcceptedTrialRuns ==
  ASSUME DoneReboots
  PROVE  Spec => AcceptsRunningTrial
<1> DEFINE Accepts == \E i \in Sector : fwd[i].rank = RankTrial /\ AppValid(fwd[i])
                         /\ fwd'[i].rank # RankTrial /\ fwd'[i].status = "valid"
<1>1. ASSUME IInv, Next, Accepts PROVE TrialIndex(fwd) = Running
  <2>1. AcceptRank
    BY <1>1, TrialRankKept
  <2>2. pc = "idle" /\ TrialIndex(fwd) # None /\ appFde.rank = Trial
    BY <2>1 DEF AcceptRank
  <2>3. appFde.addr = SelectTrial(fwd)
    BY <1>1, <2>2 DEF IInv, RunningInv, AppPc
  <2>4. TrialIndex(fwd) \in Trials(fwd) /\ TrialIndex(fwd) \in Sector
    BY <1>1, <2>2, TrialIndexChoice DEF IInv, TypeOK
  <2>5. ValidTrial(TrialIndex(fwd))
    BY <2>4 DEF Trials, ValidTrial, SblValid, AppValid
  <2> QED BY <1>1, <2>3, <2>4, <2>5 DEF IInv, FlashInv, TrialInv, Running
<1>2. IInv /\ [Next]_vars => [Accepts => TrialIndex(fwd) = Running]_vars
  BY <1>1
<1> QED BY <1>2, Invariance, PTL DEF AcceptsRunningTrial, Spec
=============================================================================

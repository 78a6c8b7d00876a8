-------------------------- MODULE ImageInstallProofs ---------------------------
(***************************************************************************)
(* ImageInstall for every flash, every table a device may be delivered     *)
(* with and every package.                                                 *)
(*                                                                         *)
(* The factory's table f fixes the layout for good: every set that may run *)
(* has its data areas where f has them, the two file systems perhaps       *)
(* exchanged, so that every upgrade computes the same two areas.  InvOf(f) *)
(* says so of the sets and, of the upgrade that is under way, that what it *)
(* still has to write fits between the address it has come to and the end  *)
(* of its area, where there is nothing of another set, and what of the     *)
(* package is in flash already.                                            *)
(***************************************************************************)
EXTENDS ImageInstall, TLAPS, SequenceTheorems, WellFoundedInduction

-----------------------------------------------------------------------------
(* The layout of a device, from the factory's table f.                     *)

Has(q, id)    == \E k \in DOMAIN q : q[k].id = id
First(q, id)  == q[Min({k \in DOMAIN q : q[k].id = id})]
Swap(id)      == IF id = "fs1" THEN "fs2" ELSE IF id = "fs2" THEN "fs1" ELSE id
Place(f, id)  == f[CHOOSE k \in DOMAIN f : f[k].id = id]
AtPlace(e, d) == e.start = d.start /\ e.size = d.size
Units(e)      == e.start .. End(e) - 1

\* The two areas, and where the programs of FWD i may be.
Lo(f, t)     == Base(f) + (IF FwdSupportNum = 2 THEN t ELSE t - 1) * Half(Base(f))
Hi(f, t)     == Lo(f, t) + Half(Base(f))
Bottom(f, i) == IF i = 0 THEN 0 ELSE Lo(f, i)
Top(f, i)    == IF FwdSupportNum = 2 THEN Hi(f, 1) ELSE IF i = 0 THEN Base(f) ELSE Hi(f, i)

\* The entries q of a set that is FWD i: the data areas are those of the
\* factory, the file systems perhaps exchanged; the programs are in their part
\* of the flash.
Turn(x, id)     == IF x THEN Swap(id) ELSE id
Turned(f, q, x) ==
  \A k \in DOMAIN q : q[k].id \in Commons => AtPlace(q[k], Place(f, Turn(x, q[k].id)))
Inside(f, i, e) ==
  /\ Bottom(f, i) <= e.start /\ End(e) <= Top(f, i) /\ e.len <= e.size
  /\ \A j \in DOMAIN f : f[j].id \in Commons => Apart(e, f[j])
SetOf(f, i, q) ==
  /\ \E x \in BOOLEAN : Turned(f, q, x)
  /\ \A id \in Commons : Has(q, id) <=> Has(f, id)
  /\ \A k \in DOMAIN q : q[k].id \in Programs => Inside(f, i, q[k])

\* No program of q between a and b.
Beyond(q, a, b) ==
  \A k \in DOMAIN q : q[k].id \in Programs => End(q[k]) <= a \/ q[k].start >= b

\* The entries q of a set that is being installed beside the running set act,
\* up to address a; the last one is open.
NewOf(f, t, q, act, a, open) ==
  /\ \A k \in DOMAIN q : q[k].id \in Commons =>
       /\ Has(f, q[k].id) /\ AtPlace(q[k], First(act, Swap(q[k].id)))
       /\ q[k].id = "fs1" => q[k].len <= q[k].size
  /\ \A id \in Commons \ {"fs1"} : Has(f, id) => Has(q, id)
  /\ \A k \in DOMAIN q : q[k].id \in Programs =>
       /\ Lo(f, t) <= q[k].start /\ q[k].len <= q[k].size
       /\ ~ (open /\ k = Len(q)) => End(q[k]) <= a

\* Entry e, made for image g of the package at address a.
MadeOf(e, g, act, a) ==
  /\ e.id = g.id /\ e.ver = g.ver /\ e.len = g.len
  /\ InArea(g) => e.start = a /\ e.size = Disk(g)
  /\ g.id = "fs1" => AtPlace(e, First(act, "fs2")) /\ Disk(g) <= e.size

\* Contents of flash fl: an image, the same but for blocks that could not be read
\* when it was copied, its first c units, an erased area.
Contains(fl, e) == \A o \in 0 .. e.len - 1 : fl[e.start + o] = <<e.id, e.ver, o>>
Keeps(fl, e)    == \A o \in 0 .. e.len - 1 : fl[e.start + o] \in {<<e.id, e.ver, o>>, Stale}
Begun(fl, e, c) == \A o \in 0 .. c - 1 : fl[e.start + o] = <<e.id, e.ver, o>>
Blank(fl, a, b) == \A u \in a .. b - 1 : fl[u] = Erased
Through(c)      == (c \div BlockSize + 1) * BlockSize
AllHeld(fl, q, open) ==
  \A k \in DOMAIN q : q[k].id \in Programs /\ ~ (open /\ k = Len(q)) => Keeps(fl, q[k])
InEntry(fl, q, g, dup) ==
  \E j \in DOMAIN q :
    q[j].id = g.id /\ q[j].ver = g.ver /\ ((q[j].id = "fs1" /\ ~ dup) => Contains(fl, q[j]))
CanCopy(fl, act, g) ==
  /\ g.id \in Programs /\ Has(act, g.id) /\ First(act, g.id).size = Disk(g)
  /\ \A o \in 0 .. g.len - 1 : fl[First(act, g.id).start + o] = <<g.id, g.ver, o>>

\* The running sum of the images in D of package p.
Sizes(p, D) == [k \in DOMAIN p.images |->
                  IF k \in D /\ InArea(p.images[k]) THEN Disk(p.images[k]) ELSE 0]
NeedOf(p, D) == Sums(Sizes(p, D))

-----------------------------------------------------------------------------
(* The inductive invariant.                                                *)

Pcs == {"idle", "info", "erase", "fs2", "prepare", "config", "connect", "recv", "image",
        "dupimages", "dupfs", "finish"}
SessionType ==
  [pc : Pcs, pkg : Packages \cup {<<>>}, dup : BOOLEAN, t : Sector, start : Nat,
   size : 0 .. Word - 1, i : Nat \ {0}, open : BOOLEAN, cnt : Nat, buf : 0 .. MaxChunk, left : Nat,
   dl : SUBSET Nat]
Types ==
  /\ fwd \in [Sector -> Fwd] /\ ent \in [Sector -> Seq(ImageEntry)]
  /\ active \in Sector /\ boot \in Slot /\ sbl \in BOOLEAN
  /\ s \in SessionType /\ sessions \in 0 .. MaxSessions /\ mounts \in 0 .. MaxMounts
  /\ s.pc # "idle" => s.pkg \in Packages
\* The handles: those of the pool and the one of the open image.
Handles == free \in Nat /\ free + (IF s.open THEN 1 ELSE 0) <= MaxHandles

\* From the choice of the trial area on; ... once it has been erased; ... once
\* the data areas have been entered; ... once the header has been read.
Busy    == s.pc \notin {"idle", "info"}
Filling == s.pc \notin {"idle", "info", "erase"}
Placing == s.pc \in {"config", "connect", "recv", "image", "dupimages", "dupfs", "finish"}
Loading == s.pc \in {"connect", "recv", "image"}
Reading == s.pc \in {"connect", "recv", "image", "dupimages", "dupfs", "finish"}

\* The sets that may be running, now or after a reset.
Whole(i) == AppValid(fwd[i]) \/ i = active

\* Descriptors: a valid one is complete, the third is used with a golden one
\* only, and a golden one is never written ...
Table(f) ==
  /\ \A i \in Sector : fwd[i].status = "valid" => fwd[i].magic /\ fwd[i].images
  /\ FwdSupportNum = 2 => fwd[2].status # "valid" /\ active # 2
  /\ FwdSupportNum = 3 => ent[0] = f
\* ... the one that is written is not the running one, and not valid yet.
Chosen ==
  /\ Busy => s.t \in ScanSectors /\ s.t # active
  /\ Filling => fwd[s.t].status # "valid"
  /\ Reading => fwd[s.t].magic /\ fwd[s.t].images
Sets(f) == \A i \in Sector : Whole(i) => SetOf(f, i, ent[i])

\* The rest of the trial area is free of the programs of the other sets ...
Clear(f) ==
  Busy =>
    /\ Lo(f, s.t) <= s.start /\ s.start <= Hi(f, s.t)
    /\ s.pc \in {"erase", "fs2", "prepare", "config"} => s.start + s.size = Hi(f, s.t)
    /\ \A i \in Sector \ {s.t} : Whole(i) => Beyond(ent[i], s.start, Hi(f, s.t))
\* ... and large enough for the images that are still to come.
Room(f) ==
  /\ Loading =>
       s.start + NeedOf(s.pkg, DOMAIN Images)[Len(Images)]
         <= Hi(f, s.t) + NeedOf(s.pkg, s.dl)[s.i - 1]
  /\ s.pc = "dupimages" =>
       s.start + NeedOf(s.pkg, DOMAIN Images)[Len(Images)]
         <= Hi(f, s.t) + NeedOf(s.pkg, s.dl)[Len(Images)]
              + NeedOf(s.pkg, DOMAIN Images \ s.dl)[s.i - 1]

\* Where the session is in its package.
Position ==
  /\ s.pc \in {"info", "erase", "fs2", "prepare", "config"} => s.i = 1
  /\ s.open => s.pc \in {"recv", "image"}
  /\ s.pc \in {"fs2", "prepare"} => ent[s.t] = <<>>
  /\ Loading \/ s.pc = "dupimages" => s.dl \subseteq DOMAIN Images /\ s.i <= Len(Images) + 1
  /\ Loading /\ s.pkg.fmt = "all" => s.dl = DOMAIN Images /\ s.pc # "connect"
  /\ s.pc \in {"recv", "image"} => s.i \in s.dl
  /\ s.pc = "image" => s.buf > 0

\* The entries of the set that is being installed.
Last == ent[s.t][Len(ent[s.t])]
NewSet(f) == Placing => NewOf(f, s.t, ent[s.t], ent[active], s.start, s.open)
OpenEntry == s.open => ent[s.t] # <<>> /\ MadeOf(Last, Img, ent[active], s.start)

\* What is in flash: the images of the valid sets, and of the new one those
\* that are complete ...
Intact   == \A i \in Sector : AppValid(fwd[i]) => AllHeld(flash, ent[i], FALSE)
Complete == Placing => AllHeld(flash, ent[s.t], s.open)
\* ... the one that is open, as far as it has come, and what is erased for it ...
Partly ==
  s.open =>
    /\ s.cnt < Img.len \/ (s.cnt = 0 /\ Img.len = 0 /\ s.pkg.fmt = "part")
    /\ Img.id # "sbl" =>
         /\ Begun(flash, Last, s.cnt)
         /\ s.cnt < Img.len => Blank(flash, Last.start + s.cnt, Last.start + Through(s.cnt))
\* ... the second file system, erased until the package's comes ...
FsErased ==
  s.pc \in {"prepare", "config", "connect", "recv", "image"} =>
    \A k \in DOMAIN Images :
      Images[k].id = "fs1" /\ (k > s.i \/ (k = s.i /\ ~ s.open)) =>
        Blank(flash, First(ent[active], "fs2").start, End(First(ent[active], "fs2")))
\* ... and, in the running set, what need not be downloaded.
ToCopy ==
  Loading \/ s.pc = "dupimages" =>
    \A k \in DOMAIN Images \ s.dl : CanCopy(flash, ent[active], Images[k])

\* The images that have been dealt with have their entries, and the file
\* system its contents.
Passed(k) ==
  \/ Loading /\ k \in s.dl /\ k < s.i
  \/ s.pc = "dupimages" /\ (k \in s.dl \/ k < s.i)
  \/ s.pc \in {"dupfs", "finish"}
Entered ==
  s.pc # "idle" =>
    \A k \in DOMAIN Images : Passed(k) => InEntry(flash, ent[s.t], Images[k], s.dup)

InvOf(f) ==
  /\ Types /\ Handles /\ Table(f) /\ Chosen /\ Sets(f) /\ Clear(f) /\ Room(f) /\ Position
  /\ NewSet(f) /\ OpenEntry /\ Intact /\ Complete /\ Partly /\ FsErased /\ ToCopy /\ Entered
IInv == \E f \in Factories : InvOf(f)

\* A trial area is chosen, and the entries of the data areas are copied, with
\* two handles to spare.
Supplied == s.pc \in {"info", "prepare"} => free > 1
-----------------------------------------------------------------------------
(* Numbers.                                                                *)

\* A set of naturals has a least element ...
LEMMA Least ==
  ASSUME NEW T \in SUBSET Nat, T # {}
  PROVE  \E x \in T : \A y \in T : x <= y
<1> DEFINE R == OpToRel(<, Nat)
<1>1. PICK x \in T : \A y \in T : ~ (<<y, x>> \in R)
  <2>1. IsWellFoundedOn(R, Nat)
    BY NatLessThanWellFounded, Zenon
  <2> HIDE DEF R
  <2> QED
    BY <2>1, WFMin, Zenon
<1>2. ASSUME NEW y \in T, y < x PROVE FALSE
  <2>1. <<y, x>> \in R
    BY <1>2 DEF OpToRel
  <2> QED
    BY <2>1, <1>1
<1> QED
  BY <1>2

LEMMA MinIs ==
  ASSUME NEW T \in SUBSET Nat, T # {}
  PROVE  Min(T) \in T /\ \A y \in T : Min(T) <= y
BY Least DEF Min

\* ... and, if it is bounded, a greatest one.
LEMMA MaxIs ==
  ASSUME NEW T \in SUBSET Nat, T # {}, NEW b \in Nat, \A x \in T : x <= b
  PROVE  Max(T) \in T /\ \A y \in T : y <= Max(T)
<1> DEFINE U == {z \in Nat : \A y \in T : y <= z}
<1>1. PICK z \in U : \A u \in U : z <= u
  <2>1. b \in U
    OBVIOUS
  <2>2. U \in SUBSET Nat
    OBVIOUS
  <2> HIDE DEF U
  <2> QED
    BY <2>1, <2>2, Least
<1>2. z \in T
  <2>1. SUFFICES ASSUME z \notin T PROVE FALSE
    OBVIOUS
  <2>2. z \in Nat /\ \A y \in T : y < z
    BY <2>1, <1>1
  <2>3. PICK y \in T : TRUE
    OBVIOUS
  <2>4. z - 1 \in U
    BY <2>2, <2>3
  <2> QED
    BY <2>4, <1>1, <2>2
<1>3. \E x \in T : \A y \in T : x >= y
  BY <1>1, <1>2
<1> QED
  BY <1>3 DEF Max

\* A maximum is known by its two properties.
LEMMA MaxUnique ==
  ASSUME NEW T \in SUBSET Nat, NEW m \in T, \A y \in T : y <= m
  PROVE  Max(T) = m
<1>1. \E x \in T : \A y \in T : x >= y
  OBVIOUS
<1>2. Max(T) \in T /\ \A y \in T : Max(T) >= y
  BY <1>1 DEF Max
<1>3. m \in Nat /\ Max(T) \in Nat /\ m <= Max(T) /\ Max(T) <= m
  BY <1>2
<1> QED
  BY <1>3

\* Block numbers.
LEMMA Division ==
  ASSUME NEW a \in Nat, NEW d \in Nat \ {0}
  PROVE  /\ a \div d \in Nat /\ (a % d) \in 0 .. d - 1
         /\ (a \div d) * d <= a /\ a < (a \div d + 1) * d
         /\ a = (a \div d) * d + (a % d)
OBVIOUS

LEMMA Order ==
  ASSUME NEW a \in Nat, NEW b \in Nat, NEW d \in Nat \ {0}
  PROVE  /\ a <= b => a * d <= b * d
         /\ a * d < b * d => a < b
         /\ a < b => a * d + d <= b * d
OBVIOUS

LEMMA Remainder ==
  ASSUME NEW a \in Nat, NEW d \in Nat \ {0}, a < d
  PROVE  a % d = a
OBVIOUS

LEMMA AddUp ==
  ASSUME NEW a \in Nat, NEW b \in Nat, NEW c \in Nat, NEW d \in Nat
  PROVE  (a + b) + (c + d) = (a + c) + (b + d)
OBVIOUS

\* Unit o of the first x of the z units that are there from y on.
LEMMA Offset ==
  ASSUME NEW y \in Nat, NEW z \in Nat, NEW n \in Nat, y + z <= n, NEW x \in Nat, x <= z, NEW o \in Nat, o < x
  PROVE  y + o \in Nat /\ y + o \in 0 .. n - 1 /\ y + o < y + x
OBVIOUS

\* The m units from x on, behind the first c.
LEMMA Segment ==
  ASSUME NEW y \in Nat, NEW z \in Nat, NEW c \in Nat, NEW x \in Nat, NEW m \in Nat, c < x, x + m <= z
  PROVE  y + x <= y + x + m /\ y + c < y + x /\ y + x + m <= y + z
OBVIOUS

\* A unit behind the w units that follow the first c.
LEMMA Behind ==
  ASSUME NEW y \in Nat, NEW c \in Nat, NEW w \in Nat, NEW r \in Nat, NEW n \in Nat, y + r <= n,
         NEW u \in y + (c + w) .. (y + r) - 1
  PROVE  u \in 0 .. n - 1 /\ u \notin y + c .. y + c + w - 1 /\ u \in y + c .. (y + r) - 1
OBVIOUS

\* The constants.
LEMMA Consts ==
  /\ BlockSize \in Nat \ {0} /\ FlashSize \in Nat /\ Word \in Nat /\ FlashSize < Word
  /\ Addr = 0 .. FlashSize - 1 /\ FwdSupportNum \in {2, 3} /\ Sector = {0, 1, 2}
  /\ 3 * BlockSize \in Nat /\ MaxChunk \in Nat \ {0} /\ NoFs \in BOOLEAN
BY InstallAssumption, FwdSupportNumAssumption DEF FlashSize, Addr, Sector

\* Half of the blocks, twice, are not more than there are.
LEMMA HalfIs ==
  ASSUME NEW a \in Nat, a <= FlashSize
  PROVE  Half(a) \in Nat /\ a + 2 * Half(a) <= FlashSize
<1>1. FlashSize - a \in Nat /\ BlockSize \in Nat \ {0} /\ FlashSize \in Nat
  BY Consts
<1>2. PICK q \in Nat : q = (FlashSize - a) \div BlockSize /\ q * BlockSize <= FlashSize - a
  BY <1>1, Division
<1>3. PICK h \in Nat : h = q \div 2 /\ 2 * h <= q
  OBVIOUS
<1>4. Half(a) = h * BlockSize
  BY <1>2, <1>3 DEF Half
<1>5. h * BlockSize \in Nat /\ 2 * (h * BlockSize) = (2 * h) * BlockSize /\ (2 * h) * BlockSize <= q * BlockSize
  <2>1. (2 * h) * BlockSize <= q * BlockSize
    BY <1>1, <1>3, Order
  <2> QED
    BY <1>1, <2>1
<1> QED
  BY <1>1, <1>2, <1>4, <1>5

\* The disk size of an image: whole blocks that hold it.
LEMMA DiskIs ==
  ASSUME NEW g, g.disk \in Nat \ {0}, g.len \in Nat, g.len <= g.disk
  PROVE  /\ Disk(g) \in Nat /\ g.len <= Disk(g)
         /\ g.id # "sbl" => \E q \in Nat : q > 0 /\ Disk(g) = q * BlockSize
<1>1. BlockSize \in Nat \ {0}
  BY Consts
<1>2. CASE g.id = "sbl"
  BY <1>2 DEF Disk
<1>3. CASE g.id # "sbl"
  <2>1. PICK n \in Nat : n = g.disk
    OBVIOUS
  <2>2. CASE n % BlockSize = 0
    <3>1. n \div BlockSize \in Nat /\ n = (n \div BlockSize) * BlockSize + (n % BlockSize)
      BY <1>1, Division
    <3>2. PICK m \in Nat : m = n \div BlockSize /\ n = m * BlockSize
      BY <1>1, <2>2, <3>1
    <3>3. Disk(g) = m * BlockSize
      BY <1>3, <2>1, <2>2, <3>2 DEF Disk
    <3>4. m = 0 => m * BlockSize = 0
      BY <1>1
    <3> QED
      BY <2>1, <3>2, <3>3, <3>4
  <2>3. CASE n % BlockSize # 0
    <3>1. n + BlockSize \in Nat
      BY <1>1
    <3>2. PICK m \in Nat : m = (n + BlockSize) \div BlockSize /\ n + BlockSize < (m + 1) * BlockSize
                           /\ m * BlockSize <= n + BlockSize
      BY <1>1, <3>1, Division
    <3>3. Disk(g) = m * BlockSize
      BY <1>3, <2>1, <2>3, <3>2 DEF Disk
    <3>4. n < m * BlockSize /\ m * BlockSize \in Nat
      BY <1>1, <3>2
    <3>5. m = 0 => m * BlockSize = 0
      BY <1>1
    <3> QED
      BY <2>1, <3>3, <3>4, <3>5
  <2> QED
    BY <2>2, <2>3
<1> QED
  BY <1>2, <1>3

\* The data of one write, c .. c + w - 1: what is erased for them, and what is
\* then erased behind them.
LEMMA WithinBlock ==
  ASSUME NEW c \in Nat, NEW w \in Nat \ {0}, ~ Crosses(c, w)
  PROVE  /\ c + w <= Through(c) /\ Through(c) \in Nat
         /\ (c + w) % BlockSize # 0 => Through(c + w) = Through(c)
         /\ (c + w) % BlockSize = 0 => Through(c + w) = c + w + BlockSize
<1>1. BlockSize \in Nat \ {0} /\ c + w \in Nat /\ c + w - 1 \in Nat
  BY Consts
<1>2. PICK q \in Nat : q = c \div BlockSize
  BY <1>1, Division
<1>3. q = (c + w - 1) \div BlockSize
  BY <1>2 DEF Crosses
<1>4. c + w - 1 < (q + 1) * BlockSize /\ q * BlockSize <= c + w - 1
  BY <1>1, <1>3, Division
<1>5. Through(c) = (q + 1) * BlockSize /\ (q + 1) * BlockSize \in Nat
  BY <1>1, <1>2 DEF Through
<1>6. PICK r \in Nat : r = (c + w) \div BlockSize /\ r * BlockSize <= c + w /\ c + w < (r + 1) * BlockSize
                       /\ c + w = r * BlockSize + ((c + w) % BlockSize)
  BY <1>1, Division
<1>7. Through(c + w) = (r + 1) * BlockSize
  BY <1>6 DEF Through
<1>8. CASE (c + w) % BlockSize = 0
  <2>1. c + w = r * BlockSize
    BY <1>1, <1>6, <1>8
  <2> QED
    BY <1>1, <1>4, <1>5, <1>7, <1>8, <2>1
<1>9. CASE (c + w) % BlockSize # 0
  <2>1. r * BlockSize < c + w
    BY <1>1, <1>6, <1>9, Division
  <2>2. r * BlockSize < (q + 1) * BlockSize /\ q * BlockSize < (r + 1) * BlockSize
    BY <1>1, <1>4, <1>6, <2>1
  <2>3. r < q + 1 /\ q < r + 1
    BY <1>1, <2>2, Order
  <2> QED
    BY <1>1, <1>4, <1>5, <1>7, <1>9, <2>3
<1> QED
  BY <1>8, <1>9

LEMMA AcrossBlocks ==
  ASSUME NEW c \in Nat, NEW w \in Nat \ {0}, Crosses(c, w)
  PROVE  \E p \in Nat, n \in Nat :
           /\ p = (c \div BlockSize + 1) * BlockSize /\ p = Through(c)
           /\ n = (LastBlock(c, w) - (c \div BlockSize + 1)) * BlockSize
           /\ c < p /\ p < c + w /\ c + w <= p + n
           /\ (c + w) % BlockSize # 0 => p + n = Through(c + w)
           /\ (c + w) % BlockSize = 0 => p + n = c + w /\ Through(c + w) = c + w + BlockSize
<1>1. BlockSize \in Nat \ {0} /\ c + w \in Nat /\ c + w - 1 \in Nat
  BY Consts
<1>2. PICK q \in Nat : q = c \div BlockSize /\ q * BlockSize <= c /\ c < (q + 1) * BlockSize
  BY <1>1, Division
<1>3. PICK z \in Nat : z = (c + w - 1) \div BlockSize /\ z * BlockSize <= c + w - 1
                       /\ c + w - 1 < (z + 1) * BlockSize
  BY <1>1, Division
<1>4. q # z
  BY <1>2, <1>3 DEF Crosses
<1>5. q < z
  <2>1. q * BlockSize < (z + 1) * BlockSize
    BY <1>1, <1>2, <1>3
  <2>2. q < z + 1
    BY <1>1, <2>1, Order
  <2> QED
    BY <1>4, <2>2
<1>6. (q + 1) * BlockSize <= z * BlockSize /\ (q + 1) * BlockSize \in Nat
  BY <1>1, <1>5, Order
<1>7. (q + 1) * BlockSize < c + w
  BY <1>1, <1>3, <1>6
<1>8. PICK r \in Nat : r = (c + w) \div BlockSize /\ r * BlockSize <= c + w /\ c + w < (r + 1) * BlockSize
                       /\ c + w = r * BlockSize + ((c + w) % BlockSize)
  BY <1>1, Division
<1>9. (q + 1) < r + 1
  <2>1. (q + 1) * BlockSize < (r + 1) * BlockSize
    BY <1>1, <1>7, <1>8
  <2> QED
    BY <1>1, <2>1, Order
<1>10. Through(c) = (q + 1) * BlockSize /\ Through(c + w) = (r + 1) * BlockSize
  BY <1>2, <1>8 DEF Through
<1>11. CASE (c + w) % BlockSize = 0
  <2>1. c + w = r * BlockSize
    BY <1>1, <1>8, <1>11
  <2>2. LastBlock(c, w) = r
    BY <1>8, <1>11 DEF LastBlock
  <2>3. PICK n \in Nat : n = (r - (q + 1)) * BlockSize /\ (q + 1) * BlockSize + n = r * BlockSize
    BY <1>1, <1>9
  <2>4. (r + 1) * BlockSize = c + w + BlockSize
    BY <1>1, <2>1
  <2> QED
    BY <1>1, <1>2, <1>6, <1>7, <1>10, <1>11, <2>1, <2>2, <2>3, <2>4
<1>12. CASE (c + w) % BlockSize # 0
  <2>1. LastBlock(c, w) = r + 1
    BY <1>8, <1>12 DEF LastBlock
  <2>2. PICK n \in Nat : n = (r + 1 - (q + 1)) * BlockSize /\ (q + 1) * BlockSize + n = (r + 1) * BlockSize
    BY <1>1, <1>9
  <2> QED
    BY <1>1, <1>2, <1>6, <1>7, <1>8, <1>10, <1>12, <2>1, <2>2
<1> QED
  BY <1>11, <1>12

\* A block that starts before the end of an image ends inside its disk size.
LEMMA NextBlockFits ==
  ASSUME NEW a \in Nat, NEW d \in Nat, NEW q \in Nat, d = q * BlockSize, a < d, a % BlockSize = 0
  PROVE  a + BlockSize <= d
<1>1. BlockSize \in Nat \ {0}
  BY Consts
<1>2. PICK r \in Nat : a = r * BlockSize
  <2>1. a \div BlockSize \in Nat /\ a = (a \div BlockSize) * BlockSize + (a % BlockSize)
    BY <1>1, Division
  <2>2. a = (a \div BlockSize) * BlockSize
    BY <1>1, <2>1
  <2> QED
    BY <2>1, <2>2
<1> QED
  BY <1>1, <1>2, Order

-----------------------------------------------------------------------------
(* Running sums.                                                           *)

\* A running sum exists for every sequence of naturals ...
LEMMA SumsExist ==
  ASSUME NEW w \in Seq(Nat)
  PROVE  \E g \in [0 .. Len(w) -> Nat] :
           g[0] = 0 /\ \A n \in 1 .. Len(w) : g[n] = g[n - 1] + w[n]
<1> DEFINE G(m) == \E g \in [0 .. m -> Nat] :
                     g[0] = 0 /\ \A n \in 1 .. m : g[n] = g[n - 1] + w[n]
           B == {m \in 0 .. Len(w) : ~ G(m)}
<1>1. Len(w) \in Nat /\ \A n \in 1 .. Len(w) : w[n] \in Nat
  OBVIOUS
<1>2. G(0)
  <2>1. PICK g : g = [n \in 0 .. 0 |-> 0]
    OBVIOUS
  <2>2. g \in [0 .. 0 -> Nat] /\ g[0] = 0 /\ \A n \in 1 .. 0 : g[n] = g[n - 1] + w[n]
    BY <2>1
  <2> QED
    BY <2>2
<1>3. ASSUME NEW m \in 0 .. Len(w) - 1, G(m) PROVE G(m + 1)
  <2>1. PICK g \in [0 .. m -> Nat] : g[0] = 0 /\ \A n \in 1 .. m : g[n] = g[n - 1] + w[n]
    BY <1>3
  <2> DEFINE h == [n \in 0 .. m + 1 |-> IF n = m + 1 THEN g[m] + w[m + 1] ELSE g[n]]
  <2>2. m + 1 \in 1 .. Len(w) /\ m \in 0 .. m /\ g[m] + w[m + 1] \in Nat
    BY <1>1
  <2>3. h \in [0 .. m + 1 -> Nat]
    BY <2>2
  <2>4. h[0] = 0 /\ h[m + 1] = h[m] + w[m + 1]
    BY <2>1, <2>2
  <2>5. \A n \in 1 .. m : h[n] = h[n - 1] + w[n]
    BY <2>1
  <2>6. \A n \in 1 .. m + 1 : n = m + 1 \/ n \in 1 .. m
    OBVIOUS
  <2>7. \A n \in 1 .. m + 1 : h[n] = h[n - 1] + w[n]
    <3>1. (m + 1) - 1 = m
      OBVIOUS
    <3> HIDE DEF h
    <3> QED
      BY <2>4, <2>5, <2>6, <3>1, Zenon
  <2> HIDE DEF h
  <2> QED
    BY <2>3, <2>4, <2>7
<1>4. B = {}
  <2> HIDE DEF G
  <2>1. SUFFICES ASSUME B # {} PROVE FALSE
    OBVIOUS
  <2>2. PICK m \in B : \A y \in B : m <= y
    <3>1. B \in SUBSET Nat
      BY <1>1
    <3> HIDE DEF B
    <3> QED
      BY <2>1, <3>1, Least
  <2>3. m # 0 /\ m \in 0 .. Len(w) /\ ~ G(m)
    BY <1>2, <2>2
  <2>4. m - 1 \in 0 .. Len(w) - 1 /\ m - 1 \notin B
    BY <1>1, <2>2, <2>3
  <2>5. G(m - 1)
    BY <1>1, <2>4
  <2>6. G((m - 1) + 1)
    BY <1>3, <2>4, <2>5
  <2> QED
    BY <1>1, <2>3, <2>6
<1>5. G(Len(w))
  <2> HIDE DEF G
  <2> QED
    BY <1>1, <1>4
<1> QED
  BY <1>5

\* ... and is what Sums computes.
LEMMA SumsIs ==
  ASSUME NEW w \in Seq(Nat)
  PROVE  /\ Sums(w) \in [0 .. Len(w) -> Nat] /\ Sums(w)[0] = 0
         /\ \A n \in 1 .. Len(w) : Sums(w)[n] = Sums(w)[n - 1] + w[n]
<1> DEFINE P(h) == h = [n \in 0 .. Len(w) |-> IF n = 0 THEN 0 ELSE h[n - 1] + w[n]]
<1>1. PICK g \in [0 .. Len(w) -> Nat] :
           g[0] = 0 /\ \A n \in 1 .. Len(w) : g[n] = g[n - 1] + w[n]
  BY SumsExist
<1>2. Len(w) \in Nat
  OBVIOUS
<1>3. P(g)
  BY <1>1, <1>2
<1>4. Sums(w) = CHOOSE h : P(h)
  BY DEF Sums
<1>5. P(Sums(w))
  BY <1>3, <1>4, Zenon
<1>6. PICK h : h = Sums(w) /\ P(h)
  BY <1>5
<1> HIDE DEF P
<1>7. /\ h[0] = 0 /\ \A n \in 1 .. Len(w) : h[n] = h[n - 1] + w[n]
      /\ h = [n \in 0 .. Len(w) |-> h[n]]
  BY <1>2, <1>6 DEF P
<1> DEFINE B == {n \in 0 .. Len(w) : h[n] \notin Nat}
<1>8. B = {}
  <2>1. SUFFICES ASSUME B # {} PROVE FALSE
    OBVIOUS
  <2>2. PICK m \in B : \A y \in B : m <= y
    <3>1. B \in SUBSET Nat
      BY <1>2
    <3> HIDE DEF B
    <3> QED
      BY <2>1, <3>1, Least
  <2>3. m # 0 /\ m \in 0 .. Len(w) /\ h[m] \notin Nat
    BY <1>7, <2>2
  <2>4. m - 1 \in 0 .. Len(w) /\ m - 1 \notin B /\ m \in 1 .. Len(w)
    BY <1>2, <2>2, <2>3
  <2>5. h[m - 1] \in Nat /\ w[m] \in Nat
    BY <2>4
  <2>6. h[m] = h[m - 1] + w[m]
    BY <1>7, <2>4
  <2> QED
    BY <2>3, <2>5, <2>6
<1>9. h \in [0 .. Len(w) -> Nat]
  BY <1>7, <1>8
<1> QED
  BY <1>6, <1>7, <1>9

\* A sum never falls, and rises by no less than one of its terms.
LEMMA SumsUp ==
  ASSUME NEW w \in Seq(Nat), NEW a \in 0 .. Len(w), NEW b \in 0 .. Len(w), a <= b
  PROVE  Sums(w)[a] <= Sums(w)[b]
<1>1. Len(w) \in Nat /\ Sums(w) \in [0 .. Len(w) -> Nat]
  BY SumsIs
<1>2. PICK g \in [0 .. Len(w) -> Nat] : g = Sums(w)
  BY <1>1
<1> DEFINE B == {n \in a .. Len(w) : ~ (g[a] <= g[n])}
<1>3. B = {}
  <2>1. SUFFICES ASSUME B # {} PROVE FALSE
    OBVIOUS
  <2>2. PICK m \in B : \A y \in B : m <= y
    <3>1. B \in SUBSET Nat
      BY <1>1
    <3> HIDE DEF B
    <3> QED
      BY <2>1, <3>1, Least
  <2>3. m # a /\ m \in a .. Len(w) /\ ~ (g[a] <= g[m])
    BY <1>1, <2>2
  <2>4. m - 1 \in a .. Len(w) /\ m - 1 \notin B /\ m \in 1 .. Len(w)
    BY <1>1, <2>2, <2>3
  <2>5. g[m] = g[m - 1] + w[m]
    BY <1>2, <2>4, SumsIs
  <2>6. m - 1 \in 0 .. Len(w) /\ a \in 0 .. Len(w)
    BY <1>1, <2>4
  <2>7. w[m] \in Nat
    BY <2>4
  <2>8. g[m - 1] \in Nat /\ g[a] \in Nat
    BY <2>6
  <2>9. g[a] <= g[m - 1]
    BY <2>4
  <2> QED
    BY <2>3, <2>5, <2>7, <2>8, <2>9
<1> QED
  BY <1>1, <1>2, <1>3

\* Terms that are zero add nothing.
LEMMA SumsFlat ==
  ASSUME NEW w \in Seq(Nat), NEW a \in 0 .. Len(w), NEW b \in 0 .. Len(w), a <= b,
         \A n \in a + 1 .. b : w[n] = 0
  PROVE  Sums(w)[a] = Sums(w)[b]
<1>1. Len(w) \in Nat /\ Sums(w) \in [0 .. Len(w) -> Nat]
  BY SumsIs
<1>2. PICK g \in [0 .. Len(w) -> Nat] : g = Sums(w)
  BY <1>1
<1> DEFINE B == {n \in a .. b : g[a] # g[n]}
<1>3. B = {}
  <2>1. SUFFICES ASSUME B # {} PROVE FALSE
    OBVIOUS
  <2>2. PICK m \in B : \A y \in B : m <= y
    <3>1. B \in SUBSET Nat
      BY <1>1
    <3> HIDE DEF B
    <3> QED
      BY <2>1, <3>1, Least
  <2>3. m # a /\ m \in a .. b /\ g[a] # g[m]
    BY <1>1, <2>2
  <2>4. m - 1 \in a .. b /\ m - 1 \notin B /\ m \in 1 .. Len(w) /\ m \in a + 1 .. b
    BY <1>1, <2>2, <2>3
  <2>5. g[m] = g[m - 1] + w[m] /\ w[m] = 0 /\ g[m - 1] \in Nat
    BY <1>1, <1>2, <2>4, SumsIs
  <2> QED
    BY <2>3, <2>4, <2>5
<1> QED
  BY <1>1, <1>2, <1>3

\* Sums add up.
LEMMA SumsSplit ==
  ASSUME NEW w \in Seq(Nat), NEW v \in Seq(Nat), NEW x \in Seq(Nat), Len(v) = Len(w), Len(x) = Len(w),
         \A n \in 1 .. Len(w) : w[n] = v[n] + x[n]
  PROVE  Sums(w)[Len(w)] = Sums(v)[Len(w)] + Sums(x)[Len(w)]
<1>1. Len(w) \in Nat
  OBVIOUS
<1>2. PICK g \in [0 .. Len(w) -> Nat] :
        g = Sums(w) /\ g[0] = 0 /\ \A n \in 1 .. Len(w) : g[n] = g[n - 1] + w[n]
  BY SumsIs
<1>3. PICK h \in [0 .. Len(w) -> Nat] :
        h = Sums(v) /\ h[0] = 0 /\ \A n \in 1 .. Len(w) : h[n] = h[n - 1] + v[n]
  BY SumsIs
<1>4. PICK l \in [0 .. Len(w) -> Nat] :
        l = Sums(x) /\ l[0] = 0 /\ \A n \in 1 .. Len(w) : l[n] = l[n - 1] + x[n]
  BY SumsIs
<1> DEFINE B == {n \in 0 .. Len(w) : g[n] # h[n] + l[n]}
<1>5. B = {}
  <2>1. SUFFICES ASSUME B # {} PROVE FALSE
    OBVIOUS
  <2>2. PICK m \in B : \A y \in B : m <= y
    <3>1. B \in SUBSET Nat
      BY <1>1
    <3> HIDE DEF B
    <3> QED
      BY <2>1, <3>1, Least
  <2>3. m # 0 /\ m \in 0 .. Len(w) /\ g[m] # h[m] + l[m]
    BY <1>2, <1>3, <1>4, <2>2
  <2>4. m - 1 \in 0 .. Len(w) /\ m - 1 \notin B /\ m \in 1 .. Len(w)
    BY <1>1, <2>2, <2>3
  <2>5. g[m - 1] = h[m - 1] + l[m - 1]
    BY <2>4
  <2>6. /\ g[m] = g[m - 1] + w[m] /\ h[m] = h[m - 1] + v[m] /\ l[m] = l[m - 1] + x[m]
        /\ w[m] = v[m] + x[m]
    BY <1>2, <1>3, <1>4, <2>4
  <2>7. v[m] \in Nat /\ x[m] \in Nat
    <3>1. m \in 1 .. Len(v) /\ m \in 1 .. Len(x)
      BY <2>4
    <3> QED
      BY <3>1
  <2>8. h[m - 1] \in Nat /\ l[m - 1] \in Nat
    BY <2>4
  <2>9. (h[m - 1] + l[m - 1]) + (v[m] + x[m]) = (h[m - 1] + v[m]) + (l[m - 1] + x[m])
    <3>1. PICK i \in Nat : i = h[m - 1]
      BY <2>8
    <3>2. PICK j \in Nat : j = l[m - 1]
      BY <2>8
    <3>3. PICK k \in Nat : k = v[m]
      BY <2>7
    <3>4. PICK n \in Nat : n = x[m]
      BY <2>7
    <3>5. (i + j) + (k + n) = (i + k) + (j + n)
      BY AddUp
    <3> QED
      BY <3>1, <3>2, <3>3, <3>4, <3>5, Zenon
  <2>10. g[m] = h[m] + l[m]
    BY <2>5, <2>6, <2>9
  <2> QED
    BY <2>3, <2>10
<1>6. Len(w) \in 0 .. Len(w) /\ Len(w) \notin B
  BY <1>1, <1>5
<1>7. g[Len(w)] = h[Len(w)] + l[Len(w)]
  BY <1>6
<1> QED
  BY <1>2, <1>3, <1>4, <1>7

\* A package, its images, and their entries' sizes.
Image == [id : Programs \cup {"fs1", "sbl"}, ver : Nat, len : Nat, disk : Nat \ {0}]
LEMMA PackageIs ==
  ASSUME NEW p \in Packages
  PROVE  /\ p.fmt \in {"all", "part"} /\ p.images \in Seq(Image)
         /\ Len(p.images) \in Nat \ {0} /\ DOMAIN p.images = 1 .. Len(p.images)
         /\ \A k \in DOMAIN p.images : p.images[k] \in Image /\ p.images[k].len <= p.images[k].disk
         /\ \A j, k \in DOMAIN p.images : j # k => p.images[j].id # p.images[k].id
         /\ (\E k \in DOMAIN p.images : p.images[k].id = "fs1") <=> ~ NoFs
<1>1. /\ p.fmt \in {"all", "part"} /\ p.images # <<>> /\ p.images \in Seq(Image)
      /\ \A k \in DOMAIN p.images : p.images[k].len <= p.images[k].disk
      /\ \A j, k \in DOMAIN p.images : j # k => p.images[j].id # p.images[k].id
      /\ (\E k \in DOMAIN p.images : p.images[k].id = "fs1") <=> ~ NoFs
  BY PackageAssumption DEF Image
<1>2. PICK q \in Seq(Image) : q = p.images /\ q # <<>>
  BY <1>1
<1>3. Len(q) \in Nat \ {0} /\ DOMAIN q = 1 .. Len(q) /\ \A k \in DOMAIN q : q[k] \in Image
  BY <1>2
<1> QED
  BY <1>1, <1>2, <1>3

LEMMA ImageIs ==
  ASSUME NEW p \in Packages, NEW k \in DOMAIN p.images
  PROVE  /\ p.images[k] \in Image /\ p.images[k].len <= p.images[k].disk
         /\ Disk(p.images[k]) \in Nat /\ p.images[k].len <= Disk(p.images[k])
         /\ p.images[k].id # "sbl" =>
              \E q \in Nat : q > 0 /\ Disk(p.images[k]) = q * BlockSize
<1>1. PICK g \in Image : g = p.images[k] /\ g.len <= g.disk
  BY PackageIs
<1>2. g.disk \in Nat \ {0} /\ g.len \in Nat
  BY DEF Image
<1> QED
  BY <1>1, <1>2, DiskIs

LEMMA SizesIs ==
  ASSUME NEW p \in Packages, NEW D
  PROVE  /\ Sizes(p, D) \in Seq(Nat) /\ Len(Sizes(p, D)) = Len(p.images)
         /\ \A k \in DOMAIN p.images :
              Sizes(p, D)[k] = IF k \in D /\ InArea(p.images[k]) THEN Disk(p.images[k]) ELSE 0
<1>1. PICK n \in Nat : n = Len(p.images) /\ DOMAIN p.images = 1 .. n
  BY PackageIs
<1>2. \A k \in 1 .. n : (IF k \in D /\ InArea(p.images[k]) THEN Disk(p.images[k]) ELSE 0) \in Nat
  BY <1>1, ImageIs
<1>3. Sizes(p, D) = [k \in 1 .. n |-> IF k \in D /\ InArea(p.images[k]) THEN Disk(p.images[k]) ELSE 0]
  BY <1>1 DEF Sizes
<1> DEFINE w == [k \in 1 .. n |-> IF k \in D /\ InArea(p.images[k]) THEN Disk(p.images[k]) ELSE 0]
<1>4. w \in [1 .. n -> Nat]
  BY <1>2
<1>5. w \in Seq(Nat) /\ Len(w) = n
  <2> HIDE DEF w
  <2> QED
    BY <1>4
<1> QED
  BY <1>1, <1>3, <1>5

\* The sum of the sizes of the images in D: it starts at 0, grows by the image
\* that is next, and is the whole with the sum of the images outside D.
LEMMA NeedIs ==
  ASSUME NEW p \in Packages, NEW D
  PROVE  /\ NeedOf(p, D) \in [0 .. Len(p.images) -> Nat] /\ NeedOf(p, D)[0] = 0
         /\ \A n \in 1 .. Len(p.images) :
              NeedOf(p, D)[n] = NeedOf(p, D)[n - 1]
                + (IF n \in D /\ InArea(p.images[n]) THEN Disk(p.images[n]) ELSE 0)
         /\ \A a, b \in 0 .. Len(p.images) : a <= b => NeedOf(p, D)[a] <= NeedOf(p, D)[b]
         /\ \A a, b \in 0 .. Len(p.images) :
              a <= b /\ (\A n \in a + 1 .. b : n \notin D) => NeedOf(p, D)[a] = NeedOf(p, D)[b]
<1>1. PICK w \in Seq(Nat) : w = Sizes(p, D) /\ Len(w) = Len(p.images)
                            /\ \A k \in 1 .. Len(p.images) : w[k] = IF k \in D /\ InArea(p.images[k])
                                                            THEN Disk(p.images[k]) ELSE 0
  BY SizesIs, PackageIs
<1>2. NeedOf(p, D) = Sums(w)
  BY <1>1 DEF NeedOf
<1>3. /\ Sums(w) \in [0 .. Len(p.images) -> Nat] /\ Sums(w)[0] = 0
      /\ \A n \in 1 .. Len(p.images) : Sums(w)[n] = Sums(w)[n - 1] + w[n]
  BY <1>1, SumsIs
<1>4. \A a, b \in 0 .. Len(p.images) : a <= b => Sums(w)[a] <= Sums(w)[b]
  BY <1>1, SumsUp
<1>5. ASSUME NEW a \in 0 .. Len(p.images), NEW b \in 0 .. Len(p.images), a <= b,
             \A n \in a + 1 .. b : n \notin D
      PROVE  Sums(w)[a] = Sums(w)[b]
  <2>1. \A n \in a + 1 .. b : w[n] = 0
    <3>1. PICK l \in Nat : l = Len(p.images) /\ DOMAIN p.images = 1 .. l
      BY PackageIs
    <3>2. \A n \in a + 1 .. b : n \in 1 .. l
      BY <3>1
    <3> QED
      BY <1>1, <1>5, <3>1, <3>2
  <2> QED
    BY <1>1, <1>5, <2>1, SumsFlat
<1> QED
  BY <1>1, <1>2, <1>3, <1>4, <1>5

LEMMA NeedSplit ==
  ASSUME NEW p \in Packages, NEW D \in SUBSET (DOMAIN p.images)
  PROVE  NeedOf(p, DOMAIN p.images)[Len(p.images)]
           = NeedOf(p, D)[Len(p.images)] + NeedOf(p, DOMAIN p.images \ D)[Len(p.images)]
<1>1. PICK n \in Nat : n = Len(p.images) /\ DOMAIN p.images = 1 .. n
  BY PackageIs
<1>2. PICK w \in Seq(Nat) : w = Sizes(p, DOMAIN p.images) /\ Len(w) = n
  BY <1>1, SizesIs
<1>3. PICK v \in Seq(Nat) : v = Sizes(p, D) /\ Len(v) = n
  BY <1>1, SizesIs
<1>4. PICK x \in Seq(Nat) : x = Sizes(p, DOMAIN p.images \ D) /\ Len(x) = n
  BY <1>1, SizesIs
<1>5. \A k \in 1 .. n : w[k] = v[k] + x[k]
  <2>1. SUFFICES ASSUME NEW k \in 1 .. n PROVE w[k] = v[k] + x[k]
    OBVIOUS
  <2>2. k \in DOMAIN p.images /\ Disk(p.images[k]) \in Nat
    BY <1>1, ImageIs
  <2>3. /\ w[k] = IF InArea(p.images[k]) THEN Disk(p.images[k]) ELSE 0
        /\ v[k] = IF k \in D /\ InArea(p.images[k]) THEN Disk(p.images[k]) ELSE 0
        /\ x[k] = IF k \notin D /\ InArea(p.images[k]) THEN Disk(p.images[k]) ELSE 0
    BY <1>2, <1>3, <1>4, <2>2, SizesIs
  <2> QED
    BY <2>2, <2>3
<1>6. Sums(w)[n] = Sums(v)[n] + Sums(x)[n]
  <2>1. Len(v) = Len(w) /\ Len(x) = Len(w) /\ \A k \in 1 .. Len(w) : w[k] = v[k] + x[k]
    BY <1>2, <1>3, <1>4, <1>5
  <2>2. Sums(w)[Len(w)] = Sums(v)[Len(w)] + Sums(x)[Len(w)]
    BY <2>1, SumsSplit
  <2> QED
    BY <1>2, <2>2
<1> QED
  BY <1>1, <1>2, <1>3, <1>4, <1>6 DEF NeedOf

\* The sizes of a package add up in 32 bits.
LEMMA NeedBound ==
  ASSUME NEW p \in Packages
  PROVE  NeedOf(p, DOMAIN p.images)[Len(p.images)] < Word
<1>1. Sizes(p, DOMAIN p.images)
        = [k \in DOMAIN p.images |-> IF InArea(p.images[k]) THEN Disk(p.images[k]) ELSE 0]
  BY DEF Sizes
<1> QED
  BY <1>1, PackageAssumption DEF NeedOf

-----------------------------------------------------------------------------
(* The layout.                                                             *)

LEMMA IdKinds ==
  /\ Ids = Programs \cup Commons \cup {"sbl"} /\ Commons = {"fs1", "fs2", "ram", "usr"}
  /\ Programs = {"app", "bdf"}
  /\ \A id \in Commons : Swap(id) \in Commons /\ Swap(Swap(id)) = id
BY DEF Ids, Programs, Commons, Swap

LEMMA EntryIs ==
  ASSUME NEW e \in ImageEntry
  PROVE  /\ e.id \in Ids /\ e.start \in Nat /\ e.size \in Nat /\ e.len \in Nat /\ e.ver \in Nat
         /\ End(e) \in Nat /\ e.start <= End(e)
BY DEF ImageEntry, End

LEMMA FactoryIs ==
  ASSUME NEW f \in Factories
  PROVE  /\ f \in Seq(ImageEntry) /\ \A k \in DOMAIN f : f[k] \in ImageEntry
         /\ \A k \in DOMAIN f : f[k].id # "sbl" =>
              /\ f[k].start >= 3 * BlockSize /\ f[k].len <= f[k].size /\ End(f[k]) <= FlashSize
              /\ FwdSupportNum = 2 => End(f[k]) <= Base(f) + 2 * Half(Base(f))
         /\ \A j, k \in DOMAIN f : j # k =>
              f[j].id # f[k].id /\ (f[j].id # "sbl" /\ f[k].id # "sbl" => Apart(f[j], f[k]))
         /\ \E k \in DOMAIN f : f[k].id \in Programs
         /\ \A id \in {"fs1", "fs2"} : Has(f, id) <=> ~ NoFs
BY FactoryAssumption DEF Has

\* The common areas and, with a golden set, its programs end at the base.
LEMMA BaseIs ==
  ASSUME NEW f \in Factories
  PROVE  /\ Base(f) \in Nat /\ 3 * BlockSize <= Base(f) /\ Base(f) <= FlashSize
         /\ \A k \in DOMAIN f : f[k].id \in Commons => End(f[k]) <= Base(f)
         /\ FwdSupportNum = 3 => \A k \in DOMAIN f : f[k].id # "sbl" => End(f[k]) <= Base(f)
         /\ \/ Base(f) = 3 * BlockSize
            \/ \E k \in DOMAIN f : /\ f[k].id # "sbl" /\ Base(f) = End(f[k])
                                   /\ FwdSupportNum = 2 => f[k].id \in Commons
<1> DEFINE J == {j \in DOMAIN f : IF FwdSupportNum = 2 THEN f[j].id \in Commons ELSE f[j].id # "sbl"}
           T == {End(f[k]) : k \in J} \cup {3 * BlockSize}
<1>1. \A k \in DOMAIN f : End(f[k]) \in Nat /\ f[k].start \in Nat /\ f[k].start <= End(f[k])
  BY FactoryIs, EntryIs
<1>2. 3 * BlockSize \in Nat /\ FlashSize \in Nat /\ FwdSupportNum \in {2, 3}
  BY Consts
<1>3. 3 * BlockSize <= FlashSize
  <2>1. PICK k \in DOMAIN f : f[k].id \in Programs
    BY FactoryIs
  <2>2. f[k].start >= 3 * BlockSize /\ End(f[k]) <= FlashSize
    BY <2>1, FactoryIs, IdKinds
  <2> QED
    BY <1>1, <1>2, <2>2
<1>4. \A k \in J : End(f[k]) <= FlashSize
  BY FactoryIs, IdKinds
<1>5. T \in SUBSET Nat /\ T # {} /\ \A x \in T : x <= FlashSize
  BY <1>1, <1>2, <1>3, <1>4
<1>6. Base(f) = Max(T)
  BY DEF Base
<1>7. Max(T) \in T /\ \A y \in T : y <= Max(T)
  <2> HIDE DEF T
  <2> QED
    BY <1>2, <1>5, MaxIs
<1>8. Base(f) \in T /\ \A y \in T : y <= Base(f)
  BY <1>6, <1>7
<1>9. Base(f) \in Nat /\ Base(f) <= FlashSize /\ 3 * BlockSize <= Base(f)
  BY <1>5, <1>8
<1>10. \A k \in J : End(f[k]) <= Base(f)
  BY <1>8
<1>11. \/ Base(f) = 3 * BlockSize
       \/ \E k \in J : Base(f) = End(f[k])
  BY <1>8
<1>12. \A k \in J : f[k].id # "sbl" /\ (FwdSupportNum = 2 => f[k].id \in Commons) /\ k \in DOMAIN f
  BY IdKinds
<1>13. \A k \in DOMAIN f : f[k].id \in Commons => k \in J
  BY IdKinds
<1>14. FwdSupportNum = 3 => \A k \in DOMAIN f : f[k].id # "sbl" => k \in J
  OBVIOUS
<1> HIDE DEF J, T
<1> QED
  BY <1>9, <1>10, <1>11, <1>12, <1>13, <1>14

\* The two areas follow each other behind the base, inside the flash.
LEMMA Areas ==
  ASSUME NEW f \in Factories, NEW t \in ScanSectors
  PROVE  /\ Base(f) \in Nat /\ Half(Base(f)) \in Nat /\ Base(f) + 2 * Half(Base(f)) <= FlashSize
         /\ Lo(f, t) \in Nat /\ Hi(f, t) \in Nat /\ Base(f) <= Lo(f, t) /\ Hi(f, t) <= FlashSize
         /\ Hi(f, t) = Lo(f, t) + Half(Base(f)) /\ t \in Sector
         /\ FwdSupportNum = 2 => /\ Lo(f, 0) = Base(f) /\ Hi(f, 0) = Base(f) + Half(Base(f))
                                 /\ Lo(f, 1) = Hi(f, 0) /\ Hi(f, 1) = Base(f) + 2 * Half(Base(f))
                                 /\ t \in {0, 1}
         /\ FwdSupportNum = 3 => /\ Lo(f, 1) = Base(f) /\ Hi(f, 1) = Base(f) + Half(Base(f))
                                 /\ Lo(f, 2) = Hi(f, 1) /\ Hi(f, 2) = Base(f) + 2 * Half(Base(f))
                                 /\ t \in {1, 2}
<1>1. PICK b \in Nat : b = Base(f) /\ b <= FlashSize
  BY BaseIs
<1>2. PICK h \in Nat : h = Half(b) /\ b + 2 * h <= FlashSize
  BY <1>1, HalfIs
<1>3. FwdSupportNum \in {2, 3} /\ FlashSize \in Nat /\ Sector = {0, 1, 2}
  BY Consts
<1>4. CASE FwdSupportNum = 2
  <2>1. t \in {0, 1}
    BY <1>4 DEF ScanSectors
  <2>2. \A i \in {0, 1} : Lo(f, i) = b + i * h /\ Hi(f, i) = b + i * h + h
    BY <1>1, <1>2, <1>4 DEF Lo, Hi
  <2> QED
    BY <1>1, <1>2, <1>3, <1>4, <2>1, <2>2
<1>5. CASE FwdSupportNum = 3
  <2>1. t \in {1, 2}
    BY <1>5 DEF ScanSectors
  <2>2. \A i \in {1, 2} : Lo(f, i) = b + (i - 1) * h /\ Hi(f, i) = b + (i - 1) * h + h
    BY <1>1, <1>2, <1>5 DEF Lo, Hi
  <2> QED
    BY <1>1, <1>2, <1>3, <1>5, <2>1, <2>2
<1> QED
  BY <1>3, <1>4, <1>5

LEMMA PlaceIs ==
  ASSUME NEW f \in Factories, NEW id, Has(f, id)
  PROVE  \E k \in DOMAIN f : f[k].id = id /\ Place(f, id) = f[k]
BY DEF Has, Place

\* The place of a data area: below the base, behind the descriptors, and apart
\* from the other places.
LEMMA PlacesApart ==
  ASSUME NEW f \in Factories, NEW id \in Commons, Has(f, id)
  PROVE  /\ Place(f, id) \in ImageEntry
         /\ Place(f, id).start >= 3 * BlockSize /\ End(Place(f, id)) <= Base(f)
         /\ \A i2 \in Commons : i2 # id /\ Has(f, i2) => Apart(Place(f, id), Place(f, i2))
<1>1. PICK k \in DOMAIN f : f[k].id = id /\ Place(f, id) = f[k]
  BY PlaceIs
<1>2. id # "sbl"
  BY IdKinds
<1>3. f[k] \in ImageEntry /\ f[k].start >= 3 * BlockSize /\ End(f[k]) <= Base(f)
  BY <1>1, <1>2, FactoryIs, BaseIs
<1>4. ASSUME NEW i2 \in Commons, i2 # id, Has(f, i2) PROVE Apart(Place(f, id), Place(f, i2))
  <2>1. PICK j \in DOMAIN f : f[j].id = i2 /\ Place(f, i2) = f[j]
    BY <1>4, PlaceIs
  <2>2. j # k /\ i2 # "sbl"
    BY <1>1, <1>4, <2>1, IdKinds
  <2>3. Apart(f[k], f[j])
    BY <1>1, <1>2, <2>1, <2>2, FactoryIs
  <2> QED
    BY <1>1, <2>1, <2>3
<1> QED
  BY <1>1, <1>3, <1>4

LEMMA FirstIs ==
  ASSUME NEW q \in Seq(ImageEntry), NEW id, Has(q, id)
  PROVE  /\ First(q, id) \in ImageEntry /\ First(q, id).id = id
         /\ \E k \in DOMAIN q : First(q, id) = q[k]
<1> DEFINE T == {k \in DOMAIN q : q[k].id = id}
<1>1. T \in SUBSET Nat /\ T # {}
  BY DEF Has
<1>2. Min(T) \in T
  <2> HIDE DEF T
  <2> QED
    BY <1>1, MinIs
<1>3. PICK k \in DOMAIN q : k = Min(T) /\ q[k].id = id
  BY <1>2
<1>4. First(q, id) = q[k]
  BY <1>3 DEF First
<1>5. q[k] \in ImageEntry
  OBVIOUS
<1> QED
  BY <1>3, <1>4, <1>5

LEMMA SamePlace ==
  ASSUME NEW d, NEW e, AtPlace(d, e)
  PROVE  /\ d.start = e.start /\ d.size = e.size /\ End(d) = End(e)
         /\ \A c : (Apart(c, d) <=> Apart(c, e)) /\ (Apart(d, c) <=> Apart(e, c))
BY DEF AtPlace, End, Apart

\* The data areas of a set: each entry of one is at its place, or at that of
\* its twin.
LEMMA SetPlaces ==
  ASSUME NEW f \in Factories, NEW i, NEW q \in Seq(ImageEntry), SetOf(f, i, q)
  PROVE  \E x \in BOOLEAN :
           \A id \in Commons : Has(q, id) =>
             /\ Turn(x, id) \in Commons /\ Has(f, Turn(x, id))
             /\ AtPlace(First(q, id), Place(f, Turn(x, id)))
             /\ \A k \in DOMAIN q : q[k].id = id => AtPlace(q[k], Place(f, Turn(x, id)))
<1>1. PICK x \in BOOLEAN : Turned(f, q, x)
  BY DEF SetOf
<1>2. SUFFICES ASSUME NEW id \in Commons, Has(q, id)
               PROVE  /\ Turn(x, id) \in Commons /\ Has(f, Turn(x, id))
                      /\ AtPlace(First(q, id), Place(f, Turn(x, id)))
                      /\ \A k \in DOMAIN q : q[k].id = id => AtPlace(q[k], Place(f, Turn(x, id)))
  OBVIOUS
<1>3. Has(f, id)
  BY <1>2 DEF SetOf
<1>4. Turn(x, id) \in Commons
  BY IdKinds DEF Turn
<1>5. Has(f, Turn(x, id))
  <2>1. CASE id \in {"fs1", "fs2"}
    <3>1. Turn(x, id) \in {"fs1", "fs2"}
      BY <2>1 DEF Turn, Swap
    <3> QED
      BY <1>3, <2>1, <3>1, FactoryIs
  <2>2. CASE id \notin {"fs1", "fs2"}
    <3>1. Turn(x, id) = id
      BY <2>2 DEF Turn, Swap
    <3> QED
      BY <1>3, <3>1
  <2> QED
    BY <2>1, <2>2
<1>6. \A k \in DOMAIN q : q[k].id = id => AtPlace(q[k], Place(f, Turn(x, id)))
  BY <1>1 DEF Turned
<1>7. AtPlace(First(q, id), Place(f, Turn(x, id)))
  BY <1>2, <1>6, FirstIs
<1> QED
  BY <1>4, <1>5, <1>6, <1>7

LEMMA CommonAreas ==
  ASSUME NEW f \in Factories, NEW i, NEW q \in Seq(ImageEntry), SetOf(f, i, q),
         NEW id \in Commons, Has(q, id)
  PROVE  /\ First(q, id) \in ImageEntry /\ First(q, id).id = id
         /\ First(q, id).start >= 3 * BlockSize /\ End(First(q, id)) <= Base(f)
         /\ \A k \in DOMAIN q : q[k].id = id => AtPlace(q[k], First(q, id))
         /\ \A i2 \in Commons : i2 # id /\ Has(q, i2) => Apart(First(q, id), First(q, i2))
         /\ \E j \in DOMAIN f : f[j].id \in Commons /\ AtPlace(First(q, id), f[j])
<1>1. PICK x \in BOOLEAN :
           \A i1 \in Commons : Has(q, i1) =>
             /\ Turn(x, i1) \in Commons /\ Has(f, Turn(x, i1))
             /\ AtPlace(First(q, i1), Place(f, Turn(x, i1)))
             /\ \A k \in DOMAIN q : q[k].id = i1 => AtPlace(q[k], Place(f, Turn(x, i1)))
  BY SetPlaces
<1>2. PICK a : a = Turn(x, id) /\ a \in Commons /\ Has(f, a) /\ AtPlace(First(q, id), Place(f, a))
  BY <1>1
<1>3. First(q, id) \in ImageEntry /\ First(q, id).id = id
  BY FirstIs
<1>4. First(q, id).start >= 3 * BlockSize /\ End(First(q, id)) <= Base(f)
  BY <1>2, PlacesApart, SamePlace
<1>5. \A k \in DOMAIN q : q[k].id = id => AtPlace(q[k], First(q, id))
  BY <1>1, <1>2 DEF AtPlace
<1>6. ASSUME NEW i2 \in Commons, i2 # id, Has(q, i2) PROVE Apart(First(q, id), First(q, i2))
  <2>1. PICK b : b = Turn(x, i2) /\ b \in Commons /\ Has(f, b) /\ AtPlace(First(q, i2), Place(f, b))
    BY <1>1, <1>6
  <2>2. a # b
    <3>1. \A y \in Commons : Turn(x, Turn(x, y)) = y
      BY IdKinds DEF Turn
    <3> QED
      BY <1>2, <1>6, <2>1, <3>1
  <2>3. Apart(Place(f, a), Place(f, b))
    BY <1>2, <2>1, <2>2, PlacesApart
  <2> QED
    BY <1>2, <2>1, <2>3, SamePlace
<1>7. \E j \in DOMAIN f : f[j].id \in Commons /\ AtPlace(First(q, id), f[j])
  BY <1>2, PlaceIs
<1> QED
  BY <1>3, <1>4, <1>5, <1>6, <1>7

\* The programs of a set are inside the flash and apart from the data areas of
\* every set.
LEMMA ProgramsApart ==
  ASSUME NEW f \in Factories, NEW i \in Sector, NEW q \in Seq(ImageEntry), SetOf(f, i, q),
         NEW k \in DOMAIN q, q[k].id \in Programs, FwdSupportNum = 2 => i # 2
  PROVE  /\ q[k] \in ImageEntry /\ End(q[k]) <= FlashSize /\ q[k].len <= q[k].size
         /\ \A j, r, id : r \in Seq(ImageEntry) /\ SetOf(f, j, r) /\ id \in Commons /\ Has(r, id) =>
              Apart(q[k], First(r, id))
<1>1. Inside(f, i, q[k])
  BY DEF SetOf
<1>2. q[k] \in ImageEntry
  OBVIOUS
<1>3. q[k].len <= q[k].size /\ End(q[k]) <= Top(f, i)
  BY <1>1 DEF Inside
<1>4. Top(f, i) \in Nat /\ Top(f, i) <= FlashSize
  <2>1. CASE FwdSupportNum = 2
    <3>1. 1 \in ScanSectors
      BY <2>1 DEF ScanSectors
    <3> QED
      BY <2>1, <3>1, Areas DEF Top
  <2>2. CASE FwdSupportNum = 3 /\ i = 0
    BY <2>2, BaseIs DEF Top
  <2>3. CASE FwdSupportNum = 3 /\ i # 0
    <3>1. i \in ScanSectors
      BY <2>3, Consts DEF ScanSectors
    <3> QED
      BY <2>3, <3>1, Areas DEF Top
  <2> QED
    BY <2>1, <2>2, <2>3, Consts
<1>5. End(q[k]) <= FlashSize
  BY <1>2, <1>3, <1>4, EntryIs, Consts
<1>6. ASSUME NEW j, NEW r \in Seq(ImageEntry), NEW id \in Commons, SetOf(f, j, r), Has(r, id)
      PROVE  Apart(q[k], First(r, id))
  <2>1. PICK l \in DOMAIN f : f[l].id \in Commons /\ AtPlace(First(r, id), f[l])
    BY <1>6, CommonAreas
  <2>2. Apart(q[k], f[l])
    BY <1>1, <2>1 DEF Inside
  <2> QED
    BY <2>1, <2>2, SamePlace
<1> QED
  BY <1>2, <1>3, <1>5, <1>6

-----------------------------------------------------------------------------
(* What a step does to the flash.                                          *)

\* From g to h nothing changes outside a .. b - 1; nothing of e changes.
Only(g, h, a, b) == \A u \in Addr : u \in a .. b - 1 \/ h[u] = g[u]
Same(g, h, e)    == \A u \in Units(e) : h[u] = g[u]

\* A step of a session writes to what is left of its area, to the second file
\* system or to the RAM dump.
InTrial(f)  == Only(flash, flash', s.start, Hi(f, s.t))
InData(id)  == /\ Has(ent[active], id)
               /\ Only(flash, flash', First(ent[active], id).start, End(First(ent[active], id)))
Touch(f)    == InTrial(f) \/ InData("fs2") \/ InData("ram")
Careful(f)  == flash' = flash \/ (Busy /\ Touch(f))

\* ... and to no descriptor or entry but those of its own set.
Beside ==
  /\ active' = active /\ fwd'[s.t].status # "valid"
  /\ \A i \in Sector \ {s.t} : ent'[i] = ent[i] /\ fwd'[i] = fwd[i]

LEMMA OnlyElsewhere ==
  ASSUME NEW g, NEW h, NEW a \in Nat, NEW b \in Nat, Only(g, h, a, b),
         NEW e \in ImageEntry, End(e) <= FlashSize, End(e) <= a \/ b <= e.start
  PROVE  Same(g, h, e)
<1>1. SUFFICES ASSUME NEW u \in e.start .. End(e) - 1 PROVE h[u] = g[u]
  BY DEF Same, Units
<1>2. e.start \in Nat /\ End(e) \in Nat /\ FlashSize \in Nat /\ Addr = 0 .. FlashSize - 1
  BY EntryIs, Consts
<1>3. u \in Addr /\ u \notin a .. b - 1
  BY <1>1, <1>2
<1> QED
  BY <1>3 DEF Only

LEMMA OnlyNothing ==
  ASSUME NEW g, NEW a, NEW b
  PROVE  Only(g, g, a, b)
BY DEF Only

LEMMA SameContains ==
  ASSUME NEW g, NEW h, NEW e \in ImageEntry, Same(g, h, e), e.len <= e.size, Contains(g, e)
  PROVE  Contains(h, e)
<1>1. SUFFICES ASSUME NEW o \in 0 .. e.len - 1 PROVE h[e.start + o] = g[e.start + o]
  BY DEF Contains
<1>2. e.start \in Nat /\ e.size \in Nat /\ e.len \in Nat /\ End(e) = e.start + e.size
  BY EntryIs DEF End
<1>3. e.start + o \in e.start .. End(e) - 1
  BY <1>1, <1>2
<1> QED
  BY <1>3 DEF Same, Units

LEMMA SameKeeps ==
  ASSUME NEW g, NEW h, NEW e \in ImageEntry, Same(g, h, e), e.len <= e.size, Keeps(g, e)
  PROVE  Keeps(h, e)
<1>1. SUFFICES ASSUME NEW o \in 0 .. e.len - 1 PROVE h[e.start + o] = g[e.start + o]
  BY DEF Keeps
<1>2. e.start \in Nat /\ e.size \in Nat /\ e.len \in Nat /\ End(e) = e.start + e.size
  BY EntryIs DEF End
<1>3. e.start + o \in e.start .. End(e) - 1
  BY <1>1, <1>2
<1> QED
  BY <1>3 DEF Same, Units

LEMMA ContainsKeeps ==
  ASSUME NEW h, NEW e, Contains(h, e)
  PROVE  Keeps(h, e)
BY DEF Contains, Keeps

\* What the invariant says of the sets that may run.
LEMMA Basics ==
  ASSUME NEW f \in Factories, InvOf(f)
  PROVE  /\ \A i \in Sector : ent[i] \in Seq(ImageEntry) /\ \A k \in DOMAIN ent[i] : ent[i][k] \in ImageEntry
         /\ \A i \in Sector : Whole(i) => SetOf(f, i, ent[i]) /\ (FwdSupportNum = 2 => i # 2)
         /\ active \in Sector /\ Whole(active)
         /\ Busy => /\ s.t \in ScanSectors /\ s.t \in Sector /\ s.t # active /\ s.start \in Nat
                    /\ Base(f) \in Nat /\ Lo(f, s.t) \in Nat /\ Hi(f, s.t) \in Nat /\ Base(f) <= Lo(f, s.t)
                    /\ Lo(f, s.t) <= s.start /\ s.start <= Hi(f, s.t) /\ Hi(f, s.t) <= FlashSize
                    /\ Base(f) <= s.start
                    /\ \A i \in Sector \ {s.t} : Whole(i) => Beyond(ent[i], s.start, Hi(f, s.t))
<1>1. Types /\ Table(f) /\ Chosen /\ Sets(f) /\ Clear(f)
  BY DEF InvOf
<1>2. \A i \in Sector : ent[i] \in Seq(ImageEntry)
  BY <1>1 DEF Types
<1>3. \A i \in Sector : \A k \in DOMAIN ent[i] : ent[i][k] \in ImageEntry
  BY <1>2
<1>4. active \in Sector /\ Whole(active)
  BY <1>1 DEF Types, Whole
<1>5. \A i \in Sector : Whole(i) => SetOf(f, i, ent[i])
  BY <1>1 DEF Sets
<1>6. \A i \in Sector : Whole(i) => (FwdSupportNum = 2 => i # 2)
  BY <1>1 DEF Table, Whole, AppValid
<1>7. ASSUME Busy
      PROVE  /\ s.t \in ScanSectors /\ s.t \in Sector /\ s.t # active /\ s.start \in Nat
             /\ Base(f) \in Nat /\ Lo(f, s.t) \in Nat /\ Hi(f, s.t) \in Nat /\ Base(f) <= Lo(f, s.t)
             /\ Lo(f, s.t) <= s.start /\ s.start <= Hi(f, s.t) /\ Hi(f, s.t) <= FlashSize
             /\ Base(f) <= s.start
             /\ \A i \in Sector \ {s.t} : Whole(i) => Beyond(ent[i], s.start, Hi(f, s.t))
  <2>1. s.t \in ScanSectors /\ s.t # active
    BY <1>1, <1>7 DEF Chosen
  <2>2. s.start \in Nat
    BY <1>1 DEF Types, SessionType
  <2>3. PICK t : t = s.t
    OBVIOUS
  <2>4. /\ t \in Sector /\ Lo(f, t) \in Nat /\ Hi(f, t) \in Nat /\ Base(f) <= Lo(f, t)
        /\ Hi(f, t) <= FlashSize /\ Base(f) \in Nat
    BY <2>1, <2>3, Areas
  <2>5. /\ Lo(f, t) <= s.start /\ s.start <= Hi(f, t)
        /\ \A i \in Sector \ {s.t} : Whole(i) => Beyond(ent[i], s.start, Hi(f, t))
    BY <1>1, <1>7, <2>3 DEF Clear
  <2>6. Base(f) <= s.start
    BY <2>2, <2>4, <2>5
  <2> QED
    BY <2>1, <2>2, <2>3, <2>4, <2>5, <2>6
<1> QED
  BY <1>2, <1>3, <1>4, <1>5, <1>6, <1>7

\* None of this concerns the programs of another set, nor the file system and
\* the user data of the running one.
LEMMA TouchKeeps ==
  ASSUME NEW f \in Factories, InvOf(f), Busy, Touch(f)
  PROVE  /\ \A i \in Sector \ {s.t} : Whole(i) =>
              \A k \in DOMAIN ent[i] : ent[i][k].id \in Programs => Same(flash, flash', ent[i][k])
         /\ \A k \in DOMAIN ent[active] :
              ent[active][k].id \in {"fs1", "usr"} => Same(flash, flash', ent[active][k])
<1>1. PICK act : act = ent[active] /\ act \in Seq(ImageEntry) /\ SetOf(f, active, act)
  BY Basics
<1>2. /\ s.start \in Nat /\ Hi(f, s.t) \in Nat /\ Base(f) \in Nat /\ Base(f) <= s.start
      /\ \A i \in Sector \ {s.t} : Whole(i) => Beyond(ent[i], s.start, Hi(f, s.t))
  BY Basics
<1>3. FlashSize \in Nat /\ Base(f) <= FlashSize
  BY Consts, BaseIs
<1>4. ASSUME NEW i \in Sector \ {s.t}, Whole(i), NEW k \in DOMAIN ent[i], ent[i][k].id \in Programs
      PROVE  Same(flash, flash', ent[i][k])
  <2>1. PICK q : q = ent[i] /\ q \in Seq(ImageEntry) /\ SetOf(f, i, q) /\ (FwdSupportNum = 2 => i # 2)
    BY <1>4, Basics
  <2>2. PICK e : e = q[k]
    OBVIOUS
  <2>3. /\ e \in ImageEntry /\ End(e) <= FlashSize
        /\ \A j, r, id : r \in Seq(ImageEntry) /\ SetOf(f, j, r) /\ id \in Commons /\ Has(r, id) =>
             Apart(e, First(r, id))
    BY <1>4, <2>1, <2>2, ProgramsApart
  <2>4. CASE InTrial(f)
    <3>1. End(e) <= s.start \/ e.start >= Hi(f, s.t)
      BY <1>2, <1>4, <2>1, <2>2 DEF Beyond
    <3>2. e.start \in Nat
      BY <2>3, EntryIs
    <3>3. End(e) <= s.start \/ Hi(f, s.t) <= e.start
      BY <1>2, <3>1, <3>2
    <3> QED
      BY <1>2, <2>1, <2>2, <2>3, <2>4, <3>3, OnlyElsewhere DEF InTrial
  <2>5. ASSUME NEW id \in Commons, InData(id) PROVE Same(flash, flash', e)
    <3>1. PICK d : d = First(act, id) /\ Has(act, id) /\ Only(flash, flash', d.start, End(d))
      BY <1>1, <2>5 DEF InData
    <3>2. Apart(e, d)
      BY <1>1, <2>3, <3>1
    <3>3. d.start \in Nat /\ End(d) \in Nat
      BY <1>1, <3>1, FirstIs, EntryIs
    <3> QED
      BY <2>3, <3>1, <3>2, <3>3, OnlyElsewhere DEF Apart
  <2> QED
    BY <2>1, <2>2, <2>4, <2>5, IdKinds DEF Touch
<1>5. ASSUME NEW k \in DOMAIN ent[active], ent[active][k].id \in {"fs1", "usr"}
      PROVE  Same(flash, flash', ent[active][k])
  <2>1. PICK e : e = act[k]
    OBVIOUS
  <2>2. PICK id \in Commons : id = e.id /\ id \notin {"fs2", "ram"}
    BY <1>1, <1>5, <2>1, IdKinds
  <2>3. Has(act, id) /\ e \in ImageEntry
    BY <1>1, <1>5, <2>1, <2>2 DEF Has
  <2>4. PICK d : d = First(act, id)
    OBVIOUS
  <2>5. /\ AtPlace(e, d) /\ End(d) <= Base(f)
        /\ \A i2 \in Commons : i2 # id /\ Has(act, i2) => Apart(d, First(act, i2))
    BY <1>1, <1>5, <2>1, <2>2, <2>3, <2>4, CommonAreas
  <2>6. End(e) \in Nat /\ End(e) <= Base(f) /\ End(e) <= FlashSize
    BY <1>2, <1>3, <2>3, <2>5, SamePlace, EntryIs
  <2>7. CASE InTrial(f)
    <3>1. End(e) <= s.start
      BY <1>2, <2>6
    <3> QED
      BY <1>1, <1>2, <2>1, <2>3, <2>6, <2>7, <3>1, OnlyElsewhere DEF InTrial
  <2>8. ASSUME NEW i2 \in {"fs2", "ram"}, InData(i2) PROVE Same(flash, flash', e)
    <3>1. PICK c : c = First(act, i2) /\ Has(act, i2) /\ Only(flash, flash', c.start, End(c))
      BY <1>1, <2>8 DEF InData
    <3>2. Apart(d, c)
      BY <2>2, <2>5, <3>1, IdKinds
    <3>3. Apart(e, c)
      BY <2>5, <3>2, SamePlace
    <3>4. c.start \in Nat /\ End(c) \in Nat
      BY <1>1, <3>1, FirstIs, EntryIs
    <3> QED
      BY <2>3, <2>6, <3>1, <3>3, <3>4, OnlyElsewhere DEF Apart
  <2> QED
    BY <1>1, <2>1, <2>7, <2>8 DEF Touch
<1> QED
  BY <1>4, <1>5

\* The sets that may run are not affected by an upgrade.
LEMMA CoreStep ==
  ASSUME NEW f \in Factories, InvOf(f), Busy, Touch(f), Beside
  PROVE  /\ Table(f)' /\ Sets(f)' /\ Intact'
         /\ \A i \in Sector : Whole(i)' => i # s.t /\ Whole(i) /\ ent'[i] = ent[i]
<1>1. Types /\ Table(f) /\ Chosen /\ Sets(f) /\ Intact
  BY DEF InvOf
<1>2. s.t \in ScanSectors /\ s.t # active /\ s.t \in Sector /\ active' = active
  BY Basics DEF Beside
<1>3. \A i \in Sector : (AppValid(fwd[i])' => i # s.t /\ AppValid(fwd[i]))
  BY <1>2 DEF Beside, AppValid
<1>4. \A i \in Sector : Whole(i)' => i # s.t /\ Whole(i) /\ ent'[i] = ent[i]
  BY <1>2, <1>3 DEF Whole, Beside
<1>5. Table(f)'
  <2>1. \A i \in Sector : fwd'[i].status = "valid" => fwd'[i].magic /\ fwd'[i].images
    BY <1>1 DEF Beside, Table
  <2>2. FwdSupportNum = 2 => fwd'[2].status # "valid" /\ active' # 2
    <3>1. 2 \in Sector
      BY Consts
    <3> QED
      BY <1>1, <1>2, <3>1 DEF Beside, Table
  <2>3. FwdSupportNum = 3 => ent'[0] = f
    <3>1. 0 \in Sector /\ (FwdSupportNum = 3 => s.t # 0)
      BY <1>2, Consts DEF ScanSectors
    <3> QED
      BY <1>1, <3>1 DEF Beside, Table
  <2> QED
    BY <2>1, <2>2, <2>3 DEF Table
<1>6. Sets(f)'
  BY <1>1, <1>4 DEF Sets
<1>7. Intact'
  <2>1. SUFFICES ASSUME NEW i \in Sector, AppValid(fwd[i])', NEW k \in DOMAIN ent'[i], ent'[i][k].id \in Programs
                 PROVE  Keeps(flash', ent'[i][k])
    BY DEF Intact, AllHeld
  <2>2. PICK q : q = ent[i] /\ q = ent'[i] /\ i # s.t /\ Whole(i) /\ q \in Seq(ImageEntry)
    BY <1>3, <1>4, <2>1, Basics DEF Whole
  <2>3. PICK e : e = q[k]
    OBVIOUS
  <2>4. Keeps(flash, e)
    BY <1>1, <1>3, <2>1, <2>2, <2>3 DEF Intact, AllHeld
  <2>5. Same(flash, flash', e)
    BY <2>1, <2>2, <2>3, TouchKeeps
  <2>6. e \in ImageEntry /\ e.len <= e.size
    <3>1. SetOf(f, i, q) /\ (FwdSupportNum = 2 => i # 2)
      BY <2>2, Basics
    <3> QED
      BY <2>1, <2>2, <2>3, <3>1, ProgramsApart
  <2>7. Keeps(flash', e)
    BY <2>4, <2>5, <2>6, SameKeeps
  <2> QED
    BY <2>2, <2>3, <2>7
<1> QED
  BY <1>4, <1>5, <1>6, <1>7

\* A session that ends leaves nothing else to show.
LEMMA IdleInv ==
  ASSUME NEW f \in Factories, Types', Handles', Table(f)', Sets(f)', Intact',
         s'.pc = "idle", s'.open = FALSE
  PROVE  InvOf(f)'
BY DEF InvOf, Chosen, Clear, Room, Position, NewSet, OpenEntry, Complete, Partly, FsErased, ToCopy,
       Entered, Busy, Filling, Placing, Loading, Reading

-----------------------------------------------------------------------------
(* Types.                                                                  *)

LEMMA SessionIs ==
  ASSUME Types
  PROVE  /\ s \in SessionType /\ s.pc \in Pcs /\ s.t \in Sector /\ s.start \in Nat /\ s.size \in 0 .. Word - 1
         /\ s.i \in Nat \ {0} /\ s.open \in BOOLEAN /\ s.cnt \in Nat /\ s.buf \in 0 .. MaxChunk
         /\ s.left \in Nat /\ s.dl \in SUBSET Nat /\ s.dup \in BOOLEAN
         /\ s.pc # "idle" => s.pkg \in Packages
BY DEF Types, SessionType

\* The image a session is at.
LEMMA ImageAt ==
  ASSUME Types, Position, s.pc \in {"recv", "image"}
  PROVE  /\ s.pkg \in Packages /\ Images = s.pkg.images /\ s.i \in DOMAIN Images /\ s.i \in s.dl
         /\ s.i \in 1 .. Len(Images) /\ Len(Images) \in Nat
         /\ Img \in Image /\ Img = s.pkg.images[s.i] /\ Disk(Img) \in Nat /\ Img.len \in Nat
         /\ Img.len <= Disk(Img)
         /\ Img.id # "sbl" => \E q \in Nat : q > 0 /\ Disk(Img) = q * BlockSize
<1>1. s.pkg \in Packages /\ s.i \in s.dl /\ s.dl \subseteq DOMAIN Images
  BY DEF Types, Position, Loading
<1>2. s.i \in DOMAIN s.pkg.images
  BY <1>1 DEF Images
<1>3. PICK p \in Packages : p = s.pkg
  BY <1>1
<1>4. PICK i \in DOMAIN p.images : i = s.i
  BY <1>2, <1>3
<1>5. /\ p.images[i] \in Image /\ Disk(p.images[i]) \in Nat /\ p.images[i].len <= Disk(p.images[i])
      /\ p.images[i].id # "sbl" => \E q \in Nat : q > 0 /\ Disk(p.images[i]) = q * BlockSize
  BY ImageIs
<1>6. p.images[i].len \in Nat
  BY <1>5 DEF Image
<1>7. i \in 1 .. Len(p.images) /\ Len(p.images) \in Nat
  BY PackageIs
<1> QED
  BY <1>1, <1>3, <1>4, <1>5, <1>6, <1>7 DEF Images, Img

LEMMA FoundIs ==
  ASSUME NEW i, NEW id
  PROVE  /\ Found(i, id) <=> free > 0 /\ Has(ent[i], id)
         /\ Entry(i, id) = First(ent[i], id)
BY DEF Found, Has, Entry, First

LEMMA NewEntryIs ==
  ASSUME Types, NEW g \in Image, Disk(g) \in Nat, g.id = "fs1" => Has(ent[active], "fs2")
  PROVE  /\ NewEntry(g) \in ImageEntry
         /\ (g.id = "fs1" => Disk(g) <= First(ent[active], "fs2").size)
              => MadeOf(NewEntry(g), g, ent[active], s.start)
<1>1. g.id \in Programs \cup {"fs1", "sbl"} /\ g.ver \in Nat /\ g.len \in Nat /\ g.disk \in Nat
  BY DEF Image
<1>2. s.start \in Nat
  BY SessionIs
<1>3. CASE g.id = "fs1"
  <2>1. ent[active] \in Seq(ImageEntry)
    BY DEF Types
  <2>2. PICK d \in ImageEntry : d = First(ent[active], "fs2")
    BY <1>3, <2>1, FirstIs
  <2>3. NewEntry(g) = [d EXCEPT !.id = "fs1", !.ver = g.ver, !.len = g.len]
    BY <1>3, <2>2, FoundIs DEF NewEntry
  <2>4. [d EXCEPT !.id = "fs1", !.ver = g.ver, !.len = g.len] \in ImageEntry
    BY <1>1 DEF ImageEntry, Ids
  <2>5. ~ InArea(g)
    BY <1>3 DEF InArea, Programs
  <2>6. PICK e \in ImageEntry : e = [d EXCEPT !.id = "fs1", !.ver = g.ver, !.len = g.len]
    BY <2>4
  <2>7. e.id = "fs1" /\ e.ver = g.ver /\ e.len = g.len /\ e.start = d.start /\ e.size = d.size
    BY <2>6 DEF ImageEntry
  <2> QED
    BY <1>3, <2>2, <2>3, <2>5, <2>6, <2>7 DEF MadeOf, AtPlace
<1>4. CASE g.id = "sbl"
  <2>1. NewEntry(g) = [id |-> "sbl", start |-> 0, size |-> g.disk, ver |-> g.ver, len |-> g.len]
    BY <1>4 DEF NewEntry
  <2>2. ~ InArea(g)
    BY <1>4 DEF InArea, Programs
  <2> QED
    BY <1>1, <1>4, <2>1, <2>2 DEF MadeOf, ImageEntry, Ids
<1>5. CASE g.id \notin {"fs1", "sbl"}
  <2>1. NewEntry(g) = [id |-> g.id, start |-> s.start, size |-> Disk(g), ver |-> g.ver, len |-> g.len]
    BY <1>5 DEF NewEntry
  <2> QED
    BY <1>1, <1>2, <1>5, <2>1 DEF MadeOf, ImageEntry, Ids
<1> QED
  BY <1>3, <1>4, <1>5

LEMMA NoSessionIs ==
  NoSession \in SessionType /\ NoSession.pc = "idle" /\ NoSession.open = FALSE /\ NoSession.i = 1
BY Consts DEF NoSession, SessionType, Pcs

\* The end of a session.
LEMMA StopIs ==
  ASSUME Types, Handles, Stop
  PROVE  /\ s' \in SessionType /\ s'.pc = "idle" /\ s'.open = FALSE /\ Handles'
<1>1. s' = NoSession /\ free' = IF s.open THEN free + 1 ELSE free
  BY DEF Stop
<1>2. free \in Nat /\ free + (IF s.open THEN 1 ELSE 0) <= MaxHandles /\ s.open \in BOOLEAN
  BY SessionIs DEF Handles
<1>3. MaxHandles \in Nat
  BY InstallAssumption
<1>4. s'.open = FALSE
  BY <1>1, NoSessionIs
<1>5. free' \in Nat /\ free' <= MaxHandles
  BY <1>1, <1>2, <1>3
<1>6. Handles'
  BY <1>4, <1>5 DEF Handles
<1> QED
  BY <1>1, <1>6, NoSessionIs

LEMMA EntSet ==
  ASSUME Types, NEW q \in Seq(ImageEntry), NEW i \in Sector
  PROVE  [ent EXCEPT ![i] = q] \in [Sector -> Seq(ImageEntry)]
BY DEF Types

LEMMA CreateIs ==
  ASSUME Types, NEW i \in Sector, NEW e \in ImageEntry, Create(i, e)
  PROVE  /\ ent' \in [Sector -> Seq(ImageEntry)] /\ ent'[i] = Append(ent[i], e)
         /\ \A j \in Sector \ {i} : ent'[j] = ent[j]
<1>1. ent \in [Sector -> Seq(ImageEntry)]
  BY DEF Types
<1>2. PICK q \in Seq(ImageEntry) : q = Append(ent[i], e)
  <2>1. PICK r \in Seq(ImageEntry) : r = ent[i]
    BY <1>1
  <2>2. Append(r, e) \in Seq(ImageEntry)
    BY AppendProperties
  <2> QED
    BY <2>1, <2>2
<1>3. ent' = [ent EXCEPT ![i] = q]
  BY <1>2 DEF Create
<1> QED
  BY <1>1, <1>2, <1>3

\* Writing to one descriptor.
LEMMA FwdSet ==
  ASSUME Types, NEW i \in Sector, NEW w \in Fwd, NEW g, g = [fwd EXCEPT ![i] = w]
  PROVE  g \in [Sector -> Fwd] /\ g[i] = w /\ \A j \in Sector \ {i} : g[j] = fwd[j]
BY DEF Types

-----------------------------------------------------------------------------
(* Steps that write to no set.                                             *)

\* No descriptor becomes valid.
Fades ==
  \A i \in Sector : /\ fwd'[i].status = "valid" => fwd[i].status = "valid"
                    /\ fwd[i].magic => fwd'[i].magic
                    /\ fwd[i].images => fwd'[i].images

LEMMA FadeCore ==
  ASSUME NEW f \in Factories, InvOf(f), Fades, UNCHANGED <<ent, flash, active>>
  PROVE  /\ Table(f)' /\ Sets(f)' /\ Intact'
         /\ \A i \in Sector : Whole(i)' => Whole(i)
<1>1. Table(f) /\ Sets(f) /\ Intact
  BY DEF InvOf
<1>2. \A i \in Sector : AppValid(fwd[i])' => AppValid(fwd[i])
  BY <1>1 DEF Fades, Table, AppValid
<1>3. \A i \in Sector : Whole(i)' => Whole(i)
  BY <1>2 DEF Whole
<1>4. Table(f)'
  <2>1. 2 \in Sector
    BY Consts
  <2> QED
    BY <1>1, <2>1 DEF Fades, Table
<1>5. Sets(f)'
  BY <1>1, <1>3 DEF Sets
<1>6. Intact'
  BY <1>1, <1>2 DEF Intact
<1> QED
  BY <1>3, <1>4, <1>5, <1>6

LEMMA FadeStay ==
  ASSUME NEW f \in Factories, InvOf(f), Fades, UNCHANGED <<ent, flash, active, s>>, Types', Handles'
  PROVE  InvOf(f)'
<1>1. /\ Types /\ Chosen /\ Clear(f) /\ Room(f) /\ Position /\ NewSet(f) /\ OpenEntry
      /\ Complete /\ Partly /\ FsErased /\ ToCopy /\ Entered
  BY DEF InvOf
<1>2. /\ Table(f)' /\ Sets(f)' /\ Intact' /\ \A i \in Sector : Whole(i)' => Whole(i)
  BY FadeCore
<1>3. Chosen'
  <2>1. Filling => s.t \in Sector
    BY Basics DEF Filling, Busy
  <2>2. s.t \in Sector
    BY <1>1, SessionIs
  <2> QED
    BY <1>1, <2>2 DEF Chosen, Fades, Busy, Filling, Reading
<1>4. Clear(f)'
  BY <1>1, <1>2 DEF Clear, Busy
<1>5. Room(f)' /\ Position'
  BY <1>1 DEF Room, Position, Loading, Images
<1>6. NewSet(f)' /\ OpenEntry'
  BY <1>1 DEF NewSet, OpenEntry, Placing, Last, Img, Images
<1>7. Complete' /\ Partly'
  BY <1>1 DEF Complete, Partly, Placing, Last, Img, Images
<1>8. FsErased' /\ ToCopy'
  BY <1>1 DEF FsErased, ToCopy, Loading, Images
<1>9. Entered'
  BY <1>1 DEF Entered, Passed, Loading, Images
<1> QED
  BY <1>2, <1>3, <1>4, <1>5, <1>6, <1>7, <1>8, <1>9 DEF InvOf

LEMMA FadeStop ==
  ASSUME NEW f \in Factories, InvOf(f), Fades, fwd' \in [Sector -> Fwd], UNCHANGED <<ent, flash, bootVars>>,
         Stop
  PROVE  InvOf(f)'
<1>1. Types /\ Handles
  BY DEF InvOf
<1>2. s' \in SessionType /\ s'.pc = "idle" /\ s'.open = FALSE /\ Handles'
  BY <1>1, StopIs
<1>3. Types'
  BY <1>1, <1>2 DEF Types, bootVars
<1>4. Table(f)' /\ Sets(f)' /\ Intact'
  BY FadeCore DEF bootVars
<1> QED
  BY <1>2, <1>3, <1>4, IdleInv

LEMMA TrialIndexIs ==
  ASSUME Trials(fwd) # {}
  PROVE  TrialIndex(fwd) \in Trials(fwd) /\ TrialIndex(fwd) \in Sector
<1>1. Trials(fwd) \in SUBSET (0 .. 2)
  BY FwdSupportNumAssumption DEF Trials, ScanSectors
<1>2. \E i \in Trials(fwd) : \A j \in Trials(fwd) : j <= i
  BY <1>1
<1> QED
  BY <1>1, <1>2 DEF TrialIndex, Sector

LEMMA CurrentIndexIs ==
  ASSUME Types
  PROVE  CurrentIndex(fwd) \in Sector /\ SelectTrial(fwd) \in ScanSectors /\ HighestRank(fwd) \in Nat
<1>1. Candidates(fwd) \in SUBSET (0 .. 2)
  BY FwdSupportNumAssumption DEF Candidates, ScanSectors
<1>2. \A i \in 0 .. 2 : fwd[i].rank \in Nat
  BY DEF Types, Fwd, Sector
<1>3. Candidates(fwd) # {} =>
        \E i \in Candidates(fwd) :
           \A j \in Candidates(fwd) : fwd[i].rank > fwd[j].rank \/ (fwd[i].rank = fwd[j].rank /\ i <= j)
  <2>1. SUFFICES ASSUME Candidates(fwd) # {}
                 PROVE  \E i \in Candidates(fwd) : \A j \in Candidates(fwd) :
                          fwd[i].rank > fwd[j].rank \/ (fwd[i].rank = fwd[j].rank /\ i <= j)
    OBVIOUS
  <2>2. PICK a \in Nat, b \in Nat, c \in Nat : a = fwd[0].rank /\ b = fwd[1].rank /\ c = fwd[2].rank
    BY <1>2
  <2>3. \A i \in Candidates(fwd) : i = 0 \/ i = 1 \/ i = 2
    BY <1>1
  <2> QED
    BY <2>1, <2>2, <2>3, SMTT(60)
<1>4. CurrentIndex(fwd) \in 0 .. 2
  BY <1>1, <1>3 DEF CurrentIndex
<1>5. SelectTrial(fwd) \in ScanSectors
  BY FwdSupportNumAssumption DEF SelectTrial, ScanSectors
<1>6. HighestRank(fwd) \in Nat
  BY <1>2, <1>4 DEF HighestRank, BaseRank
<1> QED
  BY <1>4, <1>5, <1>6 DEF Sector

LEMMA InvAccept ==
  ASSUME NEW f \in Factories, InvOf(f), Accept
  PROVE  InvOf(f)'
<1>1. Types /\ Handles
  BY DEF InvOf
<1>2. PICK t \in Sector, c \in Sector : t = TrialIndex(fwd) /\ c = CurrentIndex(fwd)
  BY <1>1, TrialIndexIs, CurrentIndexIs DEF Accept
<1>3. PICK g : g = [fwd EXCEPT ![t].rank = HighestRank(fwd) + 1]
  OBVIOUS
<1>4. fwd' = [g EXCEPT ![c].status = NorStatus(@, "invalid")] \/ fwd' = g
  BY <1>2, <1>3 DEF Accept
<1>5. fwd \in [Sector -> Fwd] /\ HighestRank(fwd) + 1 \in Nat
  BY <1>1, CurrentIndexIs DEF Types
<1>6. /\ g \in [Sector -> Fwd]
      /\ \A i \in Sector : g[i].status = fwd[i].status /\ g[i].magic = fwd[i].magic /\ g[i].images = fwd[i].images
  BY <1>3, <1>5 DEF Fwd
<1>7. PICK h : h = [g EXCEPT ![c].status = "invalid"]
  OBVIOUS
<1>8. /\ h \in [Sector -> Fwd]
      /\ \A i \in Sector : h[i].status = "valid" => g[i].status = "valid"
      /\ \A i \in Sector : h[i].magic = g[i].magic /\ h[i].images = g[i].images
  BY <1>6, <1>7 DEF Fwd
<1>9. fwd' = h \/ fwd' = g
  <2>1. NorStatus(g[c].status, "invalid") = "invalid"
    BY DEF NorStatus
  <2> QED
    BY <1>4, <1>7, <2>1
<1>10. fwd' \in [Sector -> Fwd] /\ Fades
  BY <1>6, <1>8, <1>9 DEF Fades
<1>11. UNCHANGED <<ent, flash, free, active, boot, sbl, s, sessions, mounts>>
  BY DEF Accept
<1>12. Types' /\ Handles'
  BY <1>1, <1>10, <1>11 DEF Types, Handles
<1> QED
  BY <1>10, <1>11, <1>12, FadeStay

LEMMA InvReject ==
  ASSUME NEW f \in Factories, InvOf(f), Reject
  PROVE  InvOf(f)'
<1>1. Types /\ Handles
  BY DEF InvOf
<1>2. PICK t \in Sector : t = TrialIndex(fwd)
  BY TrialIndexIs DEF Reject
<1>3. fwd' = [fwd EXCEPT ![t].status = "invalid", ![t].rank = 1]
  BY <1>2 DEF Reject
<1>4. fwd \in [Sector -> Fwd]
  BY <1>1 DEF Types
<1>5. fwd' \in [Sector -> Fwd] /\ Fades
  BY <1>3, <1>4 DEF Fwd, Fades
<1>6. UNCHANGED <<ent, flash, active, boot, s, sessions, mounts>>
  BY DEF Reject
<1>7. sbl' \in BOOLEAN /\ (free' = free \/ (free > 0 /\ free' = free - 1))
  BY <1>1 DEF Reject, Found, Types
<1>8. Types'
  BY <1>1, <1>5, <1>6, <1>7 DEF Types
<1>9. Handles'
  <2>1. free \in Nat /\ MaxHandles \in Nat /\ s.open \in BOOLEAN
    BY <1>1, SessionIs, InstallAssumption DEF Handles
  <2> QED
    BY <1>1, <1>6, <1>7, <2>1 DEF Handles
<1> QED
  BY <1>5, <1>6, <1>8, <1>9, FadeStay

LEMMA InvMount ==
  ASSUME NEW f \in Factories, InvOf(f), Mount
  PROVE  InvOf(f)'
<1>1. Types /\ Handles
  BY DEF InvOf
<1>2. UNCHANGED <<fwd, ent, flash, active, boot, sbl, s, sessions>> /\ Fades
  BY DEF Mount, Fades
<1>3. free' = free - 1 /\ free > 0 /\ mounts' \in 0 .. MaxMounts
  BY <1>1, InstallAssumption DEF Mount, Found, Types
<1>4. Types'
  BY <1>1, <1>2, <1>3 DEF Types
<1>5. Handles'
  <2>1. free \in Nat /\ MaxHandles \in Nat /\ s.open \in BOOLEAN
    BY <1>1, SessionIs, InstallAssumption DEF Handles
  <2> QED
    BY <1>1, <1>2, <1>3, <2>1 DEF Handles
<1> QED
  BY <1>2, <1>4, <1>5, FadeStay

LEMMA InvStutter ==
  ASSUME NEW f \in Factories, InvOf(f), UNCHANGED vars
  PROVE  InvOf(f)'
<1>1. Types /\ Handles
  BY DEF InvOf
<1>2. UNCHANGED <<fwd, ent, flash, free, active, boot, sbl, s, sessions, mounts>> /\ Fades
  BY DEF vars, Fades
<1>3. Types' /\ Handles'
  BY <1>1, <1>2 DEF Types, Handles
<1> QED
  BY <1>2, <1>3, FadeStay

LEMMA InvSessionFails ==
  ASSUME NEW f \in Factories, InvOf(f), SessionFails
  PROVE  InvOf(f)'
<1>1. Types
  BY DEF InvOf
<1>2. UNCHANGED <<fwd, ent, flash, bootVars>> /\ Stop /\ Fades
  BY DEF SessionFails, Fades
<1>3. fwd' \in [Sector -> Fwd]
  BY <1>1, <1>2 DEF Types
<1> QED
  BY <1>2, <1>3, FadeStop

\* The loader starts a set whose descriptor is valid.
LEMMA InvReboot ==
  ASSUME NEW f \in Factories, InvOf(f), Reboot
  PROVE  InvOf(f)'
<1>1. Types /\ Handles /\ Table(f) /\ Sets(f) /\ Intact
  BY DEF InvOf
<1>2. PICK k \in SlotMask(fwd) : active' = SlotTable(fwd)[k] /\ boot' = k
  BY DEF Reboot
<1>3. sbl' \in BOOLEAN /\ free' = MaxHandles /\ s' = NoSession /\ mounts' = 0 /\ UNCHANGED <<fwd, ent, flash, sessions>>
  BY <1>1 DEF Reboot, Types
<1> DEFINE S == {i \in Sector : SblValid(fwd[i]) /\ SlotOf(fwd[i]) = k}
<1>4. k \in Slot /\ SlotTable(fwd)[k] # None
  BY DEF SlotMask
<1>5. SlotTable(fwd)[k] = IF S = {} THEN None ELSE CHOOSE i \in S : \A j \in S : j <= i
  BY <1>4 DEF SlotTable
<1>6. active' \in S
  <2>1. S # {} /\ S \in SUBSET (0 .. 2)
    BY <1>4, <1>5 DEF Sector
  <2>2. \E i \in S : \A j \in S : j <= i
    <3>1. S \in SUBSET Nat /\ \A x \in S : x <= 2
      BY <2>1
    <3> HIDE DEF S
    <3> QED
      BY <2>1, <3>1, MaxIs
  <2> QED
    BY <1>2, <1>5, <2>1, <2>2
<1>7. active' \in Sector /\ fwd[active'].status = "valid" /\ fwd[active'].magic
  BY <1>6 DEF SblValid
<1>8. AppValid(fwd[active'])
  BY <1>1, <1>7 DEF Table, AppValid
<1>9. s' \in SessionType /\ s'.pc = "idle" /\ s'.open = FALSE
  BY <1>3, NoSessionIs
<1>10. Types'
  <2>1. 0 \in 0 .. MaxMounts
    BY InstallAssumption
  <2> QED
    BY <1>1, <1>2, <1>3, <1>4, <1>7, <1>9, <2>1 DEF Types
<1>11. Handles'
  BY <1>3, <1>9, InstallAssumption DEF Handles
<1>12. \A i \in Sector : Whole(i)' => Whole(i)
  BY <1>3, <1>8 DEF Whole
<1>13. Table(f)'
  <2>1. FwdSupportNum = 2 => active' # 2
    BY <1>1, <1>7 DEF Table
  <2> QED
    BY <1>1, <1>3, <2>1 DEF Table
<1>14. Sets(f)'
  BY <1>1, <1>3, <1>12 DEF Sets
<1>15. Intact'
  BY <1>1, <1>3 DEF Intact
<1> QED
  BY <1>9, <1>10, <1>11, <1>13, <1>14, <1>15, IdleInv

LEMMA InvStart ==
  ASSUME NEW f \in Factories, InvOf(f), NEW p \in Packages, NEW d \in BOOLEAN, Start(p, d)
  PROVE  InvOf(f)'
<1>1. Types /\ Handles /\ Table(f) /\ Sets(f) /\ Intact
  BY DEF InvOf
<1>2. /\ UNCHANGED <<fwd, ent, flash, free, active, boot, sbl, mounts>> /\ sessions' = sessions + 1
      /\ sessions < MaxSessions /\ s' = [NoSession EXCEPT !.pc = "info", !.pkg = p, !.dup = d]
  BY DEF Start
<1>3. Fades
  BY <1>2 DEF Fades
<1>4. /\ s' \in SessionType /\ s'.pc = "info" /\ s'.pkg = p /\ s'.open = FALSE /\ s'.i = 1
  <2>1. PICK n \in SessionType : n = NoSession /\ n.open = FALSE /\ n.i = 1
    BY NoSessionIs
  <2>2. s' = [n EXCEPT !.pc = "info", !.pkg = p, !.dup = d]
    BY <1>2, <2>1
  <2>3. "info" \in Pcs /\ p \in Packages \cup {<<>>}
    BY DEF Pcs
  <2> QED
    BY <2>1, <2>2, <2>3 DEF SessionType
<1>5. Types'
  <2>1. sessions' \in 0 .. MaxSessions
    BY <1>1, <1>2, InstallAssumption DEF Types
  <2> QED
    BY <1>1, <1>2, <1>4, <2>1 DEF Types
<1>6. Handles'
  <2>1. free \in Nat /\ MaxHandles \in Nat /\ s.open \in BOOLEAN /\ free <= MaxHandles
    BY <1>1, SessionIs, InstallAssumption DEF Handles
  <2> QED
    BY <1>2, <1>4, <2>1 DEF Handles
<1>7. Table(f)' /\ Sets(f)' /\ Intact'
  BY <1>2, <1>3, FadeCore
<1>8. Chosen' /\ Clear(f)' /\ Room(f)' /\ Position' /\ NewSet(f)' /\ OpenEntry'
  BY <1>4 DEF Chosen, Clear, Room, Position, NewSet, OpenEntry, Busy, Filling, Placing, Loading, Reading
<1>9. Complete' /\ Partly' /\ FsErased' /\ ToCopy' /\ Entered'
  BY <1>4 DEF Complete, Partly, FsErased, ToCopy, Entered, Placing, Loading, Passed
<1> QED
  BY <1>5, <1>6, <1>7, <1>8, <1>9 DEF InvOf

-----------------------------------------------------------------------------
(* The device as it is delivered.                                          *)

LEMMA FactorySet ==
  ASSUME NEW f \in Factories
  PROVE  SetOf(f, 0, f)
<1>1. \A k \in DOMAIN f : f[k] \in ImageEntry
  BY FactoryIs
<1>2. Turned(f, f, FALSE)
  <2>1. SUFFICES ASSUME NEW k \in DOMAIN f PROVE AtPlace(f[k], Place(f, f[k].id))
    BY DEF Turned, Turn
  <2>2. Has(f, f[k].id)
    BY DEF Has
  <2>3. PICK j \in DOMAIN f : f[j].id = f[k].id /\ Place(f, f[k].id) = f[j]
    BY <2>2, PlaceIs
  <2>4. j = k
    BY <2>3, FactoryIs
  <2> QED
    BY <2>3, <2>4 DEF AtPlace
<1>3. ASSUME NEW k \in DOMAIN f, f[k].id \in Programs PROVE Inside(f, 0, f[k])
  <2>1. f[k].id # "sbl" /\ f[k].id \notin Commons
    BY <1>3, IdKinds
  <2>2. /\ f[k].len <= f[k].size /\ f[k].start \in Nat
        /\ FwdSupportNum = 2 => End(f[k]) <= Base(f) + 2 * Half(Base(f))
        /\ FwdSupportNum = 3 => End(f[k]) <= Base(f)
    BY <1>1, <2>1, FactoryIs, BaseIs, EntryIs
  <2>3. End(f[k]) <= Top(f, 0)
    <3>1. CASE FwdSupportNum = 2
      <4>1. 1 \in ScanSectors
        BY <3>1 DEF ScanSectors
      <4> QED
        BY <2>2, <3>1, <4>1, Areas DEF Top
    <3>2. CASE FwdSupportNum = 3
      BY <2>2, <3>2 DEF Top
    <3> QED
      BY <3>1, <3>2, Consts
  <2>4. ASSUME NEW j \in DOMAIN f, f[j].id \in Commons PROVE Apart(f[k], f[j])
    <3>1. j # k /\ f[j].id # "sbl"
      BY <2>1, <2>4, IdKinds
    <3> QED
      BY <2>1, <3>1, FactoryIs
  <2> QED
    BY <2>2, <2>3, <2>4 DEF Inside, Bottom
<1> QED
  BY <1>2, <1>3 DEF SetOf

LEMMA InvInit ==
  ASSUME Init
  PROVE  IInv
<1>1. PICK f \in Factories :
       /\ ent = [i \in Sector |-> IF i = 0 THEN f ELSE <<>>]
       /\ flash = [u \in Addr |->
            LET E == {k \in DOMAIN f : f[k].id # "sbl" /\ u \in f[k].start .. f[k].start + f[k].len - 1}
            IN  IF E = {} THEN Erased
                ELSE LET e == f[CHOOSE k \in E : TRUE] IN <<e.id, e.ver, u - e.start>>]
  BY DEF Init
<1>2. /\ fwd = [i \in Sector |->
                  IF i = 0 THEN [magic |-> TRUE, status |-> "valid", images |-> TRUE, sbl |-> FALSE,
                                 rank |-> IF FwdSupportNum = 2 THEN 1 ELSE RankGolden]
                  ELSE ErasedFwd]
      /\ free = MaxHandles /\ active = 0 /\ boot = (IF FwdSupportNum = 2 THEN Current ELSE Golden)
      /\ sbl = TRUE /\ s = NoSession /\ sessions = 0 /\ mounts = 0
  BY DEF Init
<1>3. Sector = {0, 1, 2}
  BY Consts
<1>4. ent[0] = f /\ \A i \in Sector : ent[i] \in Seq(ImageEntry)
  BY <1>1, <1>3, FactoryIs
<1>5. /\ fwd \in [Sector -> Fwd] /\ fwd[0].magic /\ fwd[0].images
      /\ \A i \in Sector : fwd[i].status = "valid" => i = 0
  BY <1>2, <1>3 DEF Fwd, ErasedFwd, RankGolden, RankTrial
<1>6. Types
  <2>1. ent \in [Sector -> Seq(ImageEntry)]
    BY <1>1, <1>4
  <2>2. boot \in Slot /\ active \in Sector /\ sbl \in BOOLEAN
    BY <1>2, <1>3 DEF Slot, Current, Golden, Trial
  <2>3. sessions \in 0 .. MaxSessions /\ mounts \in 0 .. MaxMounts
    BY <1>2, InstallAssumption
  <2> QED
    BY <1>2, <1>5, <2>1, <2>2, <2>3, NoSessionIs DEF Types
<1>7. Handles
  BY <1>2, InstallAssumption, NoSessionIs DEF Handles
<1>8. \A i \in Sector : Whole(i) => i = 0
  BY <1>2, <1>5 DEF Whole, AppValid
<1>9. Table(f)
  BY <1>2, <1>3, <1>4, <1>5 DEF Table
<1>10. Sets(f)
  BY <1>4, <1>8, FactorySet DEF Sets
<1>11. Intact
  <2>1. SUFFICES ASSUME NEW k \in DOMAIN f, f[k].id \in Programs,
                        NEW o \in 0 .. f[k].len - 1
                 PROVE  flash[f[k].start + o] = <<f[k].id, f[k].ver, o>>
    <3>1. \A i \in Sector : AppValid(fwd[i]) => ent[i] = f
      BY <1>4, <1>5 DEF AppValid
    <3> QED
      BY <3>1 DEF Intact, AllHeld, Keeps
  <2>2. PICK u : u = f[k].start + o
    OBVIOUS
  <2> DEFINE E == {j \in DOMAIN f : f[j].id # "sbl" /\ u \in f[j].start .. f[j].start + f[j].len - 1}
  <2>3. /\ f[k].start \in Nat /\ f[k].len \in Nat /\ f[k].size \in Nat /\ End(f[k]) = f[k].start + f[k].size
        /\ f[k].id # "sbl" /\ f[k].len <= f[k].size /\ End(f[k]) <= FlashSize /\ FlashSize \in Nat
    BY <2>1, FactoryIs, EntryIs, IdKinds, Consts DEF End
  <2>4. u \in Addr /\ u \in f[k].start .. f[k].start + f[k].len - 1 /\ u - f[k].start = o
    <3>1. PICK y \in Nat : y = f[k].start
      BY <2>3
    <3>2. PICK x \in Nat : x = f[k].len
      BY <2>3
    <3>3. PICK z \in Nat : z = f[k].size
      BY <2>3
    <3>4. x <= z /\ y + z <= FlashSize /\ o \in 0 .. x - 1 /\ FlashSize \in Nat
      BY <2>1, <2>3, <3>1, <3>2, <3>3
    <3>5. o \in Nat /\ o < x
      BY <3>4
    <3>6. y + o \in 0 .. FlashSize - 1
      BY <3>4, <3>5, Offset
    <3>7. y + o \in y .. y + x - 1 /\ (y + o) - y = o
      BY <3>5
    <3> QED
      BY <2>2, <3>1, <3>2, <3>6, <3>7, Consts
  <2>5. k \in E
    BY <2>3, <2>4
  <2>6. ASSUME NEW j \in E PROVE j = k
    <3>1. SUFFICES ASSUME j # k PROVE FALSE
      OBVIOUS
    <3>2. j \in DOMAIN f /\ f[j].id # "sbl" /\ u \in f[j].start .. f[j].start + f[j].len - 1
      OBVIOUS
    <3>3. /\ f[j].start \in Nat /\ f[j].len \in Nat /\ f[j].size \in Nat /\ End(f[j]) = f[j].start + f[j].size
          /\ f[j].len <= f[j].size
      BY <3>2, FactoryIs, EntryIs DEF End
    <3>4. Apart(f[j], f[k])
      BY <2>3, <3>1, <3>2, FactoryIs
    <3> QED
      BY <2>3, <2>4, <3>2, <3>3, <3>4 DEF Apart
  <2>7. flash[u] = IF E = {} THEN Erased ELSE <<f[CHOOSE j \in E : TRUE].id, f[CHOOSE j \in E : TRUE].ver,
                                                u - f[CHOOSE j \in E : TRUE].start>>
    BY <1>1, <2>4
  <2>8. (CHOOSE j \in E : TRUE) = k
    <3> HIDE DEF E
    <3> QED
      BY <2>5, <2>6
  <2> HIDE DEF E
  <2> QED
    BY <2>2, <2>4, <2>5, <2>7, <2>8
<1>12. s.pc = "idle" /\ s.open = FALSE
  BY <1>2, NoSessionIs
<1>13. Chosen /\ Clear(f) /\ Room(f) /\ Position /\ NewSet(f) /\ OpenEntry
  BY <1>12 DEF Chosen, Clear, Room, Position, NewSet, OpenEntry, Busy, Filling, Placing, Loading, Reading
<1>14. Complete /\ Partly /\ FsErased /\ ToCopy /\ Entered
  BY <1>12 DEF Complete, Partly, FsErased, ToCopy, Entered, Placing, Loading
<1> QED
  BY <1>6, <1>7, <1>9, <1>10, <1>11, <1>13, <1>14 DEF InvOf, IInv

-----------------------------------------------------------------------------
(* The trial area.                                                         *)

\* Whichever set runs, and whichever way round its file systems are, the
\* programs are placed from the same address on.
LEMMA ImgStartIs ==
  ASSUME NEW f \in Factories, InvOf(f), FwdSupportNum = 2, free > 0
  PROVE  ImgStart = Base(f)
<1>1. PICK act : act = ent[active] /\ act \in Seq(ImageEntry) /\ SetOf(f, active, act)
  BY Basics
<1> DEFINE D == {d \in {"fs1", "fs2", "ram", "usr"} : Has(act, d)}
           T == {End(First(act, id)) : id \in D} \cup {3 * BlockSize}
<1>2. ImgStart = Max(T)
  <2>1. {d \in {"fs1", "fs2", "ram", "usr"} : Found(active, d)} = D
    BY <1>1, FoundIs
  <2>2. \A id : Entry(active, id) = First(act, id)
    BY <1>1, FoundIs
  <2> QED
    BY <2>1, <2>2 DEF ImgStart
<1>3. \A id \in D : id \in Commons /\ Has(act, id)
  BY IdKinds
<1>4. \A id \in D : End(First(act, id)) \in Nat /\ End(First(act, id)) <= Base(f)
  BY <1>1, <1>3, CommonAreas, EntryIs
<1>5. Base(f) \in Nat /\ 3 * BlockSize \in Nat /\ 3 * BlockSize <= Base(f)
  BY BaseIs, Consts
<1>6. T \in SUBSET Nat /\ \A y \in T : y <= Base(f)
  BY <1>4, <1>5
<1>7. Base(f) \in T
  <2>1. CASE Base(f) = 3 * BlockSize
    BY <2>1
  <2>2. CASE \E k \in DOMAIN f : f[k].id \in Commons /\ Base(f) = End(f[k])
    <3>1. PICK k \in DOMAIN f : f[k].id \in Commons /\ Base(f) = End(f[k])
      BY <2>2
    <3>2. PICK x \in BOOLEAN :
           \A id \in Commons : Has(act, id) =>
             /\ Turn(x, id) \in Commons /\ Has(f, Turn(x, id))
             /\ AtPlace(First(act, id), Place(f, Turn(x, id)))
             /\ \A l \in DOMAIN act : act[l].id = id => AtPlace(act[l], Place(f, Turn(x, id)))
      BY <1>1, SetPlaces
    <3>3. PICK a \in Commons : a = f[k].id /\ Has(f, a)
      BY <3>1 DEF Has
    <3>4. PICK b \in Commons : b = Turn(x, a) /\ Turn(x, b) = a
      BY IdKinds DEF Turn
    <3>5. Has(f, b)
      <4>1. CASE a \in {"fs1", "fs2"}
        <5>1. b \in {"fs1", "fs2"}
          BY <3>4, <4>1 DEF Turn, Swap
        <5> QED
          BY <3>3, <4>1, <5>1, FactoryIs
      <4>2. CASE a \notin {"fs1", "fs2"}
        BY <3>3, <3>4, <4>2 DEF Turn, Swap
      <4> QED
        BY <4>1, <4>2
    <3>6. Has(act, b)
      BY <1>1, <3>5 DEF SetOf
    <3>7. AtPlace(First(act, b), Place(f, a))
      BY <3>2, <3>4, <3>6
    <3>8. Place(f, a) = f[k]
      <4>1. PICK j \in DOMAIN f : f[j].id = a /\ Place(f, a) = f[j]
        BY <3>3, PlaceIs
      <4> QED
        BY <3>3, <4>1, FactoryIs
    <3>9. End(First(act, b)) = Base(f)
      BY <3>1, <3>7, <3>8, SamePlace
    <3>10. b \in D
      BY <3>6, IdKinds
    <3> QED
      BY <3>9, <3>10
  <2> QED
    BY <2>1, <2>2, BaseIs
<1>8. Max(T) = Base(f)
  <2> HIDE DEF T
  <2> QED
    BY <1>6, <1>7, MaxUnique
<1> QED
  BY <1>2, <1>8

\* The end of a golden set is the same address ...
LEMMA EndAddrGolden ==
  ASSUME NEW f \in Factories, InvOf(f), FwdSupportNum = 3, free > 1
  PROVE  EndAddr = Base(f)
<1>1. ent[0] = f
  BY DEF InvOf, Table
<1> DEFINE J == {j \in DOMAIN f : f[j].id # "sbl"}
           T == {End(f[k]) : k \in J} \cup {0}
<1>2. EndAddr = Max(T)
  BY <1>1 DEF EndAddr, Seen
<1>3. \A k \in DOMAIN f : End(f[k]) \in Nat /\ f[k].start \in Nat /\ f[k].start <= End(f[k])
  BY FactoryIs, EntryIs
<1>4. Base(f) \in Nat /\ \A k \in J : End(f[k]) <= Base(f)
  BY BaseIs
<1>5. T \in SUBSET Nat /\ \A y \in T : y <= Base(f)
  BY <1>3, <1>4
<1>6. Base(f) \in T
  <2>1. CASE \E k \in DOMAIN f : f[k].id # "sbl" /\ Base(f) = End(f[k])
    BY <2>1
  <2>2. CASE Base(f) = 3 * BlockSize
    <3>1. PICK k \in DOMAIN f : f[k].id \in Programs
      BY FactoryIs
    <3>2. f[k].id # "sbl"
      BY <3>1, IdKinds
    <3>3. f[k].start >= 3 * BlockSize
      BY <3>2, FactoryIs
    <3>4. End(f[k]) = Base(f)
      BY <1>3, <1>4, <2>2, <3>2, <3>3, Consts
    <3> QED
      BY <3>2, <3>4
  <2> QED
    BY <2>1, <2>2, BaseIs
<1>7. Max(T) = Base(f)
  <2> HIDE DEF T
  <2> QED
    BY <1>5, <1>6, MaxUnique
<1> QED
  BY <1>2, <1>7

\* ... and that of a set that runs is behind all of it and inside the flash.
LEMMA EndAddrOther ==
  ASSUME NEW f \in Factories, InvOf(f), FwdSupportNum = 2, free > 1, Whole(0)
  PROVE  /\ EndAddr \in Nat /\ EndAddr <= Hi(f, 1)
         /\ \A k \in DOMAIN ent[0] : ent[0][k].id \in Programs => End(ent[0][k]) <= EndAddr
<1>1. PICK q : q = ent[0] /\ q \in Seq(ImageEntry) /\ SetOf(f, 0, q)
  BY Basics, Consts
<1> DEFINE J == {j \in DOMAIN q : q[j].id # "sbl"}
           T == {End(q[k]) : k \in J} \cup {0}
<1>2. EndAddr = Max(T)
  BY <1>1 DEF EndAddr, Seen
<1>3. \A k \in DOMAIN q : q[k] \in ImageEntry /\ End(q[k]) \in Nat
  BY <1>1, EntryIs
<1>4. 1 \in ScanSectors
  BY DEF ScanSectors
<1>5. Hi(f, 1) \in Nat /\ Base(f) \in Nat /\ Base(f) <= Hi(f, 1)
  BY <1>4, Areas
<1>6. ASSUME NEW k \in J PROVE End(q[k]) <= Hi(f, 1)
  <2>1. CASE q[k].id \in Programs
    BY <1>1, <2>1 DEF SetOf, Inside, Top
  <2>2. CASE q[k].id \in Commons
    <3>1. PICK id \in Commons : id = q[k].id /\ Has(q, id)
      BY <2>2 DEF Has
    <3>2. AtPlace(q[k], First(q, id)) /\ End(First(q, id)) <= Base(f)
      BY <1>1, <3>1, CommonAreas
    <3>3. End(q[k]) <= Base(f)
      BY <3>2, SamePlace
    <3> QED
      BY <1>3, <1>5, <3>3
  <2>3. q[k].id \in Programs \/ q[k].id \in Commons
    BY <1>3, EntryIs, IdKinds
  <2> QED
    BY <2>1, <2>2, <2>3
<1>7. T \in SUBSET Nat /\ T # {} /\ \A x \in T : x <= Hi(f, 1)
  BY <1>3, <1>5, <1>6
<1>8. Max(T) \in T /\ \A y \in T : y <= Max(T)
  <2> HIDE DEF T
  <2> QED
    BY <1>5, <1>7, MaxIs
<1>9. \A k \in DOMAIN q : q[k].id \in Programs => k \in J
  BY IdKinds
<1>10. \A k \in J : End(q[k]) \in T
  OBVIOUS
<1> HIDE DEF T, J
<1> QED
  BY <1>1, <1>2, <1>7, <1>8, <1>9, <1>10

\* So the area chosen ends where the layout says, and no program of another set
\* is in it.
LEMMA TrialAreaIs ==
  ASSUME NEW f \in Factories, InvOf(f), free > 1, NEW t \in ScanSectors, t # active
  PROVE  /\ TrialArea(t).start \in Nat /\ TrialArea(t).size \in 0 .. Word - 1
         /\ Lo(f, t) <= TrialArea(t).start /\ TrialArea(t).start <= Hi(f, t)
         /\ TrialArea(t).start + TrialArea(t).size = Hi(f, t)
         /\ \A i \in Sector \ {t} : Whole(i) => Beyond(ent[i], TrialArea(t).start, Hi(f, t))
<1>1. free \in Nat /\ free > 0
  BY DEF InvOf, Handles
<1>2. PICK b \in Nat, h \in Nat : b = Base(f) /\ h = Half(b) /\ b + 2 * h <= FlashSize
  BY Areas
<1>3. FlashSize \in Nat /\ Word \in Nat /\ FlashSize < Word /\ Sector = {0, 1, 2} /\ FwdSupportNum \in {2, 3}
  BY Consts
<1>4. \A i \in Sector : Whole(i) =>
        /\ FwdSupportNum = 2 => i # 2
        /\ \A k \in DOMAIN ent[i] : ent[i][k].id \in Programs =>
             /\ Bottom(f, i) <= ent[i][k].start /\ End(ent[i][k]) <= Top(f, i)
             /\ ent[i][k].start \in Nat /\ End(ent[i][k]) \in Nat
  <2>1. SUFFICES ASSUME NEW i \in Sector, Whole(i)
                 PROVE  /\ FwdSupportNum = 2 => i # 2
                        /\ \A k \in DOMAIN ent[i] : ent[i][k].id \in Programs =>
                             /\ Bottom(f, i) <= ent[i][k].start /\ End(ent[i][k]) <= Top(f, i)
                             /\ ent[i][k].start \in Nat /\ End(ent[i][k]) \in Nat
    OBVIOUS
  <2>2. PICK q : q = ent[i] /\ SetOf(f, i, q) /\ (FwdSupportNum = 2 => i # 2)
                 /\ \A k \in DOMAIN q : q[k] \in ImageEntry
    BY <2>1, Basics
  <2> QED
    BY <2>2, EntryIs DEF SetOf, Inside
<1>5. CASE FwdSupportNum = 2
  <2>1. ImgStart = b
    BY <1>1, <1>2, <1>5, ImgStartIs
  <2>2. /\ Lo(f, 0) = b /\ Hi(f, 0) = b + h /\ Lo(f, 1) = b + h /\ Hi(f, 1) = b + 2 * h /\ t \in {0, 1}
    BY <1>2, <1>5, Areas
  <2>3. CASE t = 0
    <3>1. TrialArea(t) = [start |-> b, size |-> h]
      BY <1>2, <1>5, <2>1, <2>3 DEF TrialArea
    <3>2. ASSUME NEW i \in Sector \ {t}, Whole(i) PROVE Beyond(ent[i], b, Hi(f, t))
      <4>1. i = 1
        BY <1>3, <1>4, <1>5, <2>3, <3>2
      <4>2. Bottom(f, i) = Hi(f, t)
        BY <2>2, <2>3, <4>1 DEF Bottom
      <4> QED
        BY <1>2, <1>4, <2>2, <2>3, <3>2, <4>2 DEF Beyond
    <3> QED
      BY <1>2, <1>3, <2>2, <2>3, <3>1, <3>2
  <2>4. CASE t = 1
    <3>1. active = 0 /\ Whole(0)
      BY <1>3, <1>4, <1>5, <2>4, Basics
    <3>2. PICK z \in Nat : z = EndAddr /\ z <= Hi(f, 1)
                           /\ \A k \in DOMAIN ent[0] : ent[0][k].id \in Programs => End(ent[0][k]) <= z
      BY <1>5, <3>1, EndAddrOther
    <3>3. ASSUME NEW i \in Sector \ {t}, Whole(i) PROVE i = 0
      BY <1>3, <1>4, <1>5, <2>4, <3>3
    <3>4. CASE b + h < z
      <4>1. (h - (z - (b + h))) % Word = b + 2 * h - z
        BY <1>2, <1>3, <2>2, <3>2, <3>4
      <4>2. TrialArea(t) = [start |-> z, size |-> b + 2 * h - z]
        BY <1>2, <1>5, <2>1, <2>4, <3>2, <3>4, <4>1 DEF TrialArea
      <4>3. Beyond(ent[0], z, Hi(f, t))
        BY <3>2 DEF Beyond
      <4> QED
        BY <1>2, <1>3, <2>2, <2>4, <3>2, <3>3, <3>4, <4>2, <4>3
    <3>5. CASE ~ (b + h < z)
      <4>1. TrialArea(t) = [start |-> b + h, size |-> h]
        BY <1>2, <1>5, <2>1, <2>4, <3>2, <3>5 DEF TrialArea
      <4>2. \A k \in DOMAIN ent[0] : ent[0][k].id \in Programs => End(ent[0][k]) <= b + h
        BY <1>2, <1>3, <1>4, <3>1, <3>2, <3>5
      <4>3. Beyond(ent[0], b + h, Hi(f, t))
        BY <4>2 DEF Beyond
      <4> QED
        BY <1>2, <1>3, <2>2, <2>4, <3>2, <3>3, <3>5, <4>1, <4>3
    <3> QED
      BY <3>4, <3>5
  <2> QED
    BY <2>2, <2>3, <2>4
<1>6. CASE FwdSupportNum = 3
  <2>1. EndAddr = b
    BY <1>2, <1>6, EndAddrGolden
  <2>2. /\ Lo(f, 1) = b /\ Hi(f, 1) = b + h /\ Lo(f, 2) = b + h /\ Hi(f, 2) = b + 2 * h /\ t \in {1, 2}
    BY <1>2, <1>6, Areas
  <2>3. TrialArea(t) = [start |-> b + (t - 1) * h, size |-> h]
    BY <1>2, <1>6, <2>1 DEF TrialArea
  <2>4. PICK a \in Nat : a = Lo(f, t) /\ TrialArea(t).start = a /\ TrialArea(t).size = h /\ Hi(f, t) = a + h
    BY <1>2, <2>2, <2>3
  <2>5. ASSUME NEW i \in Sector \ {t}, Whole(i) PROVE Beyond(ent[i], a, Hi(f, t))
    <3>1. CASE i = 0
      <4>1. Top(f, i) = b /\ b <= a
        BY <1>2, <1>6, <2>2, <2>4, <3>1 DEF Top
      <4> QED
        BY <1>2, <1>4, <2>4, <2>5, <4>1 DEF Beyond
    <3>2. CASE i = 1
      <4>1. t = 2 /\ Top(f, i) = b + h /\ a = b + h
        BY <1>2, <1>6, <2>2, <2>4, <2>5, <3>2 DEF Top
      <4> QED
        BY <1>2, <1>4, <2>4, <2>5, <4>1 DEF Beyond
    <3>3. CASE i = 2
      <4>1. t = 1 /\ Bottom(f, i) = b + h /\ a + h = b + h
        BY <1>2, <1>6, <2>2, <2>4, <2>5, <3>3 DEF Bottom
      <4> QED
        BY <1>2, <1>4, <2>4, <2>5, <4>1 DEF Beyond
    <3> QED
      BY <1>3, <3>1, <3>2, <3>3
  <2> QED
    BY <1>2, <1>3, <2>2, <2>4, <2>5
<1> QED
  BY <1>3, <1>5, <1>6

LEMMA InvGetTrialInfo ==
  ASSUME NEW f \in Factories, InvOf(f), Supplied, GetTrialInfo
  PROVE  InvOf(f)'
<1>1. Types /\ Handles
  BY DEF InvOf
<1>2. /\ UNCHANGED <<fwd, ent, flash, bootVars>> /\ s.pc = "info" /\ free > 1 /\ Fades
  BY DEF GetTrialInfo, At, Supplied, Fades
<1>3. CASE Stop
  <2>1. fwd' \in [Sector -> Fwd]
    BY <1>1, <1>2 DEF Types
  <2> QED
    BY <1>2, <1>3, <2>1, FadeStop
<1>4. CASE ~ Stop
  <2>1. PICK t \in ScanSectors : t = SelectTrial(fwd)
    BY <1>1, CurrentIndexIs
  <2>2. PICK a : a = TrialArea(t)
    OBVIOUS
  <2>3. /\ t # active /\ free' = free
        /\ s' = [s EXCEPT !.pc = "erase", !.t = t, !.start = a.start, !.size = a.size]
    BY <1>4, <2>1, <2>2 DEF GetTrialInfo
  <2>4. /\ a.start \in Nat /\ a.size \in 0 .. Word - 1
        /\ Lo(f, t) <= a.start /\ a.start <= Hi(f, t) /\ a.start + a.size = Hi(f, t)
        /\ \A i \in Sector \ {t} : Whole(i) => Beyond(ent[i], a.start, Hi(f, t))
    BY <1>2, <2>2, <2>3, TrialAreaIs
  <2>5. t \in Sector
    BY Areas
  <2>6. /\ s' \in SessionType /\ s'.pc = "erase" /\ s'.t = t /\ s'.start = a.start /\ s'.size = a.size
        /\ s'.pkg = s.pkg /\ s'.open = s.open /\ s'.i = s.i
    <3>1. s \in SessionType /\ "erase" \in Pcs
      BY <1>1, SessionIs DEF Pcs
    <3> QED
      BY <2>3, <2>4, <2>5, <3>1 DEF SessionType
  <2>7. s.pkg \in Packages
    BY <1>1, <1>2, SessionIs
  <2>8. s.open = FALSE /\ s.i = 1
    BY <1>1, <1>2, SessionIs DEF InvOf, Position
  <2>9. Types' /\ Handles'
    BY <1>1, <1>2, <2>3, <2>6, <2>7 DEF Types, Handles, bootVars
  <2>10. /\ Table(f)' /\ Sets(f)' /\ Intact' /\ \A i \in Sector : Whole(i)' => Whole(i)
    BY <1>2, FadeCore DEF bootVars
  <2>11. Chosen' /\ Room(f)' /\ Position' /\ NewSet(f)' /\ OpenEntry'
    BY <1>2, <2>3, <2>6, <2>8 DEF Chosen, Room, Position, NewSet, OpenEntry, Busy, Filling, Placing,
       Loading, Reading, bootVars
  <2>12. Clear(f)'
    BY <1>2, <2>4, <2>6, <2>10 DEF Clear, Busy
  <2>13. Complete' /\ Partly' /\ FsErased' /\ ToCopy' /\ Entered'
    BY <2>6, <2>8 DEF Complete, Partly, FsErased, ToCopy, Entered, Placing, Loading, Passed
  <2> QED
    BY <2>9, <2>10, <2>11, <2>12, <2>13 DEF InvOf
<1> QED
  BY <1>3, <1>4

-----------------------------------------------------------------------------
(* The steps that prepare the new set.                                     *)

\* A partition that is erased as a whole.
LEMMA WipedAll ==
  ASSUME NEW g, NEW e \in ImageEntry, NEW h, h = Wiped(g, e, 0, e.size), End(e) <= FlashSize
  PROVE  Only(g, h, e.start, End(e)) /\ Blank(h, e.start, End(e))
<1>1. /\ e.start \in Nat /\ e.size \in Nat /\ End(e) = e.start + e.size /\ End(e) \in Nat
      /\ FlashSize \in Nat /\ Addr = 0 .. FlashSize - 1
  BY EntryIs, Consts DEF End
<1>2. e.start + 0 = e.start /\ e.start + 0 + e.size - 1 = End(e) - 1
  BY <1>1
<1>3. h = [u \in Addr |-> IF u \in e.start .. End(e) - 1 THEN Erased ELSE g[u]]
  BY <1>2 DEF Wiped
<1>4. Only(g, h, e.start, End(e)) /\ \A u \in Addr : u \in e.start .. End(e) - 1 => h[u] = Erased
  BY <1>3 DEF Only
<1> QED
  BY <1>1, <1>4 DEF Blank

LEMMA OnlyMore ==
  ASSUME NEW g, NEW h, NEW a \in Nat, NEW b \in Nat, NEW c \in Nat, NEW d \in Nat,
         c <= a, b <= d, Only(g, h, a, b)
  PROVE  Only(g, h, c, d)
<1>1. SUFFICES ASSUME NEW u \in Addr, u \in a .. b - 1 PROVE u \in c .. d - 1
  BY DEF Only
<1> QED
  BY <1>1

LEMMA SameBlank ==
  ASSUME NEW g, NEW h, NEW e, Same(g, h, e), Blank(g, e.start, End(e))
  PROVE  Blank(h, e.start, End(e))
BY DEF Same, Blank, Units

\* The upgrade goes on in the same area.
LEMMA GoesOn ==
  ASSUME NEW f \in Factories, InvOf(f), Busy, Touch(f), Beside, Busy', s'.t = s.t,
         s'.start \in Nat, s.start <= s'.start, s'.start <= Hi(f, s.t),
         s'.pc \in {"erase", "fs2", "prepare", "config"} => s'.start + s'.size = Hi(f, s.t),
         Reading' => fwd'[s.t].magic /\ fwd'[s.t].images
  PROVE  Table(f)' /\ Sets(f)' /\ Intact' /\ Chosen' /\ Clear(f)'
<1>1. /\ Table(f)' /\ Sets(f)' /\ Intact'
      /\ \A i \in Sector : Whole(i)' => i # s.t /\ Whole(i) /\ ent'[i] = ent[i]
  BY CoreStep
<1>2. /\ s.t \in ScanSectors /\ s.t # active /\ s.start \in Nat /\ Lo(f, s.t) <= s.start
      /\ Lo(f, s.t) \in Nat /\ Hi(f, s.t) \in Nat
      /\ \A i \in Sector \ {s.t} : Whole(i) => Beyond(ent[i], s.start, Hi(f, s.t))
  BY Basics
<1>3. Chosen'
  BY <1>2 DEF Chosen, Beside
<1>4. ASSUME NEW i \in Sector \ {s.t}, Whole(i)' PROVE Beyond(ent'[i], s'.start, Hi(f, s.t))
  <2>1. PICK q : q = ent[i] /\ q = ent'[i] /\ Beyond(q, s.start, Hi(f, s.t))
                 /\ \A k \in DOMAIN q : q[k] \in ImageEntry
    BY <1>1, <1>2, <1>4, Basics
  <2>2. \A k \in DOMAIN q : End(q[k]) \in Nat /\ q[k].start \in Nat
    BY <2>1, EntryIs
  <2>3. Beyond(q, s'.start, Hi(f, s.t))
    BY <1>2, <2>1, <2>2 DEF Beyond
  <2> QED
    BY <2>1, <2>3
<1>5. Lo(f, s.t) <= s'.start
  BY <1>2
<1>6. Clear(f)'
  BY <1>4, <1>5 DEF Clear
<1> QED
  BY <1>1, <1>3, <1>6

\* With file systems there are two, and the package has one.
LEMMA FsKnown ==
  ASSUME NEW f \in Factories, InvOf(f), s.pc # "idle"
  PROVE  /\ Has(ent[active], "fs2") <=> ~ NoFs
         /\ Has(ent[active], "fs1") <=> ~ NoFs
         /\ (\E k \in DOMAIN Images : Images[k].id = "fs1") <=> ~ NoFs
         /\ Has(f, "fs1") <=> ~ NoFs
<1>1. SetOf(f, active, ent[active])
  BY Basics
<1>2. \A id \in {"fs1", "fs2"} : Has(f, id) <=> ~ NoFs
  BY FactoryIs
<1>3. \A id \in {"fs1", "fs2"} : Has(ent[active], id) <=> Has(f, id)
  BY <1>1, IdKinds DEF SetOf
<1>4. s.pkg \in Packages
  BY SessionIs DEF InvOf
<1>5. (\E k \in DOMAIN Images : Images[k].id = "fs1") <=> ~ NoFs
  BY <1>4, PackageIs DEF Images
<1> QED
  BY <1>2, <1>3, <1>5

\* The second file system is written only where the step is about it.
LEMMA FsKept ==
  ASSUME NEW f \in Factories, InvOf(f), Busy, InTrial(f) \/ InData("ram"), Has(ent[active], "fs2")
  PROVE  Same(flash, flash', First(ent[active], "fs2"))
<1>1. PICK act : act = ent[active] /\ act \in Seq(ImageEntry) /\ SetOf(f, active, act)
  BY Basics
<1>2. PICK d : d = First(act, "fs2")
  OBVIOUS
<1>3. /\ d \in ImageEntry /\ End(d) <= Base(f)
      /\ \A i2 \in Commons : i2 # "fs2" /\ Has(act, i2) => Apart(d, First(act, i2))
  BY <1>1, <1>2, CommonAreas, IdKinds
<1>4. End(d) \in Nat /\ Base(f) \in Nat /\ Base(f) <= FlashSize /\ FlashSize \in Nat
  BY <1>3, EntryIs, BaseIs, Consts
<1>5. End(d) <= FlashSize
  BY <1>3, <1>4
<1>6. CASE InTrial(f)
  <2>1. s.start \in Nat /\ Hi(f, s.t) \in Nat /\ Base(f) <= s.start
    BY Basics
  <2>2. End(d) <= s.start
    BY <1>3, <1>4, <2>1
  <2>3. Only(flash, flash', s.start, Hi(f, s.t))
    BY <1>6 DEF InTrial
  <2> QED
    BY <1>1, <1>2, <1>3, <1>5, <2>1, <2>2, <2>3, OnlyElsewhere
<1>7. CASE InData("ram")
  <2>1. PICK c : c = First(act, "ram") /\ Has(act, "ram") /\ Only(flash, flash', c.start, End(c))
    BY <1>1, <1>7 DEF InData
  <2>2. Apart(d, c)
    BY <1>3, <2>1, IdKinds
  <2>3. c.start \in Nat /\ End(c) \in Nat
    BY <1>1, <2>1, FirstIs, EntryIs
  <2> QED
    BY <1>1, <1>2, <1>3, <1>5, <2>1, <2>2, <2>3, OnlyElsewhere DEF Apart
<1> QED
  BY <1>6, <1>7

LEMMA InvEraseFwd ==
  ASSUME NEW f \in Factories, InvOf(f), EraseFwd
  PROVE  InvOf(f)'
<1>1. Types /\ Handles /\ Position /\ Clear(f)
  BY DEF InvOf
<1>2. PICK p \in {"prepare", "fs2"} : s' = [s EXCEPT !.pc = p] /\ (p = "prepare" => NoFs)
  BY DEF EraseFwd, Go
<1>3. /\ fwd' = [fwd EXCEPT ![s.t] = ErasedFwd] /\ ent' = [ent EXCEPT ![s.t] = <<>>]
      /\ UNCHANGED <<flash, free, bootVars>> /\ s.pc = "erase"
  BY DEF EraseFwd, At
<1>4. Busy
  BY <1>3 DEF Busy
<1>5. s \in SessionType /\ s.t \in Sector /\ s.pkg \in Packages /\ s.open = FALSE /\ s.i = 1
  BY <1>1, <1>3, SessionIs DEF Position
<1>6. /\ s' \in SessionType /\ s'.pc = p /\ s'.t = s.t /\ s'.start = s.start /\ s'.size = s.size
      /\ s'.pkg = s.pkg /\ s'.open = FALSE /\ s'.i = 1
  <2>1. p \in Pcs
    BY DEF Pcs
  <2> QED
    BY <1>2, <1>5, <2>1 DEF SessionType
<1>7. ErasedFwd \in Fwd /\ ErasedFwd.status # "valid"
  BY DEF ErasedFwd, Fwd, RankTrial
<1>8. /\ fwd' \in [Sector -> Fwd] /\ fwd'[s.t] = ErasedFwd
      /\ \A j \in Sector \ {s.t} : fwd'[j] = fwd[j]
  <2>1. fwd \in [Sector -> Fwd]
    BY <1>1 DEF Types
  <2> QED
    BY <1>3, <1>5, <1>7, <2>1
<1>9. /\ ent' \in [Sector -> Seq(ImageEntry)] /\ ent'[s.t] = <<>>
      /\ \A j \in Sector \ {s.t} : ent'[j] = ent[j]
  BY <1>1, <1>3, <1>5 DEF Types
<1>10. Types' /\ Handles'
  BY <1>1, <1>3, <1>5, <1>6, <1>8, <1>9 DEF Types, Handles, bootVars
<1>11. Beside
  BY <1>3, <1>7, <1>8, <1>9 DEF Beside, bootVars
<1>12. Touch(f)
  BY <1>3, OnlyNothing DEF Touch, InTrial
<1>13. Busy' /\ ~ Reading' /\ s'.start \in Nat /\ s.start <= s'.start /\ s'.start <= Hi(f, s.t)
       /\ s'.start + s'.size = Hi(f, s.t)
  <2>1. s.start \in Nat /\ s.start <= Hi(f, s.t) /\ s.start + s.size = Hi(f, s.t)
    BY <1>1, <1>3, <1>4, SessionIs DEF Clear
  <2> QED
    BY <1>6, <2>1 DEF Busy, Reading
<1>14. Table(f)' /\ Sets(f)' /\ Intact' /\ Chosen' /\ Clear(f)'
  BY <1>4, <1>6, <1>11, <1>12, <1>13, GoesOn
<1>15. Room(f)' /\ Position' /\ NewSet(f)' /\ OpenEntry'
  BY <1>6, <1>9 DEF Room, Position, NewSet, OpenEntry, Placing, Loading
<1>16. Complete' /\ Partly' /\ ToCopy' /\ Entered'
  BY <1>6 DEF Complete, Partly, ToCopy, Entered, Placing, Loading, Passed
<1>17. FsErased'
  <2>1. NoFs => \A k \in DOMAIN Images : Images[k].id # "fs1"
    BY <1>3, FsKnown
  <2> QED
    BY <1>2, <1>6, <2>1 DEF FsErased, Images
<1> QED
  BY <1>10, <1>14, <1>15, <1>16, <1>17 DEF InvOf

LEMMA InvEraseSecondFs ==
  ASSUME NEW f \in Factories, InvOf(f), EraseSecondFs
  PROVE  InvOf(f)' /\ Careful(f)
<1>1. Types /\ Handles /\ Position /\ Clear(f) /\ Chosen
  BY DEF InvOf
<1>2. UNCHANGED <<fwd, ent, bootVars>> /\ s.pc = "fs2" /\ Fades
  BY DEF EraseSecondFs, At, Fades
<1>3. CASE Stop /\ UNCHANGED flash
  <2>1. fwd' \in [Sector -> Fwd]
    BY <1>1, <1>2 DEF Types
  <2> QED
    BY <1>2, <1>3, <2>1, FadeStop DEF Careful
<1>4. CASE ~ (Stop /\ UNCHANGED flash)
  <2>1. PICK act : act = ent[active] /\ act \in Seq(ImageEntry) /\ SetOf(f, active, act)
    BY Basics
  <2>2. Found(active, "fs2")
    BY <1>4 DEF EraseSecondFs
  <2>3. PICK e : e = First(act, "fs2")
    OBVIOUS
  <2>4. /\ Has(act, "fs2") /\ flash' = Wiped(flash, e, 0, e.size) /\ s' = [s EXCEPT !.pc = "prepare"]
        /\ free' = free
    BY <1>4, <2>1, <2>2, <2>3, FoundIs DEF EraseSecondFs, Go
  <2>5. e \in ImageEntry /\ End(e) <= Base(f)
    BY <2>1, <2>3, <2>4, CommonAreas, IdKinds
  <2>6. /\ e.start \in Nat /\ e.size \in Nat /\ End(e) = e.start + e.size /\ Base(f) \in Nat
        /\ Base(f) <= FlashSize /\ FlashSize \in Nat /\ Addr = 0 .. FlashSize - 1
    BY <2>5, EntryIs, BaseIs, Consts DEF End
  <2>7. Only(flash, flash', e.start, End(e)) /\ Blank(flash', e.start, End(e))
    <3>1. End(e) <= FlashSize
      BY <2>5, <2>6
    <3>2. PICK h : h = flash' /\ h = Wiped(flash, e, 0, e.size)
      BY <2>4
    <3>3. Only(flash, h, e.start, End(e)) /\ Blank(h, e.start, End(e))
      BY <2>5, <3>1, <3>2, WipedAll
    <3> QED
      BY <3>2, <3>3
  <2>8. Touch(f)
    BY <2>1, <2>3, <2>4, <2>7 DEF Touch, InData
  <2>9. Busy
    BY <1>2 DEF Busy
  <2>10. s \in SessionType /\ s.t \in Sector /\ s.pkg \in Packages /\ s.open = FALSE /\ s.i = 1
         /\ ent[s.t] = <<>>
    BY <1>1, <1>2, SessionIs DEF Position
  <2>11. /\ s' \in SessionType /\ s'.pc = "prepare" /\ s'.t = s.t /\ s'.start = s.start /\ s'.size = s.size
         /\ s'.pkg = s.pkg /\ s'.open = FALSE /\ s'.i = 1
    <3>1. "prepare" \in Pcs
      BY DEF Pcs
    <3> QED
      BY <2>4, <2>10, <3>1 DEF SessionType
  <2>12. Types' /\ Handles'
    BY <1>1, <1>2, <2>4, <2>10, <2>11 DEF Types, Handles, bootVars
  <2>13. Beside
    BY <1>1, <1>2 DEF Beside, bootVars, Chosen, Filling
  <2>14. Busy' /\ ~ Reading' /\ s'.start \in Nat /\ s.start <= s'.start /\ s'.start <= Hi(f, s.t)
         /\ s'.start + s'.size = Hi(f, s.t)
    <3>1. s.start \in Nat /\ s.start <= Hi(f, s.t) /\ s.start + s.size = Hi(f, s.t)
      BY <1>1, <1>2, <2>9, SessionIs DEF Clear
    <3> QED
      BY <2>11, <3>1 DEF Busy, Reading
  <2>15. Table(f)' /\ Sets(f)' /\ Intact' /\ Chosen' /\ Clear(f)'
    BY <2>8, <2>9, <2>11, <2>13, <2>14, GoesOn
  <2>16. Room(f)' /\ Position' /\ NewSet(f)' /\ OpenEntry'
    BY <1>2, <2>10, <2>11 DEF Room, Position, NewSet, OpenEntry, Placing, Loading
  <2>17. Complete' /\ Partly' /\ ToCopy' /\ Entered'
    BY <2>11 DEF Complete, Partly, ToCopy, Entered, Placing, Loading, Passed
  <2>18. First(ent[active], "fs2")' = e
    BY <1>2, <2>1, <2>3 DEF bootVars
  <2>19. FsErased'
    BY <2>7, <2>18 DEF FsErased
  <2> QED
    BY <2>8, <2>9, <2>12, <2>15, <2>16, <2>17, <2>19 DEF InvOf, Careful
<1> QED
  BY <1>3, <1>4

\* The entries of a sequence.
Entries(q) == {q[k] : k \in DOMAIN q}

LEMMA EntriesJoin ==
  ASSUME NEW p \in Seq(ImageEntry), NEW q \in Seq(ImageEntry)
  PROVE  p \o q \in Seq(ImageEntry) /\ Entries(p \o q) = Entries(p) \cup Entries(q)
<1>1. /\ p \o q \in Seq(ImageEntry) /\ Len(p \o q) = Len(p) + Len(q)
      /\ \A i \in 1 .. Len(p) : (p \o q)[i] = p[i]
      /\ \A i \in Len(p) + 1 .. Len(p) + Len(q) : (p \o q)[i] = q[i - Len(p)]
  BY ConcatProperties
<1>2. PICK r \in Seq(ImageEntry) : r = p \o q
  BY <1>1
<1>3. Len(p) \in Nat /\ Len(q) \in Nat
  OBVIOUS
<1>4. /\ DOMAIN r = 1 .. Len(p) + Len(q) /\ DOMAIN p = 1 .. Len(p) /\ DOMAIN q = 1 .. Len(q)
  BY <1>1, <1>2
<1>5. ASSUME NEW k \in DOMAIN r PROVE r[k] \in Entries(p) \cup Entries(q)
  <2>1. CASE k <= Len(p)
    BY <1>1, <1>2, <1>3, <1>4, <2>1 DEF Entries
  <2>2. CASE ~ (k <= Len(p))
    <3>1. k - Len(p) \in DOMAIN q /\ k \in Len(p) + 1 .. Len(p) + Len(q)
      BY <1>3, <1>4, <2>2
    <3> QED
      BY <1>1, <1>2, <3>1 DEF Entries
  <2> QED
    BY <2>1, <2>2
<1>6. ASSUME NEW k \in DOMAIN p PROVE p[k] \in Entries(r)
  <2>1. k \in DOMAIN r /\ k \in 1 .. Len(p)
    BY <1>3, <1>4
  <2> QED
    BY <1>1, <1>2, <2>1 DEF Entries
<1>7. ASSUME NEW k \in DOMAIN q PROVE q[k] \in Entries(r)
  <2>1. PICK j \in Nat : j = k + Len(p)
    BY <1>3, <1>4
  <2>2. j \in DOMAIN r /\ j \in Len(p) + 1 .. Len(p) + Len(q) /\ j - Len(p) = k
    BY <1>3, <1>4, <2>1
  <2>3. r[j] = q[k]
    BY <1>1, <1>2, <2>2
  <2> QED
    BY <2>2, <2>3 DEF Entries
<1>8. Entries(r) = Entries(p) \cup Entries(q)
  BY <1>5, <1>6, <1>7 DEF Entries
<1> QED
  BY <1>1, <1>2, <1>8

LEMMA EntriesOne ==
  ASSUME NEW e \in ImageEntry
  PROVE  <<e>> \in Seq(ImageEntry) /\ Entries(<<e>>) = {e}
<1>1. PICK q : q = <<e>>
  OBVIOUS
<1>2. q \in Seq(ImageEntry) /\ DOMAIN q = {1} /\ q[1] = e
  BY <1>1
<1> QED
  BY <1>1, <1>2 DEF Entries

LEMMA EntriesNone == <<>> \in Seq(ImageEntry) /\ Entries(<<>>) = {}
BY DEF Entries

\* The entries that are made of the running set's: the file systems exchanged,
\* nothing else moved.
LEMMA PreparedIs ==
  ASSUME NEW f \in Factories, InvOf(f), free > 0, NoFs \/ Found(active, "fs1"), s.pc # "idle"
  PROVE  /\ Prepared \in Seq(ImageEntry)
         /\ \A a, t, open : NewOf(f, t, Prepared, ent[active], a, open)
         /\ \A k \in DOMAIN Prepared : Prepared[k].id \in Commons
<1>1. PICK act : act = ent[active] /\ act \in Seq(ImageEntry) /\ SetOf(f, active, act)
  BY Basics
<1>2. PICK p : p = IF NoFs THEN <<>> ELSE <<[First(act, "fs1") EXCEPT !.id = "fs2", !.len = 0]>>
  OBVIOUS
<1>3. PICK r : r = IF Has(act, "ram") THEN <<First(act, "ram")>> ELSE <<>>
  OBVIOUS
<1>4. PICK u : u = IF Has(act, "usr") THEN <<First(act, "usr")>> ELSE <<>>
  OBVIOUS
<1>5. Prepared = p \o r \o u
  <2>1. Entry(active, "fs1") = First(act, "fs1") /\ Kept("ram") = r /\ Kept("usr") = u
    BY <1>1, <1>3, <1>4, FoundIs DEF Kept
  <2> QED
    BY <1>2, <2>1 DEF Prepared
<1>6. /\ ~ NoFs => Has(act, "fs1") /\ Has(f, "fs2") /\ Has(f, "fs1")
      /\ NoFs => ~ Has(f, "fs2") /\ ~ Has(f, "fs1")
  BY <1>1, FactoryIs, FsKnown
<1>7. /\ p \in Seq(ImageEntry)
      /\ \A e \in Entries(p) : e.id = "fs2" /\ AtPlace(e, First(act, "fs1")) /\ ~ NoFs
      /\ ~ NoFs => \E e \in Entries(p) : e.id = "fs2"
  <2>1. CASE NoFs
    BY <1>2, <2>1, EntriesNone
  <2>2. CASE ~ NoFs
    <3>1. PICK d \in ImageEntry : d = First(act, "fs1")
      BY <1>1, <1>6, <2>2, FirstIs
    <3>2. PICK e : e = [d EXCEPT !.id = "fs2", !.len = 0]
      OBVIOUS
    <3>3. e \in ImageEntry /\ e.id = "fs2" /\ AtPlace(e, d)
      BY <3>2 DEF ImageEntry, Ids, AtPlace
    <3>4. p = <<e>>
      BY <1>2, <2>2, <3>1, <3>2
    <3>5. p \in Seq(ImageEntry) /\ Entries(p) = {e}
      BY <3>3, <3>4, EntriesOne
    <3> QED
      BY <2>2, <3>1, <3>3, <3>5
  <2> QED
    BY <2>1, <2>2
<1>8. ASSUME NEW id \in {"ram", "usr"}, NEW z, z = IF Has(act, id) THEN <<First(act, id)>> ELSE <<>>
      PROVE  /\ z \in Seq(ImageEntry)
             /\ \A e \in Entries(z) : e.id = id /\ AtPlace(e, First(act, id)) /\ Has(act, id)
             /\ Has(act, id) => \E e \in Entries(z) : e.id = id
  <2>1. CASE ~ Has(act, id)
    BY <1>8, <2>1, EntriesNone
  <2>2. CASE Has(act, id)
    <3>1. PICK e \in ImageEntry : e = First(act, id) /\ e.id = id
      BY <1>1, <2>2, FirstIs
    <3>2. z = <<e>>
      BY <1>8, <2>2, <3>1
    <3>3. z \in Seq(ImageEntry) /\ Entries(z) = {e}
      BY <3>2, EntriesOne
    <3> QED
      BY <2>2, <3>1, <3>3 DEF AtPlace
  <2> QED
    BY <2>1, <2>2
<1>9. PICK q \in Seq(ImageEntry) : q = Prepared /\ Entries(q) = Entries(p) \cup Entries(r) \cup Entries(u)
  <2>1. r \in Seq(ImageEntry) /\ u \in Seq(ImageEntry)
    BY <1>3, <1>4, <1>8
  <2>2. PICK pr \in Seq(ImageEntry) : pr = p \o r /\ Entries(pr) = Entries(p) \cup Entries(r)
    BY <1>7, <2>1, EntriesJoin
  <2>3. pr \o u \in Seq(ImageEntry) /\ Entries(pr \o u) = Entries(pr) \cup Entries(u)
    BY <2>1, EntriesJoin
  <2> QED
    BY <1>5, <2>2, <2>3
<1>10. \A e \in Entries(q) :
         /\ e.id \in {"fs2", "ram", "usr"} /\ AtPlace(e, First(act, Swap(e.id))) /\ Has(f, e.id)
  <2>1. \A id \in Commons : Has(act, id) => Has(f, id)
    BY <1>1 DEF SetOf
  <2>2. \A e \in Entries(p) : e.id = "fs2" /\ AtPlace(e, First(act, Swap(e.id))) /\ Has(f, e.id)
    BY <1>6, <1>7 DEF Swap
  <2>3. \A e \in Entries(r) : e.id = "ram" /\ AtPlace(e, First(act, Swap(e.id))) /\ Has(f, e.id)
    BY <1>3, <1>8, <2>1, IdKinds DEF Swap
  <2>4. \A e \in Entries(u) : e.id = "usr" /\ AtPlace(e, First(act, Swap(e.id))) /\ Has(f, e.id)
    BY <1>4, <1>8, <2>1, IdKinds DEF Swap
  <2> QED
    BY <1>9, <2>2, <2>3, <2>4
<1>11. \A k \in DOMAIN q : q[k] \in Entries(q)
  BY DEF Entries
<1>12. ASSUME NEW id \in Commons \ {"fs1"}, Has(f, id) PROVE Has(q, id)
  <2>1. Has(act, id)
    BY <1>1, <1>12 DEF SetOf
  <2>2. \E e \in Entries(q) : e.id = id
    <3>1. CASE id = "fs2"
      BY <1>6, <1>7, <1>9, <1>12, <3>1
    <3>2. CASE id = "ram"
      BY <1>3, <1>8, <1>9, <2>1, <3>2
    <3>3. CASE id = "usr"
      BY <1>4, <1>8, <1>9, <2>1, <3>3
    <3> QED
      BY <3>1, <3>2, <3>3, IdKinds
  <2> QED
    BY <2>2 DEF Has, Entries
<1>13. \A k \in DOMAIN q : q[k].id \in Commons /\ q[k].id \notin Programs
  BY <1>10, <1>11, IdKinds
<1>14. \A a, t, open : NewOf(f, t, q, act, a, open)
  BY <1>10, <1>11, <1>12, <1>13 DEF NewOf
<1> QED
  BY <1>1, <1>9, <1>13, <1>14

LEMMA InvPrepareFs ==
  ASSUME NEW f \in Factories, InvOf(f), Supplied, PrepareFs
  PROVE  InvOf(f)' /\ Careful(f)
<1>1. Types /\ Handles /\ Position /\ Clear(f) /\ Chosen /\ FsErased
  BY DEF InvOf
<1>2. UNCHANGED <<fwd, bootVars>> /\ s.pc = "prepare" /\ Fades
  BY DEF PrepareFs, At, Fades
<1>3. free \in Nat /\ free > 0
  BY <1>1, <1>2 DEF Supplied, Handles
<1>4. CASE Stop /\ UNCHANGED <<ent, flash>>
  <2>1. fwd' \in [Sector -> Fwd]
    BY <1>1, <1>2 DEF Types
  <2> QED
    BY <1>2, <1>4, <2>1, FadeStop DEF Careful
<1>5. CASE ~ (Stop /\ UNCHANGED <<ent, flash>>)
  <2>1. PICK act : act = ent[active] /\ act \in Seq(ImageEntry) /\ SetOf(f, active, act)
    BY Basics
  <2>2. PICK e : e = First(act, "ram")
    OBVIOUS
  <2>3. /\ NoFs \/ Found(active, "fs1")
        /\ ent' = [ent EXCEPT ![s.t] = Prepared] /\ s' = [s EXCEPT !.pc = "config"] /\ free' = free
        /\ \/ Has(act, "ram") /\ flash' = Wiped(flash, e, 0, e.size)
           \/ flash' = flash
    BY <1>3, <1>5, <2>1, <2>2, FoundIs DEF PrepareFs, Go
  <2>4. PICK q \in Seq(ImageEntry) :
          /\ q = Prepared /\ \A a, t, open : NewOf(f, t, q, act, a, open)
          /\ \A k \in DOMAIN q : q[k].id \in Commons
    BY <1>2, <1>3, <2>1, <2>3, PreparedIs
  <2>5. Busy
    BY <1>2 DEF Busy
  <2>6. InTrial(f) \/ InData("ram")
    <3>1. CASE Has(act, "ram") /\ flash' = Wiped(flash, e, 0, e.size)
      <4>1. PICK h : h = flash' /\ h = Wiped(flash, e, 0, e.size)
        BY <3>1
      <4>2. e \in ImageEntry /\ End(e) <= Base(f)
        BY <2>1, <2>2, <3>1, CommonAreas, IdKinds
      <4>3. End(e) <= FlashSize
        BY <4>2, EntryIs, BaseIs, Consts
      <4>4. Only(flash, h, e.start, End(e))
        BY <4>1, <4>2, <4>3, WipedAll
      <4> QED
        BY <2>1, <2>2, <3>1, <4>1, <4>4 DEF InData
    <3>2. CASE flash' = flash
      BY <3>2, OnlyNothing DEF InTrial
    <3> QED
      BY <2>3, <3>1, <3>2
  <2>7. s \in SessionType /\ s.t \in Sector /\ s.pkg \in Packages /\ s.open = FALSE /\ s.i = 1
    BY <1>1, <1>2, SessionIs DEF Position
  <2>8. /\ s' \in SessionType /\ s'.pc = "config" /\ s'.t = s.t /\ s'.start = s.start /\ s'.size = s.size
        /\ s'.pkg = s.pkg /\ s'.open = FALSE /\ s'.i = 1
    <3>1. "config" \in Pcs
      BY DEF Pcs
    <3> QED
      BY <2>3, <2>7, <3>1 DEF SessionType
  <2>9. /\ ent' \in [Sector -> Seq(ImageEntry)] /\ ent'[s.t] = q
        /\ \A j \in Sector \ {s.t} : ent'[j] = ent[j]
    <3>1. ent \in [Sector -> Seq(ImageEntry)] /\ ent' = [ent EXCEPT ![s.t] = q]
      BY <1>1, <2>3, <2>4 DEF Types
    <3> QED
      BY <2>7, <3>1
  <2>10. Types' /\ Handles'
    BY <1>1, <1>2, <2>3, <2>7, <2>8, <2>9 DEF Types, Handles, bootVars
  <2>11. Beside
    BY <1>1, <1>2, <2>9 DEF Beside, bootVars, Chosen, Filling
  <2>12. Busy' /\ ~ Reading' /\ s'.start \in Nat /\ s.start <= s'.start /\ s'.start <= Hi(f, s.t)
         /\ s'.start + s'.size = Hi(f, s.t)
    <3>1. s.start \in Nat /\ s.start <= Hi(f, s.t) /\ s.start + s.size = Hi(f, s.t)
      BY <1>1, <1>2, <2>5, SessionIs DEF Clear
    <3> QED
      BY <2>8, <3>1 DEF Busy, Reading
  <2>13. Table(f)' /\ Sets(f)' /\ Intact' /\ Chosen' /\ Clear(f)'
    BY <2>5, <2>6, <2>8, <2>11, <2>12, GoesOn DEF Touch
  <2>14. Room(f)' /\ Position' /\ OpenEntry'
    BY <2>8 DEF Room, Position, OpenEntry, Loading
  <2>15. active' = active /\ ent'[active'] = act
    BY <1>2, <2>1, <2>5, <2>9, Basics DEF bootVars
  <2>16. NewSet(f)'
    BY <2>4, <2>8, <2>9, <2>15 DEF NewSet
  <2>17. Complete'
    BY <2>4, <2>8, <2>9, IdKinds DEF Complete, AllHeld
  <2>18. Partly' /\ ToCopy' /\ Entered'
    BY <2>8 DEF Partly, ToCopy, Entered, Loading, Passed
  <2>19. FsErased'
    <3>1. SUFFICES ASSUME NEW k \in DOMAIN Images, Images[k].id = "fs1", k >= 1
                   PROVE  Blank(flash', First(act, "fs2").start, End(First(act, "fs2")))
      <4>1. Images' = Images /\ \A k \in DOMAIN Images : k >= 1
        BY <2>7, <2>8, PackageIs DEF Images
      <4> QED
        BY <2>8, <2>15, <3>1, <4>1 DEF FsErased
    <3>2. Has(act, "fs2")
      BY <1>2, <2>1, <3>1, FsKnown
    <3>3. Blank(flash, First(act, "fs2").start, End(First(act, "fs2")))
      <4>1. k \in Nat
        BY <2>7, <3>1, PackageIs DEF Images
      <4>2. k > s.i \/ (k = s.i /\ ~ s.open)
        BY <2>7, <3>1, <4>1
      <4> QED
        BY <1>1, <1>2, <2>1, <3>1, <4>2 DEF FsErased
    <3>4. Same(flash, flash', First(act, "fs2"))
      BY <2>1, <2>5, <2>6, <3>2, FsKept
    <3> QED
      BY <3>3, <3>4, SameBlank
  <2> QED
    BY <2>5, <2>6, <2>10, <2>13, <2>14, <2>16, <2>17, <2>18, <2>19 DEF InvOf, Careful, Touch
<1> QED
  BY <1>4, <1>5

\* The length of the download.
LEMMA TotalIs ==
  ASSUME Types, s.pc # "idle"
  PROVE  Total \in Nat
<1>1. PICK p \in Packages : p = s.pkg
  BY SessionIs
<1>2. PICK n \in Nat : n = Len(p.images) /\ DOMAIN p.images = 1 .. n
  BY PackageIs
<1>3. \A k \in 1 .. n : p.images[k].len \in Nat
  BY <1>2, PackageIs DEF Image
<1>4. PICK w : w = [k \in 1 .. n |-> p.images[k].len]
  OBVIOUS
<1>5. w \in [1 .. n -> Nat]
  BY <1>3, <1>4
<1>6. w \in Seq(Nat) /\ Len(w) = n
  BY <1>5
<1>7. Sums(w) \in [0 .. Len(w) -> Nat]
  BY <1>6, SumsIs
<1>8. Total = Sums(w)[n]
  BY <1>1, <1>2, <1>4 DEF Total, Images
<1> QED
  BY <1>6, <1>7, <1>8

\* The images that fit, fit into the area.
LEMMA FitsIs ==
  ASSUME Types, s.pc # "idle", Fits
  PROVE  NeedOf(s.pkg, DOMAIN Images)[Len(Images)] <= s.size
<1>1. PICK p \in Packages : p = s.pkg
  BY SessionIs
<1>2. PICK n \in Nat : n = NeedOf(p, DOMAIN p.images)[Len(p.images)] /\ n < Word
  <2>1. NeedOf(p, DOMAIN p.images) \in [0 .. Len(p.images) -> Nat] /\ Len(p.images) \in Nat
    BY NeedIs, PackageIs
  <2> QED
    BY <2>1, NeedBound
<1>3. Need(DOMAIN Images)[Len(Images)] = n
  BY <1>1, <1>2 DEF Need, NeedOf, Sizes, Images
<1>4. n % Word <= s.size
  BY <1>3 DEF Fits
<1>5. Word \in Nat \ {0} /\ s.size \in Nat
  BY Consts, SessionIs
<1>6. n % Word = n
  BY <1>2, <1>5, Remainder
<1> QED
  BY <1>1, <1>2, <1>4, <1>5, <1>6 DEF Images

\* What need not be downloaded can be copied.
LEMMA SameIs ==
  ASSUME Types, s.pc # "idle", NEW k \in DOMAIN Images, SameAsActive(Images[k])
  PROVE  CanCopy(flash, ent[active], Images[k])
<1>1. PICK p \in Packages : p = s.pkg
  BY SessionIs
<1>2. PICK g : g = Images[k]
  OBVIOUS
<1>3. g.len \in Nat /\ Disk(g) \in Nat /\ g.len <= Disk(g)
  BY <1>1, <1>2, ImageIs DEF Images, Image
<1>4. PICK e : e = First(ent[active], g.id)
  OBVIOUS
<1>5. /\ g.id \in Programs /\ Has(ent[active], g.id) /\ e.size = Disk(g)
      /\ \A o \in 0 .. e.size - 1 : flash[e.start + o] = IF o < g.len THEN <<g.id, g.ver, o>> ELSE Erased
  BY <1>2, <1>4, FoundIs DEF SameAsActive, InArea
<1>6. ASSUME NEW o \in 0 .. g.len - 1 PROVE flash[e.start + o] = <<g.id, g.ver, o>>
  <2>1. o \in 0 .. e.size - 1 /\ o < g.len
    BY <1>3, <1>5, <1>6
  <2> QED
    BY <1>5, <2>1
<1> QED
  BY <1>2, <1>4, <1>5, <1>6 DEF CanCopy

LEMMA InvConfig ==
  ASSUME NEW f \in Factories, InvOf(f), Config
  PROVE  InvOf(f)'
<1>1. Types /\ Handles /\ Position /\ Clear(f) /\ Chosen /\ FsErased /\ NewSet(f) /\ Complete
  BY DEF InvOf
<1>2. /\ UNCHANGED <<ent, flash, bootVars>> /\ s.pc = "config"
      /\ fwd' = [fwd EXCEPT ![s.t].magic = TRUE, ![s.t].images = TRUE]
  BY DEF Config, At
<1>3. s \in SessionType /\ s.t \in Sector /\ s.pkg \in Packages /\ s.open = FALSE /\ s.i = 1
  BY <1>1, <1>2, SessionIs DEF Position
<1>4. fwd \in [Sector -> Fwd]
  BY <1>1 DEF Types
<1>5. fwd' \in [Sector -> Fwd] /\ Fades /\ fwd'[s.t].magic /\ fwd'[s.t].images
      /\ fwd'[s.t].status = fwd[s.t].status /\ \A j \in Sector \ {s.t} : fwd'[j] = fwd[j]
  <2>1. PICK v \in Fwd : v = fwd[s.t]
    BY <1>3, <1>4
  <2>2. PICK w : w = [v EXCEPT !.magic = TRUE, !.images = TRUE]
    OBVIOUS
  <2>3. w \in Fwd /\ w.magic /\ w.images /\ w.status = v.status
    BY <2>2 DEF Fwd
  <2>4. fwd' = [fwd EXCEPT ![s.t] = w]
    BY <1>2, <1>3, <1>4, <2>1, <2>2
  <2>5. fwd' \in [Sector -> Fwd] /\ fwd'[s.t] = w /\ \A j \in Sector \ {s.t} : fwd'[j] = fwd[j]
    BY <1>3, <1>4, <2>3, <2>4
  <2>6. Fades
    BY <2>1, <2>3, <2>5 DEF Fades
  <2> QED
    BY <2>1, <2>3, <2>5, <2>6
<1>6. CASE Stop
  BY <1>2, <1>5, <1>6, FadeStop
<1>7. CASE ~ Stop
  <2>1. Fits /\ free' = free
    BY <1>7 DEF Config
  <2>2. PICK p \in Packages : p = s.pkg
    BY <1>3
  <2>3. PICK n \in Nat \ {0} : n = Len(p.images) /\ DOMAIN p.images = 1 .. n
    BY PackageIs
  <2>4. Images = p.images
    BY <2>2 DEF Images
  <2>5. /\ s' \in SessionType /\ s'.pc \in {"recv", "image", "connect"} /\ s'.t = s.t
        /\ s'.start = s.start /\ s'.pkg = p /\ s'.open = FALSE /\ s'.i = 1 /\ s'.dup = s.dup
        /\ s'.dl \subseteq 1 .. n
        /\ p.fmt = "all" => s'.dl = 1 .. n /\ s'.pc # "connect"
        /\ s'.pc \in {"recv", "image"} => 1 \in s'.dl
        /\ s'.pc = "image" => s'.buf > 0
        /\ \A k \in 1 .. n : k \notin s'.dl => CanCopy(flash, ent[active], p.images[k])
    <3>1. CASE p.fmt = "all"
      <4>1. PICK b \in 0 .. Min({MaxChunk, Total}) :
              s' = [s EXCEPT !.pc = IF b = 0 THEN "recv" ELSE "image", !.buf = b,
                             !.left = Total - b, !.dl = 1 .. n]
        BY <1>7, <2>2, <2>3, <2>4, <3>1 DEF Config
      <4>2. b \in Nat /\ b <= MaxChunk /\ b <= Total /\ Total \in Nat /\ MaxChunk \in Nat
        <5>1. PICK x \in Nat : x = Total
          BY <1>1, <1>2, TotalIs
        <5>2. PICK c \in Nat : c = MaxChunk
          BY Consts
        <5>3. Min({c, x}) \in {c, x} /\ Min({c, x}) <= c /\ Min({c, x}) <= x
          <6>1. {c, x} \in SUBSET Nat /\ {c, x} # {}
            OBVIOUS
          <6> QED
            BY <6>1, MinIs
        <5> QED
          BY <4>1, <5>1, <5>2, <5>3
      <4>3. Total - b \in Nat /\ b \in 0 .. MaxChunk /\ 1 .. n \in SUBSET Nat
        BY <4>2
      <4>4. PICK pc \in {"recv", "image"} : pc = (IF b = 0 THEN "recv" ELSE "image") /\ pc \in Pcs
        BY DEF Pcs
      <4>5. PICK left \in Nat : left = Total - b
        BY <4>3
      <4>6. s' = [s EXCEPT !.pc = pc, !.buf = b, !.left = left, !.dl = 1 .. n]
        BY <4>1, <4>4, <4>5
      <4>7. /\ s' \in SessionType /\ s'.pc = pc /\ s'.t = s.t /\ s'.start = s.start /\ s'.pkg = s.pkg
            /\ s'.open = s.open /\ s'.i = s.i /\ s'.dup = s.dup /\ s'.dl = 1 .. n /\ s'.buf = b
        BY <1>3, <4>3, <4>4, <4>5, <4>6 DEF SessionType
      <4>8. pc = "image" => b > 0
        BY <4>2, <4>4
      <4> QED
        BY <1>3, <2>2, <2>3, <4>4, <4>7, <4>8
    <3>2. CASE p.fmt # "all"
      <4>1. PICK D : D = {k \in 1 .. n : ~ SameAsActive(p.images[k])}
        OBVIOUS
      <4>2. s' = [s EXCEPT !.pc = "connect", !.dl = D]
        BY <1>7, <2>2, <2>3, <2>4, <3>2, <4>1 DEF Config
      <4>3. D \in SUBSET Nat /\ D \subseteq 1 .. n /\ "connect" \in Pcs
        BY <4>1 DEF Pcs
      <4>4. /\ s' \in SessionType /\ s'.pc = "connect" /\ s'.t = s.t /\ s'.start = s.start /\ s'.pkg = s.pkg
            /\ s'.open = s.open /\ s'.i = s.i /\ s'.dup = s.dup /\ s'.dl = D
        BY <1>3, <4>2, <4>3 DEF SessionType
      <4>5. \A k \in 1 .. n : k \notin D => CanCopy(flash, ent[active], p.images[k])
        BY <1>1, <1>2, <2>3, <2>4, <4>1, SameIs
      <4> QED
        BY <1>3, <2>2, <3>2, <4>3, <4>4, <4>5
    <3> QED
      BY <3>1, <3>2
  <2>6. Types' /\ Handles'
    <3>1. Types'
      BY <1>1, <1>2, <1>5, <2>5 DEF Types, bootVars
    <3> QED
      BY <1>1, <1>3, <2>1, <2>5, <3>1 DEF Handles
  <2>7. Busy /\ Busy' /\ Loading' /\ Images' = p.images
    BY <1>2, <2>5 DEF Busy, Loading, Images
  <2>8. Beside
    BY <1>1, <1>2, <1>5 DEF Beside, bootVars, Chosen, Filling
  <2>9. InTrial(f)
    BY <1>2, OnlyNothing DEF InTrial
  <2>10. s.start \in Nat /\ s.start <= Hi(f, s.t) /\ s.start + s.size = Hi(f, s.t) /\ s.size \in Nat
    BY <1>1, <1>2, <2>7, SessionIs DEF Clear
  <2>11. Table(f)' /\ Sets(f)' /\ Intact' /\ Chosen' /\ Clear(f)'
    <3>1. s'.pc \notin {"erase", "fs2", "prepare", "config"}
      BY <2>5
    <3>2. s'.start \in Nat /\ s.start <= s'.start /\ s'.start <= Hi(f, s.t)
      BY <2>5, <2>10
    <3> QED
      BY <1>5, <2>5, <2>7, <2>8, <2>9, <3>1, <3>2, GoesOn DEF Touch
  <2>12. Room(f)'
    <3>1. PICK g : g = NeedOf(p, 1 .. n) /\ g \in [0 .. n -> Nat]
      BY <2>3, NeedIs
    <3>2. PICK h : h = NeedOf(p, s'.dl) /\ h[0] = 0
      BY NeedIs
    <3>3. g[n] <= s.size /\ g[n] \in Nat
      BY <1>1, <1>2, <2>1, <2>2, <2>3, <2>4, <3>1, FitsIs
    <3>4. s.start + g[n] <= Hi(f, s.t) + h[0]
      BY <2>10, <3>2, <3>3
    <3>5. s'.start + g[n] <= Hi(f, s'.t) + h[s'.i - 1]
      BY <2>5, <3>4
    <3> QED
      BY <2>3, <2>5, <2>7, <3>1, <3>2, <3>5 DEF Room
  <2>13. Position'
    BY <2>3, <2>5, <2>7 DEF Position
  <2>14. NewSet(f)' /\ OpenEntry' /\ Complete' /\ Partly'
    <3>1. Placing
      BY <1>2 DEF Placing
    <3> QED
      BY <1>1, <1>2, <1>3, <2>5, <3>1 DEF NewSet, OpenEntry, Complete, Partly, bootVars
  <2>15. FsErased'
    <3>1. \A k \in 1 .. n : p.images[k].id = "fs1" /\ k >= 1 =>
            Blank(flash, First(ent[active], "fs2").start, End(First(ent[active], "fs2")))
      BY <1>1, <1>2, <1>3, <2>3, <2>4 DEF FsErased
    <3> QED
      BY <1>2, <2>3, <2>5, <2>7, <3>1 DEF FsErased, bootVars
  <2>16. ToCopy'
    BY <1>2, <2>3, <2>5, <2>7 DEF ToCopy, bootVars
  <2>17. Entered'
    <3>1. \A k \in 1 .. n : ~ Passed(k)'
      BY <2>5 DEF Passed
    <3> QED
      BY <2>3, <2>7, <3>1 DEF Entered
  <2> QED
    BY <2>6, <2>11, <2>12, <2>13, <2>14, <2>15, <2>16, <2>17 DEF InvOf
<1> QED
  BY <1>6, <1>7

-----------------------------------------------------------------------------
(* The entries of the new set, and what they hold.                         *)

LEMMA Appended ==
  ASSUME NEW q \in Seq(ImageEntry), NEW e \in ImageEntry
  PROVE  \E r \in Seq(ImageEntry) :
           /\ r = Append(q, e) /\ r # <<>> /\ Len(r) = Len(q) + 1 /\ Len(q) \in Nat
           /\ DOMAIN r = 1 .. Len(r) /\ DOMAIN q = 1 .. Len(q) /\ r[Len(r)] = e
           /\ Len(r) \in DOMAIN r
           /\ \A k \in DOMAIN q : k \in DOMAIN r /\ r[k] = q[k] /\ k # Len(r)
           /\ \A k \in DOMAIN r : k = Len(r) \/ k \in DOMAIN q
<1>1. PICK r \in Seq(ImageEntry) : r = Append(q, e) /\ r # <<>> /\ Len(r) = Len(q) + 1
          /\ (\A i \in 1 .. Len(q) : r[i] = q[i]) /\ r[Len(q) + 1] = e
  BY AppendProperties
<1>2. Len(q) \in Nat /\ DOMAIN r = 1 .. Len(r) /\ DOMAIN q = 1 .. Len(q)
  OBVIOUS
<1>3. Len(r) \in DOMAIN r
  BY <1>1, <1>2
<1>4. \A k \in DOMAIN q : k \in DOMAIN r /\ r[k] = q[k] /\ k # Len(r)
  BY <1>1, <1>2
<1>5. \A k \in DOMAIN r : k = Len(r) \/ k \in DOMAIN q
  BY <1>1, <1>2
<1> QED
  BY <1>1, <1>2, <1>4, <1>5, <1>3

LEMMA NewOfAppend ==
  ASSUME NEW f, NEW t, NEW q \in Seq(ImageEntry), NEW e \in ImageEntry, NEW act, NEW a \in Nat, NEW b \in Nat,
         NEW open \in BOOLEAN, NewOf(f, t, q, act, a, FALSE), a <= b,
         e.id \in Commons => /\ Has(f, e.id) /\ AtPlace(e, First(act, Swap(e.id)))
                             /\ e.id = "fs1" => e.len <= e.size,
         e.id \in Programs => Lo(f, t) <= e.start /\ e.len <= e.size /\ (open \/ End(e) <= b)
  PROVE  NewOf(f, t, Append(q, e), act, b, open)
<1>1. PICK r \in Seq(ImageEntry) :
           /\ r = Append(q, e) /\ DOMAIN r = 1 .. Len(r) /\ r[Len(r)] = e
           /\ \A k \in DOMAIN q : k \in DOMAIN r /\ r[k] = q[k] /\ k # Len(r)
           /\ \A k \in DOMAIN r : k = Len(r) \/ k \in DOMAIN q
  BY Appended
<1>2. ASSUME NEW k \in DOMAIN r, r[k].id \in Commons
      PROVE  /\ Has(f, r[k].id) /\ AtPlace(r[k], First(act, Swap(r[k].id)))
             /\ r[k].id = "fs1" => r[k].len <= r[k].size
  <2>1. CASE k = Len(r)
    BY <1>1, <1>2, <2>1
  <2>2. CASE k \in DOMAIN q
    BY <1>1, <1>2, <2>2 DEF NewOf
  <2> QED
    BY <1>1, <2>1, <2>2
<1>3. ASSUME NEW id \in Commons \ {"fs1"}, Has(f, id) PROVE Has(r, id)
  BY <1>1, <1>3 DEF NewOf, Has
<1>4. ASSUME NEW k \in DOMAIN r, r[k].id \in Programs
      PROVE  /\ Lo(f, t) <= r[k].start /\ r[k].len <= r[k].size
             /\ ~ (open /\ k = Len(r)) => End(r[k]) <= b
  <2>1. CASE k = Len(r)
    BY <1>1, <1>4, <2>1
  <2>2. CASE k \in DOMAIN q
    <3>1. Lo(f, t) <= q[k].start /\ q[k].len <= q[k].size /\ End(q[k]) <= a
      BY <1>1, <1>4, <2>2 DEF NewOf
    <3>2. End(q[k]) \in Nat
      BY <2>2, EntryIs
    <3> QED
      BY <1>1, <2>2, <3>1, <3>2
  <2> QED
    BY <1>1, <2>1, <2>2
<1>5. NewOf(f, t, r, act, b, open)
  BY <1>2, <1>3, <1>4 DEF NewOf
<1> QED
  BY <1>1, <1>5

LEMMA NewOfClose ==
  ASSUME NEW f, NEW t, NEW q \in Seq(ImageEntry), NEW act, NEW a \in Nat, NEW b \in Nat,
         NEW open \in BOOLEAN, NewOf(f, t, q, act, a, open), a <= b,
         open /\ q # <<>> /\ q[Len(q)].id \in Programs => End(q[Len(q)]) <= b
  PROVE  NewOf(f, t, q, act, b, FALSE)
<1>1. ASSUME NEW k \in DOMAIN q, q[k].id \in Programs PROVE End(q[k]) <= b
  <2>1. CASE open /\ k = Len(q)
    BY <1>1, <2>1
  <2>2. CASE ~ (open /\ k = Len(q))
    <3>1. End(q[k]) <= a /\ End(q[k]) \in Nat
      BY <1>1, <2>2, EntryIs DEF NewOf
    <3> QED
      BY <3>1
  <2> QED
    BY <2>1, <2>2
<1> QED
  BY <1>1 DEF NewOf

LEMMA AllHeldAppend ==
  ASSUME NEW h, NEW q \in Seq(ImageEntry), NEW e \in ImageEntry, NEW open \in BOOLEAN,
         \A k \in DOMAIN q : q[k].id \in Programs => Keeps(h, q[k]),
         e.id \in Programs /\ ~ open => Keeps(h, e)
  PROVE  AllHeld(h, Append(q, e), open)
<1>1. PICK r \in Seq(ImageEntry) :
           /\ r = Append(q, e) /\ DOMAIN r = 1 .. Len(r) /\ r[Len(r)] = e
           /\ \A k \in DOMAIN q : k \in DOMAIN r /\ r[k] = q[k] /\ k # Len(r)
           /\ \A k \in DOMAIN r : k = Len(r) \/ k \in DOMAIN q
  BY Appended
<1>2. AllHeld(h, r, open)
  BY <1>1 DEF AllHeld
<1> QED
  BY <1>1, <1>2

LEMMA InEntryAppend ==
  ASSUME NEW h, NEW q \in Seq(ImageEntry), NEW e \in ImageEntry, NEW g, NEW dup,
         \/ InEntry(h, q, g, dup)
         \/ e.id = g.id /\ e.ver = g.ver /\ ((e.id = "fs1" /\ ~ dup) => Contains(h, e))
  PROVE  InEntry(h, Append(q, e), g, dup)
<1>1. PICK r \in Seq(ImageEntry) :
           /\ r = Append(q, e) /\ DOMAIN r = 1 .. Len(r) /\ r[Len(r)] = e /\ Len(r) \in DOMAIN r
           /\ \A k \in DOMAIN q : k \in DOMAIN r /\ r[k] = q[k] /\ k # Len(r)
           /\ \A k \in DOMAIN r : k = Len(r) \/ k \in DOMAIN q
  BY Appended
<1>2. InEntry(h, r, g, dup)
  <2>1. CASE InEntry(h, q, g, dup)
    <3>1. PICK j \in DOMAIN q : q[j].id = g.id /\ q[j].ver = g.ver
                                /\ ((q[j].id = "fs1" /\ ~ dup) => Contains(h, q[j]))
      BY <2>1 DEF InEntry
    <3>2. j \in DOMAIN r /\ r[j] = q[j]
      BY <1>1
    <3> QED
      BY <3>1, <3>2 DEF InEntry
  <2>2. CASE e.id = g.id /\ e.ver = g.ver /\ ((e.id = "fs1" /\ ~ dup) => Contains(h, e))
    BY <1>1, <2>2 DEF InEntry
  <2> QED
    BY <2>1, <2>2
<1> QED
  BY <1>1, <1>2

\* What of the new set a step leaves alone: the programs that are complete, if
\* it writes behind them or to the second file system ...
LEMMA ProgramsKept ==
  ASSUME NEW f \in Factories, InvOf(f), Placing, InTrial(f) \/ InData("fs2"),
         NEW k \in DOMAIN ent[s.t], ent[s.t][k].id \in Programs, ~ (s.open /\ k = Len(ent[s.t]))
  PROVE  Keeps(flash', ent[s.t][k])
<1>1. Busy
  BY DEF Placing, Busy
<1>2. /\ s.t \in Sector /\ s.start \in Nat /\ Base(f) \in Nat /\ Lo(f, s.t) \in Nat /\ Hi(f, s.t) \in Nat
      /\ Base(f) <= Lo(f, s.t) /\ s.start <= Hi(f, s.t) /\ Hi(f, s.t) <= FlashSize /\ FlashSize \in Nat
  BY <1>1, Basics, Consts
<1>3. PICK q \in Seq(ImageEntry) : q = ent[s.t]
  BY <1>2, Basics
<1>4. PICK e \in ImageEntry : e = q[k]
  BY <1>3
<1>5. Lo(f, s.t) <= e.start /\ e.len <= e.size /\ End(e) <= s.start
  <2>1. NewOf(f, s.t, q, ent[active], s.start, s.open)
    BY <1>3 DEF InvOf, NewSet
  <2> QED
    BY <1>3, <1>4, <2>1 DEF NewOf
<1>6. Keeps(flash, e)
  <2>1. AllHeld(flash, q, s.open)
    BY <1>3 DEF InvOf, Complete
  <2> QED
    BY <1>3, <1>4, <2>1 DEF AllHeld
<1>7. e.start \in Nat /\ End(e) \in Nat /\ End(e) <= FlashSize
  BY <1>2, <1>5, EntryIs
<1>8. CASE InTrial(f)
  <2>1. Only(flash, flash', s.start, Hi(f, s.t))
    BY <1>8 DEF InTrial
  <2>2. PICK h : h = flash'
    OBVIOUS
  <2>3. Same(flash, h, e)
    BY <1>2, <1>5, <1>7, <2>1, <2>2, OnlyElsewhere
  <2>4. Keeps(h, e)
    BY <1>5, <1>6, <2>3, SameKeeps
  <2> QED
    BY <1>3, <1>4, <2>2, <2>4
<1>9. CASE InData("fs2")
  <2>1. PICK act : act = ent[active] /\ act \in Seq(ImageEntry) /\ SetOf(f, active, act)
    BY Basics
  <2>2. PICK c : c = First(act, "fs2") /\ Has(act, "fs2") /\ Only(flash, flash', c.start, End(c))
    BY <1>9, <2>1 DEF InData
  <2>3. c.start \in Nat /\ End(c) \in Nat /\ End(c) <= Base(f)
    BY <2>1, <2>2, CommonAreas, EntryIs, IdKinds
  <2>4. End(c) <= e.start
    BY <1>2, <1>5, <1>7, <2>3
  <2>5. PICK h : h = flash'
    OBVIOUS
  <2>6. Same(flash, h, e)
    BY <1>7, <2>2, <2>3, <2>4, <2>5, OnlyElsewhere
  <2>7. Keeps(h, e)
    BY <1>5, <1>6, <2>6, SameKeeps
  <2> QED
    BY <1>3, <1>4, <2>5, <2>7
<1> QED
  BY <1>8, <1>9

\* ... the file system, if it writes to the area of the programs ...
LEMMA EnteredKept ==
  ASSUME NEW f \in Factories, InvOf(f), Placing, NEW g, InEntry(flash, ent[s.t], g, s.dup),
         InTrial(f) \/ g.id # "fs1" \/ s.dup
  PROVE  InEntry(flash', ent[s.t], g, s.dup)
<1>1. Busy /\ s.pc # "idle"
  BY DEF Placing, Busy
<1>2. s.t \in Sector /\ FlashSize \in Nat
  BY <1>1, Basics, Consts
<1>3. PICK q \in Seq(ImageEntry) : q = ent[s.t]
  BY <1>2, Basics
<1>4. PICK j \in DOMAIN q : q[j].id = g.id /\ q[j].ver = g.ver
                            /\ ((q[j].id = "fs1" /\ ~ s.dup) => Contains(flash, q[j]))
  BY <1>3 DEF InEntry
<1>5. CASE g.id # "fs1" \/ s.dup
  BY <1>3, <1>4, <1>5 DEF InEntry
<1>6. CASE InTrial(f) /\ g.id = "fs1" /\ ~ s.dup
  <2>1. PICK act : act = ent[active] /\ act \in Seq(ImageEntry) /\ SetOf(f, active, act)
    BY Basics
  <2>2. NewOf(f, s.t, q, act, s.start, s.open)
    BY <1>3, <2>1 DEF InvOf, NewSet
  <2>3. PICK e \in ImageEntry : e = q[j]
    OBVIOUS
  <2>4. Has(f, "fs1") /\ AtPlace(e, First(act, "fs2")) /\ e.len <= e.size
    <3>1. Swap("fs1") = "fs2" /\ "fs1" \in Commons
      BY IdKinds DEF Swap
    <3>2. e.id = "fs1"
      BY <1>4, <1>6, <2>3
    <3> QED
      BY <2>2, <2>3, <3>1, <3>2 DEF NewOf
  <2>5. Has(act, "fs2")
    BY <1>1, <2>1, <2>4, FsKnown
  <2>6. Same(flash, flash', First(act, "fs2"))
    BY <1>1, <1>6, <2>1, <2>5, FsKept
  <2>7. PICK h : h = flash'
    OBVIOUS
  <2>8. Same(flash, h, e)
    BY <2>4, <2>6, <2>7, SamePlace DEF Same, Units
  <2>9. Contains(flash, e)
    BY <1>4, <1>6, <2>3
  <2>10. Contains(h, e)
    BY <2>4, <2>8, <2>9, SameContains
  <2> QED
    BY <1>3, <1>4, <2>3, <2>7, <2>10 DEF InEntry
<1> QED
  BY <1>5, <1>6

\* ... and what is still to be copied.
LEMMA CopyKept ==
  ASSUME NEW f \in Factories, InvOf(f), Loading \/ s.pc = "dupimages", Touch(f),
         NEW k \in DOMAIN Images \ s.dl
  PROVE  CanCopy(flash', ent[active], Images[k]) /\ CanCopy(flash, ent[active], Images[k])
<1>1. Busy /\ s.pc # "idle"
  BY DEF Loading, Busy
<1>2. PICK g : g = Images[k] /\ CanCopy(flash, ent[active], g)
  BY DEF InvOf, ToCopy
<1>3. g.len \in Nat /\ Disk(g) \in Nat /\ g.len <= Disk(g)
  <2>1. PICK p \in Packages : p = s.pkg
    BY <1>1, SessionIs DEF InvOf
  <2> QED
    BY <1>2, <2>1, ImageIs DEF Images, Image
<1>4. PICK act : act = ent[active] /\ act \in Seq(ImageEntry)
  BY Basics
<1>5. PICK e \in ImageEntry : e = First(act, g.id) /\ e.id = g.id /\ \E j \in DOMAIN act : e = act[j]
  BY <1>2, <1>4, FirstIs DEF CanCopy
<1>6. /\ g.id \in Programs /\ Has(act, g.id) /\ e.size = Disk(g)
      /\ \A o \in 0 .. g.len - 1 : flash[e.start + o] = <<g.id, g.ver, o>>
  BY <1>2, <1>4, <1>5 DEF CanCopy
<1>7. PICK h : h = flash'
  OBVIOUS
<1>8. Same(flash, h, e)
  <2>1. active \in Sector \ {s.t} /\ Whole(active)
    BY <1>1, Basics
  <2> QED
    BY <1>1, <1>4, <1>5, <1>6, <1>7, <2>1, TouchKeeps
<1>9. ASSUME NEW o \in 0 .. g.len - 1 PROVE h[e.start + o] = <<g.id, g.ver, o>>
  <2>1. e.start \in Nat /\ End(e) = e.start + e.size
    BY EntryIs DEF End
  <2>2. e.start + o \in e.start .. End(e) - 1
    BY <1>3, <1>6, <1>9, <2>1
  <2>3. h[e.start + o] = flash[e.start + o]
    BY <1>8, <2>2 DEF Same, Units
  <2> QED
    BY <1>6, <2>3
<1>10. CanCopy(h, act, g)
  BY <1>5, <1>6, <1>9 DEF CanCopy
<1> QED
  BY <1>2, <1>4, <1>7, <1>10

-----------------------------------------------------------------------------
(* The download: its room, and the entries it makes.                       *)

\* Where the next image goes.
NextStart == IF InArea(Img) THEN s.start + Disk(Img) ELSE s.start

\* The image that is being downloaded fits into what is left of the area, and
\* those that follow into what it leaves.
LEMMA RoomForOne ==
  ASSUME NEW f \in Factories, InvOf(f), s.pc \in {"recv", "image"},
         NEW a, a = NextStart
  PROVE  /\ a \in Nat /\ s.start <= a /\ a <= Hi(f, s.t)
         /\ a + NeedOf(s.pkg, DOMAIN Images)[Len(Images)] <= Hi(f, s.t) + NeedOf(s.pkg, s.dl)[s.i]
<1>1. Types /\ Position /\ Room(f)
  BY DEF InvOf
<1>2. Busy /\ Loading
  BY DEF Busy, Loading
<1>3. PICK p \in Packages : p = s.pkg /\ Images = p.images
  BY <1>1, ImageAt
<1>4. PICK n \in Nat : n = Len(p.images) /\ DOMAIN p.images = 1 .. n
  BY PackageIs
<1>5. PICK i \in 1 .. n : i = s.i /\ i \in s.dl
  BY <1>1, <1>3, <1>4, ImageAt
<1>6. PICK D \in SUBSET (1 .. n) : D = s.dl
  BY <1>1, <1>2, <1>3, <1>4 DEF Position
<1>7. PICK v : v = NeedOf(p, 1 .. n)
  OBVIOUS
<1>8. PICK w : w = NeedOf(p, D)
  OBVIOUS
<1>9. PICK x : x = NeedOf(p, (1 .. n) \ D)
  OBVIOUS
<1>10. v[n] = w[n] + x[n]
  BY <1>4, <1>7, <1>8, <1>9, NeedSplit
<1>11. /\ v[n] \in Nat /\ x[n] \in Nat
  BY <1>4, <1>7, <1>9, NeedIs
<1>12. /\ w[n] \in Nat /\ w[i] \in Nat /\ w[i - 1] \in Nat /\ w[i] <= w[n]
       /\ w[i] = w[i - 1] + (IF i \in D /\ InArea(p.images[i]) THEN Disk(p.images[i]) ELSE 0)
  <2>1. i \in 0 .. n /\ n \in 0 .. n /\ i - 1 \in 0 .. n /\ i <= n
    BY <1>4, <1>5
  <2>2. /\ w \in [0 .. n -> Nat]
        /\ \A a1, b1 \in 0 .. n : a1 <= b1 => w[a1] <= w[b1]
        /\ \A m \in 1 .. n :
             w[m] = w[m - 1] + (IF m \in D /\ InArea(p.images[m]) THEN Disk(p.images[m]) ELSE 0)
    BY <1>4, <1>8, NeedIs
  <2> QED
    BY <2>1, <2>2
<1>13. PICK d \in Nat : d = IF InArea(Img) THEN Disk(Img) ELSE 0
  BY <1>1, ImageAt
<1>14. w[i] = w[i - 1] + d
  BY <1>3, <1>5, <1>6, <1>12, <1>13 DEF Img
<1>15. PICK y \in Nat : y = s.start
  BY <1>2, Basics
<1>16. PICK z \in Nat : z = Hi(f, s.t)
  BY <1>2, Basics
<1>17. y + v[n] <= z + w[i - 1]
  BY <1>1, <1>2, <1>3, <1>4, <1>5, <1>6, <1>7, <1>8, <1>15, <1>16 DEF Room
<1>18. a = y + d
  BY <1>13, <1>15 DEF NextStart
<1>19. a \in Nat /\ y <= a /\ a <= z /\ a + v[n] <= z + w[i]
  BY <1>10, <1>11, <1>12, <1>14, <1>17, <1>18
<1> QED
  BY <1>3, <1>4, <1>5, <1>6, <1>7, <1>8, <1>15, <1>16, <1>19

\* A new entry e joins those of the new set.
LEMMA Enters ==
  ASSUME NEW f \in Factories, InvOf(f), Placing, s.open = FALSE, InTrial(f), Beside,
         NEW e \in ImageEntry, Create(s.t, e), NEW a \in Nat, s.start <= a, NEW open \in BOOLEAN,
         e.id \in Programs \cup {"fs1", "sbl"},
         e.id = "fs1" => /\ Has(f, "fs1") /\ AtPlace(e, First(ent[active], "fs2"))
                         /\ e.len <= e.size,
         e.id \in Programs => /\ Lo(f, s.t) <= e.start /\ e.len <= e.size
                              /\ open \/ (End(e) <= a /\ Keeps(flash', e))
  PROVE  /\ NewOf(f, s.t, ent'[s.t], ent'[active], a, open)
         /\ AllHeld(flash', ent'[s.t], open)
         /\ ent' \in [Sector -> Seq(ImageEntry)]
         /\ ent'[s.t] # <<>> /\ ent'[s.t][Len(ent'[s.t])] = e /\ ent'[active] = ent[active]
         /\ \A g : \/ InEntry(flash, ent[s.t], g, s.dup)
                   \/ /\ e.id = g.id /\ e.ver = g.ver
                      /\ (e.id = "fs1" /\ ~ s.dup) => Contains(flash', e)
              => InEntry(flash', ent'[s.t], g, s.dup)
<1>1. Busy
  BY DEF Placing, Busy
<1>2. Types /\ s.t \in Sector /\ active \in Sector /\ s.t # active /\ s.start \in Nat
  BY <1>1, Basics DEF InvOf
<1>3. /\ ent' \in [Sector -> Seq(ImageEntry)] /\ ent'[s.t] = Append(ent[s.t], e)
      /\ \A j \in Sector \ {s.t} : ent'[j] = ent[j]
  BY <1>2, CreateIs
<1>4. PICK q \in Seq(ImageEntry) : q = ent[s.t]
  BY <1>2, Basics
<1>5. PICK act : act = ent[active] /\ ent'[active] = act
  BY <1>2, <1>3
<1>6. PICK h : h = flash'
  OBVIOUS
<1>7. NewOf(f, s.t, q, act, s.start, FALSE)
  BY <1>4, <1>5 DEF InvOf, NewSet
<1>8. PICK r : r = Append(q, e) /\ r = ent'[s.t] /\ r # <<>> /\ r[Len(r)] = e
  <2>1. PICK r \in Seq(ImageEntry) : r = Append(q, e) /\ r # <<>> /\ r[Len(r)] = e
    BY Appended
  <2> QED
    BY <1>3, <1>4, <2>1
<1>9. NewOf(f, s.t, Append(q, e), act, a, open)
  <2>1. e.id \in Commons => e.id = "fs1"
    BY IdKinds
  <2>2. Swap("fs1") = "fs2"
    BY DEF Swap
  <2>3. e.id \in Commons => /\ Has(f, e.id) /\ AtPlace(e, First(act, Swap(e.id)))
                            /\ e.id = "fs1" => e.len <= e.size
    BY <1>5, <2>1, <2>2
  <2> QED
    BY <1>2, <1>7, <2>3, NewOfAppend
<1>10. \A k \in DOMAIN q : q[k].id \in Programs => Keeps(h, q[k])
  BY <1>4, <1>6, ProgramsKept
<1>11. AllHeld(h, Append(q, e), open)
  BY <1>6, <1>10, AllHeldAppend
<1>12. ASSUME NEW g, \/ InEntry(flash, ent[s.t], g, s.dup)
                     \/ /\ e.id = g.id /\ e.ver = g.ver
                        /\ (e.id = "fs1" /\ ~ s.dup) => Contains(flash', e)
       PROVE  InEntry(flash', ent'[s.t], g, s.dup)
  <2>1. \/ InEntry(h, q, g, s.dup)
        \/ e.id = g.id /\ e.ver = g.ver /\ ((e.id = "fs1" /\ ~ s.dup) => Contains(h, e))
    <3>1. CASE InEntry(flash, ent[s.t], g, s.dup)
      BY <1>4, <1>6, <3>1, EnteredKept
    <3> QED
      BY <1>6, <1>12, <3>1
  <2>2. InEntry(h, Append(q, e), g, s.dup)
    BY <2>1, InEntryAppend
  <2> QED
    BY <1>6, <1>8, <2>2
<1> QED
  BY <1>3, <1>5, <1>6, <1>8, <1>9, <1>11, <1>12

\* The invariant after a step from image to image: what has to be shown.
LEMMA Loaded ==
  ASSUME NEW f \in Factories, InvOf(f), Reading, Touch(f), Beside, Types', Handles',
         s'.t = s.t, s'.pkg = s.pkg, s'.dl = s.dl, s'.open = FALSE,
         fwd'[s.t].magic, fwd'[s.t].images,
         \/ s.pc # "dupfs" /\ s.pc # "finish" /\ s'.pc \in {"connect", "recv", "image", "dupimages"}
         \/ s'.pc \in {"dupfs", "finish"},
         s.start <= s'.start, s'.start <= Hi(f, s.t),
         NewOf(f, s.t, ent'[s.t], ent'[active], s'.start, FALSE), AllHeld(flash', ent'[s.t], FALSE),
         Room(f)', Position', FsErased', Entered'
  PROVE  InvOf(f)'
<1>1. Busy /\ Busy' /\ Reading'
  BY DEF Busy, Reading
<1>2. s.t \in Sector /\ active \in Sector \ {s.t} /\ active' = active
  BY <1>1, Basics DEF Beside
<1>3. ent'[active] = ent[active] /\ ent[active]' = ent[active]
  BY <1>2 DEF Beside
<1>4. s'.start \in Nat
  BY DEF Types, SessionType
<1>5. Table(f)' /\ Sets(f)' /\ Intact' /\ Chosen' /\ Clear(f)'
  BY <1>1, <1>4, GoesOn
<1>6. NewSet(f)' /\ Complete' /\ OpenEntry' /\ Partly'
  BY <1>2, <1>3 DEF NewSet, Complete, OpenEntry, Partly
<1>7. ToCopy'
  <2>1. Images' = Images
    BY DEF Images
  <2>2. CASE s'.pc \in {"dupfs", "finish"}
    BY <2>2 DEF ToCopy, Loading
  <2>3. CASE s'.pc \notin {"dupfs", "finish"}
    <3>1. Loading \/ s.pc = "dupimages"
      BY <2>3 DEF Loading, Reading
    <3>2. \A k \in DOMAIN Images \ s.dl : CanCopy(flash', ent[active], Images[k])
      BY <3>1, CopyKept
    <3> QED
      BY <1>3, <2>1, <3>2 DEF ToCopy
  <2> QED
    BY <2>2, <2>3
<1> QED
  BY <1>5, <1>6, <1>7 DEF InvOf

\* A session that has its header has a signed table.
LEMMA Signed ==
  ASSUME NEW f \in Factories, InvOf(f), Reading
  PROVE  fwd[s.t].magic /\ fwd[s.t].images /\ fwd[s.t].status # "valid"
BY DEF InvOf, Chosen, Reading, Filling

\* The entries as they stand.
LEMMA Stands ==
  ASSUME NEW f \in Factories, InvOf(f), Placing, s.open = FALSE, UNCHANGED <<ent, flash, active>>
  PROVE  /\ NewOf(f, s.t, ent'[s.t], ent'[active], s.start, FALSE)
         /\ AllHeld(flash', ent'[s.t], FALSE)
         /\ ent' \in [Sector -> Seq(ImageEntry)] /\ ent'[active] = ent[active]
         /\ \A g : InEntry(flash, ent[s.t], g, s.dup) => InEntry(flash', ent'[s.t], g, s.dup)
BY DEF InvOf, NewSet, Complete, Types

\* On to the next file.
LEMMA ConnectNext ==
  ASSUME NEW f \in Factories, InvOf(f), s.pc = "connect", UNCHANGED flash
  PROVE  /\ Busy /\ Placing /\ Loading /\ Reading /\ s.open = FALSE /\ InTrial(f) /\ Touch(f)
         /\ s \in SessionType /\ s.t \in Sector /\ s.t \in ScanSectors /\ active \in Sector
         /\ s.start \in Nat /\ Lo(f, s.t) \in Nat /\ Lo(f, s.t) <= s.start /\ s.start <= Hi(f, s.t)
         /\ s.pkg \in Packages /\ Images = s.pkg.images /\ s.pkg.fmt # "all"
         /\ s.dl \subseteq DOMAIN Images /\ s.i \in 1 .. Len(Images) + 1
<1>1. Types /\ Position
  BY DEF InvOf
<1>2. Busy /\ Placing /\ Loading /\ Reading
  BY DEF Busy, Placing, Loading, Reading
<1>3. s \in SessionType /\ s.pkg \in Packages /\ s.i \in Nat \ {0} /\ s.open \in BOOLEAN
  BY <1>1, SessionIs
<1>4. s.open = FALSE /\ s.pkg.fmt # "all" /\ s.dl \subseteq DOMAIN Images /\ s.i <= Len(Images) + 1
  BY <1>1, <1>2, <1>3 DEF Position
<1>5. Len(Images) \in Nat
  BY <1>3, PackageIs DEF Images
<1>6. InTrial(f) /\ Touch(f)
  BY OnlyNothing DEF InTrial, Touch
<1>7. Images = s.pkg.images
  BY DEF Images
<1> QED
  BY <1>2, <1>3, <1>4, <1>5, <1>6, <1>7, Basics

LEMMA InvConnect ==
  ASSUME NEW f \in Factories, InvOf(f), Connect
  PROVE  InvOf(f)'
<1>1. Types /\ Handles /\ Position /\ FsErased /\ Room(f) /\ Entered
  BY DEF InvOf
<1>2. UNCHANGED <<fwd, flash, bootVars>> /\ s.pc = "connect" /\ fwd' \in [Sector -> Fwd] /\ Fades
  BY <1>1 DEF Connect, At, Fades, Types
<1>3. /\ Busy /\ Placing /\ Loading /\ Reading /\ s.open = FALSE /\ InTrial(f) /\ Touch(f)
      /\ s \in SessionType /\ s.t \in Sector /\ s.t \in ScanSectors /\ active \in Sector
      /\ s.start \in Nat /\ Lo(f, s.t) \in Nat /\ Lo(f, s.t) <= s.start /\ s.start <= Hi(f, s.t)
  BY <1>2, ConnectNext
<1>4. PICK p \in Packages : p = s.pkg /\ Images = p.images /\ p.fmt # "all"
  BY <1>2, ConnectNext
<1>5. PICK n \in Nat \ {0} : n = Len(p.images) /\ DOMAIN p.images = 1 .. n
  BY PackageIs
<1>6. PICK D \in SUBSET (1 .. n) : D = s.dl
  BY <1>2, <1>4, <1>5, ConnectNext
<1>7. PICK i \in 1 .. n + 1 : i = s.i
  BY <1>2, <1>4, <1>5, ConnectNext
<1>8. PICK v : v = NeedOf(p, 1 .. n) /\ v[n] \in Nat
  BY <1>5, NeedIs
<1>9. PICK w : w = NeedOf(p, D)
  OBVIOUS
<1>10. /\ w \in [0 .. n -> Nat]
       /\ \A a, b \in 0 .. n : a <= b /\ (\A m \in a + 1 .. b : m \notin D) => w[a] = w[b]
       /\ \A m \in 1 .. n :
            w[m] = w[m - 1] + (IF m \in D /\ InArea(p.images[m]) THEN Disk(p.images[m]) ELSE 0)
  BY <1>5, <1>9, NeedIs
<1>11. s.start + v[n] <= Hi(f, s.t) + w[i - 1]
  BY <1>1, <1>3, <1>4, <1>5, <1>6, <1>7, <1>8, <1>9 DEF Room
<1>12. PICK act \in Seq(ImageEntry) : act = ent[active] /\ SetOf(f, active, act)
  BY Basics
<1>13. PICK T \in SUBSET Nat : T = {k \in D : k >= i}
  <2>1. \A m \in 1 .. n : m \in Nat
    BY <1>5
  <2>2. {k \in D : k >= i} \in SUBSET Nat
    BY <2>1
  <2> QED
    BY <2>2
<1>14. PICK k : k = IF T = {} THEN n + 1 ELSE Min(T)
  OBVIOUS
<1>15. T # {} => k \in D /\ k \in 1 .. n /\ k >= i /\ \A m \in D : m >= i => k <= m
  BY <1>13, <1>14, MinIs
<1>16. \A m \in D : m < i \/ m >= k
  BY <1>7, <1>13, <1>15
<1>17. k \in 1 .. n + 1 /\ i <= k
  BY <1>7, <1>14, <1>15
<1>18. w[i - 1] = w[k - 1]
  <2>1. i - 1 \in 0 .. n /\ k - 1 \in 0 .. n /\ i - 1 <= k - 1
    BY <1>7, <1>17
  <2>2. \A m \in (i - 1) + 1 .. k - 1 : m \notin D
    BY <1>7, <1>16, <1>17
  <2> QED
    BY <1>10, <2>1, <2>2
<1>19. \A m \in D : m < i => InEntry(flash, ent[s.t], p.images[m], s.dup)
  BY <1>1, <1>2, <1>3, <1>4, <1>5, <1>6, <1>7 DEF Entered, Passed
<1>20. fwd'[s.t].magic /\ fwd'[s.t].images /\ fwd'[s.t].status # "valid"
  BY <1>2, <1>3, Signed
<1>21. Has(act, "fs2") => Has(f, "fs1")
  BY <1>2, <1>12, FsKnown
<1>22. CASE T = {}
  <2>1. /\ s' = [s EXCEPT !.pc = "dupimages", !.i = 1] /\ free' = free
        /\ \/ ent' = ent
           \/ /\ Found(active, "fs2")
              /\ Create(s.t, [Entry(active, "fs2") EXCEPT !.id = "fs1", !.len = 0])
    BY <1>4, <1>5, <1>6, <1>7, <1>13, <1>22 DEF Connect
  <2>2. /\ NewOf(f, s.t, ent'[s.t], ent'[active], s.start, FALSE)
        /\ AllHeld(flash', ent'[s.t], FALSE)
        /\ ent' \in [Sector -> Seq(ImageEntry)] /\ Beside
        /\ \A g : InEntry(flash, ent[s.t], g, s.dup) => InEntry(flash', ent'[s.t], g, s.dup)
    <3>1. CASE ent' = ent
      <4>1. Beside
        BY <1>2, <1>20, <3>1 DEF Beside, bootVars
      <4> QED
        BY <1>2, <1>3, <3>1, <4>1, Stands DEF bootVars
    <3>2. CASE /\ Found(active, "fs2")
               /\ Create(s.t, [Entry(active, "fs2") EXCEPT !.id = "fs1", !.len = 0])
      <4>1. Has(act, "fs2") /\ Entry(active, "fs2") = First(act, "fs2")
        BY <1>12, <3>2, FoundIs
      <4>2. PICK d \in ImageEntry : d = First(act, "fs2")
        BY <1>12, <4>1, FirstIs
      <4>3. PICK e : e = [d EXCEPT !.id = "fs1", !.len = 0]
        OBVIOUS
      <4>4. e \in ImageEntry /\ e.id = "fs1" /\ e.len = 0 /\ e.size \in Nat /\ AtPlace(e, d)
        BY <4>2, <4>3 DEF ImageEntry, Ids, AtPlace
      <4>5. Create(s.t, e)
        BY <3>2, <4>1, <4>2, <4>3
      <4>6. Beside
        BY <1>1, <1>2, <1>3, <1>20, <4>4, <4>5, CreateIs DEF Beside, bootVars
      <4>7. e.id \notin Programs /\ e.id \in Programs \cup {"fs1", "sbl"} /\ e.len <= e.size
        BY <4>4, IdKinds
      <4>8. AtPlace(e, First(ent[active], "fs2")) /\ Has(f, "fs1")
        BY <1>12, <1>21, <4>1, <4>2, <4>4
      <4>9. PICK a \in Nat : a = s.start /\ s.start <= a
        BY <1>3
      <4>10. /\ NewOf(f, s.t, ent'[s.t], ent'[active], a, FALSE)
             /\ AllHeld(flash', ent'[s.t], FALSE)
             /\ ent' \in [Sector -> Seq(ImageEntry)]
             /\ \A g : \/ InEntry(flash, ent[s.t], g, s.dup)
                       \/ /\ e.id = g.id /\ e.ver = g.ver
                          /\ (e.id = "fs1" /\ ~ s.dup) => Contains(flash', e)
                  => InEntry(flash', ent'[s.t], g, s.dup)
        BY <1>3, <4>4, <4>5, <4>6, <4>7, <4>8, <4>9, Enters
      <4> QED
        BY <4>6, <4>9, <4>10
    <3> QED
      BY <2>1, <3>1, <3>2
  <2>3. /\ s' \in SessionType /\ s'.pc = "dupimages" /\ s'.t = s.t /\ s'.start = s.start /\ s'.pkg = s.pkg
        /\ s'.open = FALSE /\ s'.i = 1 /\ s'.dup = s.dup /\ s'.dl = s.dl
    <3>1. "dupimages" \in Pcs /\ 1 \in Nat \ {0}
      BY DEF Pcs
    <3>2. /\ s' \in SessionType /\ s'.pc = "dupimages" /\ s'.t = s.t /\ s'.start = s.start
          /\ s'.pkg = s.pkg /\ s'.open = s.open /\ s'.i = 1 /\ s'.dup = s.dup /\ s'.dl = s.dl
      BY <1>3, <2>1, <3>1 DEF SessionType
    <3> QED
      BY <1>3, <3>2
  <2>4. Types' /\ Handles'
    <3>1. Types'
      BY <1>1, <1>2, <1>4, <2>2, <2>3 DEF Types, bootVars
    <3> QED
      BY <1>1, <1>3, <2>1, <2>3, <3>1 DEF Handles
  <2>5. Images' = p.images /\ ~ Loading'
    BY <1>4, <2>3 DEF Images, Loading
  <2>6. Room(f)'
    <3>1. PICK x : x = NeedOf(p, (1 .. n) \ D) /\ x[0] = 0
      BY NeedIs
    <3>2. k - 1 = n
      BY <1>14, <1>22
    <3>3. w[n] \in Nat /\ Hi(f, s.t) \in Nat
      BY <1>3, <1>10, Basics
    <3>4. s.start + v[n] <= Hi(f, s.t) + w[n] + x[0]
      BY <1>11, <1>18, <3>1, <3>2, <3>3
    <3>5. s'.start + v[n] <= Hi(f, s'.t) + w[n] + x[s'.i - 1]
      BY <2>3, <3>4
    <3> QED
      BY <1>4, <1>5, <1>6, <1>8, <1>9, <2>3, <2>5, <3>1, <3>5 DEF Room
  <2>7. Position'
    BY <1>5, <1>6, <2>3, <2>5 DEF Position
  <2>8. FsErased'
    BY <2>3 DEF FsErased
  <2>9. Entered'
    <3>1. \A m \in 1 .. n : Passed(m)' => m \in D
      BY <1>6, <2>3, <2>5 DEF Passed
    <3>2. \A m \in D : m < i
      BY <1>7, <1>13, <1>22
    <3>3. \A m \in D : InEntry(flash', ent'[s.t], p.images[m], s.dup)
      BY <1>19, <2>2, <3>2
    <3> QED
      BY <1>5, <2>3, <2>5, <3>1, <3>3 DEF Entered
  <2>10. /\ s.pc # "dupfs" /\ s.pc # "finish" /\ s'.pc \in {"connect", "recv", "image", "dupimages"}
         /\ s.start <= s'.start /\ s'.start <= Hi(f, s.t)
    BY <1>2, <1>3, <2>3
  <2>11. NewOf(f, s.t, ent'[s.t], ent'[active], s'.start, FALSE)
    BY <2>2, <2>3
  <2> QED
    BY <1>3, <1>20, <2>2, <2>3, <2>4, <2>6, <2>7, <2>8, <2>9, <2>10, <2>11, Loaded
<1>23. CASE T # {} /\ p.images[k].id = "fs1" /\ p.images[k].len = 0
  <2>1. PICK g \in Image : g = p.images[k] /\ Disk(g) \in Nat
    BY <1>5, <1>15, <1>23, ImageIs
  <2>2. CASE ~ Creatable(g)
    <3>1. Stop /\ ent' = ent
      BY <1>4, <1>5, <1>6, <1>7, <1>13, <1>14, <1>23, <2>1, <2>2 DEF Connect
    <3> QED
      BY <1>2, <3>1, FadeStop
  <2>3. CASE Creatable(g)
    <3>1. Create(s.t, NewEntry(g)) /\ s' = [s EXCEPT !.i = k + 1] /\ free' = free
      BY <1>4, <1>5, <1>6, <1>7, <1>13, <1>14, <1>23, <2>1, <2>3 DEF Connect
    <3>2. Has(act, "fs2") /\ Disk(g) <= First(act, "fs2").size
      BY <1>12, <1>23, <2>1, <2>3, FoundIs DEF Creatable
    <3>3. PICK e \in ImageEntry : e = NewEntry(g) /\ MadeOf(e, g, act, s.start)
      BY <1>1, <1>12, <2>1, <3>2, NewEntryIs
    <3>4. e.id = "fs1" /\ e.ver = g.ver /\ e.len = 0 /\ e.size \in Nat /\ AtPlace(e, First(act, "fs2"))
      BY <1>23, <2>1, <3>3, EntryIs DEF MadeOf
    <3>5. Create(s.t, e)
      BY <3>1, <3>3
    <3>6. Beside
      BY <1>1, <1>2, <1>3, <1>20, <3>5, CreateIs DEF Beside, bootVars
    <3>7. e.id \notin Programs /\ e.id \in Programs \cup {"fs1", "sbl"} /\ e.len <= e.size
      BY <3>4, IdKinds
    <3>8. AtPlace(e, First(ent[active], "fs2")) /\ Has(f, "fs1")
      BY <1>12, <1>21, <3>2, <3>4
    <3>9. PICK a \in Nat : a = s.start /\ s.start <= a
      BY <1>3
    <3>10. /\ NewOf(f, s.t, ent'[s.t], ent'[active], a, FALSE)
           /\ AllHeld(flash', ent'[s.t], FALSE)
           /\ ent' \in [Sector -> Seq(ImageEntry)]
           /\ \A c : \/ InEntry(flash, ent[s.t], c, s.dup)
                     \/ /\ e.id = c.id /\ e.ver = c.ver
                        /\ (e.id = "fs1" /\ ~ s.dup) => Contains(flash', e)
                => InEntry(flash', ent'[s.t], c, s.dup)
      BY <1>3, <3>5, <3>6, <3>7, <3>8, <3>9, Enters
    <3>11. /\ s' \in SessionType /\ s'.pc = s.pc /\ s'.t = s.t /\ s'.start = s.start
           /\ s'.pkg = s.pkg /\ s'.open = s.open /\ s'.i = k + 1 /\ s'.dup = s.dup /\ s'.dl = s.dl
      <4>1. k + 1 \in Nat \ {0}
        BY <1>17
      <4> QED
        BY <1>3, <3>1, <4>1 DEF SessionType
    <3>12. Types' /\ Handles'
      <4>1. Types'
        BY <1>1, <1>2, <1>4, <3>10, <3>11 DEF Types, bootVars
      <4> QED
        BY <1>1, <1>3, <3>1, <3>11, <4>1 DEF Handles
    <3>13. Images' = p.images /\ Loading' /\ s'.pc = "connect" /\ s'.open = FALSE
      BY <1>2, <1>3, <1>4, <3>11 DEF Images, Loading
    <3>14. Room(f)'
      <4>1. w[k] = w[k - 1]
        <5>1. ~ InArea(g) /\ k \in 1 .. n
          BY <1>15, <1>23, <2>1, IdKinds DEF InArea
        <5>2. w[k - 1] \in Nat
          BY <1>10, <5>1
        <5> QED
          BY <1>10, <2>1, <5>1, <5>2
      <4>2. s.start + v[n] <= Hi(f, s.t) + w[k]
        BY <1>11, <1>18, <4>1
      <4>3. s'.i - 1 = k
        BY <1>17, <3>11
      <4>4. s'.start + v[n] <= Hi(f, s'.t) + w[s'.i - 1]
        BY <3>11, <4>2, <4>3
      <4> QED
        BY <1>4, <1>5, <1>6, <1>8, <1>9, <3>11, <3>13, <4>4 DEF Room
    <3>15. Position'
      <4>1. k + 1 <= n + 1
        BY <1>15, <1>23
      <4> QED
        BY <1>4, <1>5, <1>6, <3>11, <3>13, <4>1 DEF Position
    <3>16. FsErased'
      <4>1. \A m \in 1 .. n : p.images[m].id = "fs1" => m = k
        BY <1>5, <1>15, <1>23, PackageIs
      <4>2. \A m \in 1 .. n : p.images[m].id = "fs1" => ~ (m > s'.i) /\ m # s'.i
        BY <1>17, <3>11, <4>1
      <4> QED
        BY <1>5, <3>11, <3>13, <4>2 DEF FsErased
    <3>17. Entered'
      <4>1. \A m \in 1 .. n : Passed(m)' => m \in D /\ m < k + 1
        BY <1>6, <3>11, <3>13 DEF Passed
      <4>2. \A m \in D : m < k + 1 => m < i \/ m = k
        BY <1>16, <1>17
      <4>3. \A m \in D : m < i => InEntry(flash', ent'[s.t], p.images[m], s.dup)
        BY <1>19, <3>10
      <4>4. InEntry(flash', ent'[s.t], p.images[k], s.dup)
        <5>1. Contains(flash', e)
          BY <3>4 DEF Contains
        <5>2. e.id = g.id /\ e.ver = g.ver
          BY <1>23, <2>1, <3>4
        <5> QED
          BY <2>1, <3>10, <5>1, <5>2
      <4>5. \A m \in 1 .. n : Passed(m)' => InEntry(flash', ent'[s.t], p.images[m], s.dup)
        BY <4>1, <4>2, <4>3, <4>4
      <4> QED
        BY <1>5, <3>11, <3>13, <4>5 DEF Entered
    <3>18. /\ s.pc # "dupfs" /\ s.pc # "finish" /\ s'.pc \in {"connect", "recv", "image", "dupimages"}
           /\ s.start <= s'.start /\ s'.start <= Hi(f, s.t)
      BY <1>2, <1>3, <3>11
    <3>19. NewOf(f, s.t, ent'[s.t], ent'[active], s'.start, FALSE)
      BY <3>9, <3>10, <3>11
    <3> QED
      BY <1>3, <1>20, <3>6, <3>10, <3>11, <3>12, <3>13, <3>14, <3>15, <3>16, <3>17, <3>18, <3>19, Loaded
  <2> QED
    BY <2>2, <2>3
<1>24. CASE T # {} /\ ~ (p.images[k].id = "fs1" /\ p.images[k].len = 0)
  <2>1. k \in 1 .. n /\ k \in D
    BY <1>15, <1>24
  <2>2. PICK more \in {0, 1} :
          s' = [s EXCEPT !.pc = "recv", !.i = k, !.left = p.images[k].len + more]
    BY <1>4, <1>5, <1>6, <1>7, <1>13, <1>14, <1>24, ZenonT(60) DEF Connect
  <2>3. ent' = ent /\ free' = free
    BY <1>4, <1>5, <1>6, <1>7, <1>13, <1>14, <1>24 DEF Connect
  <2>4. PICK left \in Nat : left = p.images[k].len + more
    BY <1>5, <2>1, ImageIs DEF Image
  <2>5. /\ s' \in SessionType /\ s'.pc = "recv" /\ s'.t = s.t /\ s'.start = s.start
        /\ s'.pkg = s.pkg /\ s'.open = s.open /\ s'.i = k /\ s'.dup = s.dup /\ s'.dl = s.dl
    <3>1. "recv" \in Pcs /\ k \in Nat \ {0}
      BY <2>1 DEF Pcs
    <3> QED
      BY <1>3, <2>2, <2>4, <3>1 DEF SessionType
  <2>6. Types' /\ Handles'
    <3>1. Types'
      BY <1>1, <1>2, <1>4, <2>3, <2>5 DEF Types, bootVars
    <3> QED
      BY <1>1, <1>3, <2>3, <2>5, <3>1 DEF Handles
  <2>7. Images' = p.images /\ Loading' /\ s'.open = FALSE
    BY <1>2, <1>3, <1>4, <2>5 DEF Images, Loading
  <2>8. Room(f)'
    <3>1. s'.start + v[n] <= Hi(f, s'.t) + w[s'.i - 1]
      BY <1>11, <1>18, <2>5
    <3> QED
      BY <1>4, <1>5, <1>6, <1>8, <1>9, <2>5, <2>7, <3>1 DEF Room
  <2>9. Position'
    <3>1. k <= n + 1
      BY <2>1
    <3> QED
      BY <1>4, <1>5, <1>6, <2>1, <2>5, <2>7, <3>1 DEF Position
  <2>10. FsErased'
    <3>1. \A m \in 1 .. n : p.images[m].id = "fs1" /\ m >= i =>
            Blank(flash, First(ent[active], "fs2").start, End(First(ent[active], "fs2")))
      BY <1>1, <1>2, <1>3, <1>4, <1>5, <1>7 DEF FsErased
    <3>2. \A m \in 1 .. n : m > k \/ m = k => m >= i
      BY <1>17
    <3> QED
      BY <1>2, <1>5, <2>3, <2>5, <2>7, <3>1, <3>2 DEF FsErased, bootVars
  <2>11. Entered'
    <3>1. \A m \in 1 .. n : Passed(m)' => m \in D /\ m < k
      BY <1>6, <2>5, <2>7 DEF Passed
    <3>2. \A m \in D : m < k => m < i
      BY <1>16, <2>1
    <3> QED
      BY <1>2, <1>5, <1>19, <2>3, <2>5, <2>7, <3>1, <3>2 DEF Entered
  <2>12. Beside
    BY <1>2, <1>20, <2>3 DEF Beside, bootVars
  <2>13. /\ s.pc # "dupfs" /\ s.pc # "finish" /\ s'.pc \in {"connect", "recv", "image", "dupimages"}
         /\ s.start <= s'.start /\ s'.start <= Hi(f, s.t)
    BY <1>2, <1>3, <2>5
  <2>14. NewOf(f, s.t, ent'[s.t], ent'[active], s'.start, FALSE) /\ AllHeld(flash', ent'[s.t], FALSE)
    <3>1. /\ NewOf(f, s.t, ent'[s.t], ent'[active], s.start, FALSE) /\ AllHeld(flash', ent'[s.t], FALSE)
      BY <1>2, <1>3, <2>3, Stands DEF bootVars
    <3> QED
      BY <2>5, <3>1
  <2> QED
    BY <1>3, <1>20, <2>5, <2>6, <2>7, <2>8, <2>9, <2>10, <2>11, <2>12, <2>13, <2>14, Loaded
<1> QED
  BY <1>22, <1>23, <1>24

LEMMA InvReceive ==
  ASSUME NEW f \in Factories, InvOf(f), NEW n \in 1 .. MaxChunk, Receive(n)
  PROVE  InvOf(f)'
<1>1. /\ Types /\ Handles /\ Position /\ Room(f) /\ NewSet(f) /\ OpenEntry /\ Complete /\ Partly
      /\ FsErased /\ ToCopy /\ Entered
  BY DEF InvOf
<1>2. /\ UNCHANGED <<fwd, ent, flash, free, bootVars>> /\ s.pc = "recv" /\ n <= s.left
      /\ s' = [s EXCEPT !.pc = "image", !.buf = n, !.left = s.left - n]
  <2>1. s' = [s EXCEPT !.pc = "image", !.buf = n, !.left = @ - n]
    BY DEF Receive
  <2> QED
    BY <2>1 DEF Receive, At
<1>3. s \in SessionType /\ s.t \in Sector /\ s.left \in Nat /\ s.start \in Nat
  BY <1>1, SessionIs
<1>4. PICK left \in Nat : left = s.left - n
  BY <1>2, <1>3
<1>5. /\ s' \in SessionType /\ s'.pc = "image" /\ s'.t = s.t /\ s'.start = s.start /\ s'.pkg = s.pkg
      /\ s'.open = s.open /\ s'.i = s.i /\ s'.dup = s.dup /\ s'.dl = s.dl /\ s'.cnt = s.cnt /\ s'.buf = n
  <2>1. "image" \in Pcs /\ n \in 0 .. MaxChunk
    BY Consts DEF Pcs
  <2> QED
    BY <1>2, <1>3, <1>4, <2>1 DEF SessionType
<1>6. Busy /\ Placing /\ Loading /\ Reading /\ Busy' /\ Placing' /\ Loading' /\ Reading'
  BY <1>2, <1>5 DEF Busy, Placing, Loading, Reading
<1>7. Images' = Images /\ Img' = Img
  BY <1>5 DEF Images, Img
<1>8. Types' /\ Handles'
  <2>1. s.pkg \in Packages
    BY <1>1, <1>2 DEF Types
  <2> QED
    BY <1>1, <1>2, <1>5, <2>1 DEF Types, Handles, bootVars
<1>9. fwd[s.t].magic /\ fwd[s.t].images /\ fwd[s.t].status # "valid"
  BY <1>6, Signed
<1>10. Beside /\ Touch(f)
  BY <1>2, <1>9, OnlyNothing DEF Beside, bootVars, Touch, InTrial
<1>11. s.start <= Hi(f, s.t)
  BY <1>6, Basics
<1>12. Table(f)' /\ Sets(f)' /\ Intact' /\ Chosen' /\ Clear(f)'
  <2>1. s'.start \in Nat /\ s.start <= s'.start /\ s'.start <= Hi(f, s.t)
    BY <1>3, <1>5, <1>11
  <2>2. fwd'[s.t].magic /\ fwd'[s.t].images
    BY <1>2, <1>9
  <2> QED
    BY <1>5, <1>6, <1>10, <2>1, <2>2, GoesOn
<1>13. Room(f)'
  BY <1>1, <1>5, <1>6, <1>7 DEF Room
<1>14. Position'
  <2>1. n > 0
    OBVIOUS
  <2> QED
    BY <1>1, <1>2, <1>5, <1>6, <1>7, <2>1 DEF Position
<1>15. NewSet(f)' /\ OpenEntry' /\ Complete' /\ Partly'
  <2>1. Last' = Last
    BY <1>2, <1>5 DEF Last
  <2>2. ent'[s.t] = ent[s.t] /\ ent[s.t]' = ent[s.t] /\ ent[active]' = ent[active]
    BY <1>2, <1>5 DEF bootVars
  <2> QED
    BY <1>1, <1>2, <1>5, <1>6, <1>7, <2>1, <2>2 DEF NewSet, OpenEntry, Complete, Partly
<1>16. FsErased'
  BY <1>1, <1>2, <1>5, <1>7 DEF FsErased, bootVars
<1>17. ToCopy'
  BY <1>1, <1>2, <1>5, <1>6, <1>7 DEF ToCopy, bootVars
<1>18. Entered'
  <2>1. \A k : Passed(k)' <=> Passed(k)
    BY <1>2, <1>5, <1>6 DEF Passed
  <2> QED
    BY <1>1, <1>2, <1>5, <1>7, <2>1 DEF Entered
<1> QED
  BY <1>8, <1>12, <1>13, <1>14, <1>15, <1>16, <1>17, <1>18 DEF InvOf

\* The session after an image.
Like(st) ==
  /\ st \in SessionType /\ st.pkg = s.pkg /\ st.dup = s.dup /\ st.t = s.t /\ st.start = s.start
  /\ st.i = s.i /\ st.dl = s.dl

LEMMA AdvanceIs ==
  ASSUME Types, Position, s.pc = "image", NEW st, Like(st), NEW z, z = Advance(st)
  PROVE  /\ z \in SessionType /\ z.pkg = s.pkg /\ z.dup = s.dup /\ z.t = s.t /\ z.dl = s.dl
         /\ z.i = s.i + 1 /\ z.open = FALSE /\ z.start = NextStart
         /\ \/ s.pkg.fmt = "part" /\ z.pc = "connect"
            \/ s.pkg.fmt = "all" /\ s.i = Len(Images) /\ z.pc = "dupfs"
            \/ s.pkg.fmt = "all" /\ s.i # Len(Images) /\ z.pc \in {"recv", "image"}
         /\ z.pc = "image" => z.buf > 0
<1>1. PICK a : a = NextStart
  OBVIOUS
<1>2. /\ st \in SessionType /\ st.pkg = s.pkg /\ st.dup = s.dup /\ st.t = s.t /\ st.start = s.start
      /\ st.i = s.i /\ st.dl = s.dl
  BY DEF Like
<1>3. s.pkg \in Packages /\ s.start \in Nat /\ Disk(Img) \in Nat /\ s.i \in Nat \ {0} /\ a \in Nat
  BY <1>1, ImageAt, SessionIs DEF NextStart
<1>4. s.pkg.fmt \in {"all", "part"}
  BY <1>3, PackageIs
<1>5. PICK pc : pc = (CASE s.pkg.fmt = "part" -> "connect"
                        [] s.pkg.fmt # "part" /\ s.i = Len(Images) -> "dupfs"
                        [] OTHER -> IF st.buf > 0 THEN "image" ELSE "recv")
  OBVIOUS
<1>6. /\ \/ s.pkg.fmt = "part" /\ pc = "connect"
         \/ s.pkg.fmt = "all" /\ s.i = Len(Images) /\ pc = "dupfs"
         \/ s.pkg.fmt = "all" /\ s.i # Len(Images) /\ pc \in {"recv", "image"}
      /\ pc = "image" => st.buf > 0
  BY <1>4, <1>5
<1>7. pc \in Pcs
  BY <1>6 DEF Pcs
<1>8. z = [st EXCEPT !.i = s.i + 1, !.open = FALSE, !.start = a, !.pc = pc]
  <2>1. z = [st EXCEPT !.i = @ + 1, !.open = FALSE, !.start = IF InArea(Img) THEN @ + Disk(Img) ELSE @,
                       !.pc = pc]
    BY <1>5 DEF Advance
  <2>2. (IF InArea(Img) THEN st.start + Disk(Img) ELSE st.start) = a
    BY <1>1, <1>2 DEF NextStart
  <2> QED
    BY <1>2, <2>1, <2>2
<1>9. PICK i \in Nat \ {0} : i = s.i + 1
  BY <1>3
<1>10. /\ z \in SessionType /\ z.pkg = st.pkg /\ z.dup = st.dup /\ z.t = st.t /\ z.dl = st.dl
      /\ z.i = i /\ z.open = FALSE /\ z.start = a /\ z.pc = pc /\ z.buf = st.buf
  BY <1>3, <1>2, <1>7, <1>8, <1>9 DEF SessionType
<1> QED
  BY <1>1, <1>2, <1>6, <1>9, <1>10

\* No image is open, and every handle is in the pool or lost.
LEMMA HandlesBack ==
  ASSUME NEW y \in Nat, free' = y, y <= MaxHandles, s'.open = FALSE
  PROVE  Handles'
<1>1. MaxHandles \in Nat
  BY InstallAssumption
<1>2. y + 0 <= MaxHandles /\ (IF s'.open THEN 1 ELSE 0) = 0
  BY <1>1
<1> QED
  BY <1>2 DEF Handles

\* The second file system stays erased for the package's.
LEMMA FsStays ==
  ASSUME NEW f \in Factories, InvOf(f), s.pc = "image", InTrial(f) \/ (Img.id = "fs1" /\ InData("fs2")),
         Beside, NEW k \in DOMAIN Images, Images[k].id = "fs1", k > s.i
  PROVE  Blank(flash', First(ent'[active'], "fs2").start, End(First(ent'[active'], "fs2")))
<1>1. Types /\ Position /\ FsErased /\ Busy
  BY DEF InvOf, Busy
<1>2. PICK p \in Packages : p = s.pkg /\ Images = p.images /\ s.i \in DOMAIN p.images /\ s.i \in Nat
  BY <1>1, ImageAt
<1>3. Img.id # "fs1"
  <2>1. s.i # k
    BY <1>2
  <2>2. p.images[s.i].id # p.images[k].id
    BY <1>2, <2>1, PackageIs
  <2> QED
    BY <1>2, <2>2 DEF Img
<1>4. PICK act : act = ent[active] /\ act = ent'[active'] /\ act \in Seq(ImageEntry)
  <2>1. active \in Sector \ {s.t} /\ ent[active] \in Seq(ImageEntry) /\ active' = active
    BY <1>1, Basics DEF Beside
  <2> QED
    BY <2>1 DEF Beside
<1>5. Blank(flash, First(act, "fs2").start, End(First(act, "fs2")))
  BY <1>1, <1>4 DEF FsErased
<1>6. Has(act, "fs2")
  BY <1>4, FsKnown
<1>7. Same(flash, flash', First(act, "fs2"))
  BY <1>1, <1>3, <1>4, <1>6, FsKept
<1>8. PICK h : h = flash'
  OBVIOUS
<1>9. Blank(h, First(act, "fs2").start, End(First(act, "fs2")))
  BY <1>5, <1>7, <1>8, SameBlank
<1> QED
  BY <1>4, <1>8, <1>9

LEMMA Advanced ==
  ASSUME NEW f \in Factories, InvOf(f), s.pc = "image", InTrial(f) \/ (Img.id = "fs1" /\ InData("fs2")),
         Beside, fwd' \in [Sector -> Fwd], fwd'[s.t].magic, fwd'[s.t].images, UNCHANGED bootVars,
         ent' \in [Sector -> Seq(ImageEntry)], NEW y \in Nat, free' = y, y <= MaxHandles,
         NEW a, a = NextStart, NEW st, Like(st), s' = Advance(st),
         NewOf(f, s.t, ent'[s.t], ent'[active], a, FALSE), AllHeld(flash', ent'[s.t], FALSE),
         InEntry(flash', ent'[s.t], Img, s.dup),
         \A k \in s.dl : k < s.i => InEntry(flash', ent'[s.t], Images[k], s.dup)
  PROVE  InvOf(f)'
<1>1. Types /\ Position /\ FsErased
  BY DEF InvOf
<1>2. Busy /\ Placing /\ Loading /\ Reading
  BY DEF Busy, Placing, Loading, Reading
<1>3. PICK p \in Packages : p = s.pkg /\ Images = p.images
  BY <1>1, ImageAt
<1>4. PICK n \in Nat \ {0} : n = Len(p.images) /\ DOMAIN p.images = 1 .. n
  BY PackageIs
<1>5. PICK i \in 1 .. n : i = s.i /\ i \in s.dl
  BY <1>1, <1>3, <1>4, ImageAt
<1>6. PICK D \in SUBSET (1 .. n) : D = s.dl /\ (p.fmt = "all" => D = 1 .. n)
  BY <1>1, <1>2, <1>3, <1>4 DEF Position
<1>7. PICK z : z = s'
  OBVIOUS
<1>8. /\ z \in SessionType /\ z.pkg = p /\ z.dup = s.dup /\ z.t = s.t /\ z.dl = D
      /\ z.i = i + 1 /\ z.open = FALSE /\ z.start = a
      /\ \/ p.fmt = "part" /\ z.pc = "connect"
         \/ p.fmt = "all" /\ i = n /\ z.pc = "dupfs"
         \/ p.fmt = "all" /\ i # n /\ z.pc \in {"recv", "image"}
      /\ z.pc = "image" => z.buf > 0
  <2>1. /\ z \in SessionType /\ z.pkg = s.pkg /\ z.dup = s.dup /\ z.t = s.t /\ z.dl = s.dl
        /\ z.i = s.i + 1 /\ z.open = FALSE /\ z.start = NextStart
        /\ \/ s.pkg.fmt = "part" /\ z.pc = "connect"
           \/ s.pkg.fmt = "all" /\ s.i = Len(Images) /\ z.pc = "dupfs"
           \/ s.pkg.fmt = "all" /\ s.i # Len(Images) /\ z.pc \in {"recv", "image"}
        /\ z.pc = "image" => z.buf > 0
    BY <1>1, <1>7, AdvanceIs
  <2> QED
    BY <1>3, <1>4, <1>5, <1>6, <2>1
<1>9. /\ a \in Nat /\ s.start <= a /\ a <= Hi(f, s.t)
      /\ a + NeedOf(p, 1 .. n)[n] <= Hi(f, s.t) + NeedOf(p, D)[i]
  BY <1>3, <1>4, <1>5, <1>6, RoomForOne
<1>10. Types' /\ Handles'
  <2>1. Types'
    BY <1>1, <1>7, <1>8 DEF Types, bootVars
  <2>2. s'.open = FALSE
    BY <1>7, <1>8
  <2>3. Handles'
    BY <2>2, HandlesBack
  <2> QED
    BY <2>1, <2>3
<1>11. Images' = p.images /\ (Loading' <=> z.pc # "dupfs")
  BY <1>7, <1>8 DEF Images, Loading
<1>12. Touch(f)
  BY DEF Touch
<1>13. Room(f)'
  <2>1. (i + 1) - 1 = i
    OBVIOUS
  <2> QED
    BY <1>4, <1>7, <1>8, <1>9, <1>11, <2>1 DEF Room
<1>14. Position'
  <2>1. i + 1 <= n + 1
    OBVIOUS
  <2>2. i # n => i + 1 \in 1 .. n
    OBVIOUS
  <2> QED
    BY <1>4, <1>6, <1>7, <1>8, <1>11, <2>1, <2>2 DEF Position
<1>15. FsErased'
  <2>1. \A k \in 1 .. n : p.images[k].id = "fs1" /\ k > i =>
          Blank(flash', First(ent'[active'], "fs2").start, End(First(ent'[active'], "fs2")))
    BY <1>3, <1>4, <1>5, FsStays
  <2>2. \A k \in 1 .. n : k > z.i \/ k = z.i => k > i
    BY <1>8
  <2> QED
    BY <1>4, <1>7, <1>8, <1>11, <2>1, <2>2 DEF FsErased
<1>16. Entered'
  <2>1. \A k \in 1 .. n : Passed(k)' => k \in D /\ (k < i \/ k = i)
    <3>1. CASE z.pc = "dupfs"
      BY <1>6, <1>8, <3>1
    <3>2. CASE z.pc # "dupfs"
      BY <1>6, <1>7, <1>8, <1>11, <3>2 DEF Passed
    <3> QED
      BY <3>1, <3>2
  <2>2. InEntry(flash', ent'[s.t], p.images[i], s.dup)
    BY <1>3, <1>5 DEF Img
  <2>3. \A k \in D : k < i => InEntry(flash', ent'[s.t], p.images[k], s.dup)
    BY <1>3, <1>5, <1>6
  <2> QED
    BY <1>4, <1>7, <1>8, <1>11, <2>1, <2>2, <2>3 DEF Entered
<1>17. \/ s.pc # "dupfs" /\ s.pc # "finish" /\ s'.pc \in {"connect", "recv", "image", "dupimages"}
       \/ s'.pc \in {"dupfs", "finish"}
  BY <1>7, <1>8
<1>18. /\ s'.t = s.t /\ s'.pkg = s.pkg /\ s'.dl = s.dl /\ s'.open = FALSE
       /\ s.start <= s'.start /\ s'.start <= Hi(f, s.t)
       /\ NewOf(f, s.t, ent'[s.t], ent'[active], s'.start, FALSE)
  BY <1>3, <1>6, <1>7, <1>8, <1>9
<1> QED
  BY <1>2, <1>10, <1>12, <1>13, <1>14, <1>15, <1>16, <1>17, <1>18, Loaded

\* The first block.
LEMMA FirstBlock ==
  /\ Through(0) = BlockSize /\ BlockSize \in Nat \ {0}
  /\ \A q \in Nat : q > 0 => BlockSize <= q * BlockSize
<1>1. PICK b \in Nat \ {0} : b = BlockSize
  BY Consts
<1>2. 0 \div b = 0
  BY Remainder, Division
<1>3. \A q \in Nat : q > 0 => b <= q * b
  <2>1. SUFFICES ASSUME NEW q \in Nat, q > 0 PROVE b <= q * b
    OBVIOUS
  <2>2. 1 * b <= q * b
    BY <2>1, Order
  <2> QED
    BY <2>2
<1> QED
  BY <1>1, <1>2, <1>3 DEF Through

LEMMA BlankLess ==
  ASSUME NEW g, NEW x \in Nat, NEW c \in Nat, Blank(g, x, c),
         NEW a \in Nat, NEW b \in Nat, x <= a, b <= c
  PROVE  Blank(g, a, b)
<1>1. \A u \in a .. b - 1 : u \in x .. c - 1
  OBVIOUS
<1> QED
  BY <1>1 DEF Blank

LEMMA InvOpenImage ==
  ASSUME NEW f \in Factories, InvOf(f), OpenImage
  PROVE  InvOf(f)' /\ Careful(f)
<1>1. /\ Types /\ Handles /\ Position /\ Room(f) /\ FsErased /\ ToCopy /\ Entered
  BY DEF InvOf
<1>2. s.pc = "image" /\ s.open = FALSE /\ UNCHANGED bootVars
  BY <1>1, SessionIs DEF OpenImage, At
<1>3. Busy /\ Placing /\ Loading /\ Reading
  BY <1>2 DEF Busy, Placing, Loading, Reading
<1>4. /\ s \in SessionType /\ s.t \in Sector /\ active \in Sector /\ s.pkg \in Packages /\ s.dup \in BOOLEAN
      /\ s.i \in Nat \ {0}
  BY <1>1, <1>2, <1>3, SessionIs, Basics
<1>5. PICK y \in Nat : y = s.start
  BY <1>3, Basics
<1>6. PICK hi \in Nat : hi = Hi(f, s.t) /\ y <= hi /\ hi <= FlashSize
  BY <1>3, <1>5, Basics
<1>7. PICK g \in Image : g = Img /\ Disk(g) \in Nat /\ g.len \in Nat /\ g.len <= Disk(g)
                         /\ (g.id # "sbl" => \E q \in Nat : q > 0 /\ Disk(g) = q * BlockSize)
  BY <1>1, <1>2, ImageAt
<1>8. fwd[s.t].magic /\ fwd[s.t].images /\ fwd[s.t].status # "valid"
  BY <1>3, Signed
<1>9. PICK act \in Seq(ImageEntry) : act = ent[active] /\ SetOf(f, active, act)
  BY Basics
<1>10. fwd \in [Sector -> Fwd]
  BY <1>1 DEF Types
<1>11. CASE ~ Creatable(Img)
  <2>1. Stop /\ UNCHANGED <<fwd, ent, flash>>
    BY <1>11 DEF OpenImage
  <2>2. Fades
    BY <2>1 DEF Fades
  <2> QED
    BY <1>2, <1>10, <2>1, <2>2, FadeStop DEF Careful
<1>12. CASE Creatable(Img)
  <2>1. PICK e : e = NewEntry(g) /\ Create(s.t, e)
    BY <1>7, <1>12 DEF OpenImage
  <2>2. free > 0 /\ (g.id = "fs1" => Has(act, "fs2") /\ Disk(g) <= First(act, "fs2").size)
    BY <1>7, <1>9, <1>12, FoundIs DEF Creatable
  <2>3. e \in ImageEntry /\ MadeOf(e, g, act, y)
    BY <1>1, <1>5, <1>7, <1>9, <2>1, <2>2, NewEntryIs
  <2>4. /\ e.id = g.id /\ e.ver = g.ver /\ e.len = g.len /\ e.start \in Nat /\ e.size \in Nat
        /\ InArea(g) => e.start = y /\ e.size = Disk(g)
        /\ g.id = "fs1" => AtPlace(e, First(act, "fs2")) /\ Disk(g) <= e.size
        /\ End(e) = e.start + e.size
    BY <2>3, EntryIs DEF MadeOf, End
  <2>5. g.id \in Programs \cup {"fs1", "sbl"} /\ "fs1" \notin Programs /\ "sbl" \notin Programs
    BY IdKinds DEF Image
  <2>6. InArea(g) <=> g.id \in Programs
    BY DEF InArea
  <2>7. BlockSize \in Nat \ {0} /\ Through(0) = BlockSize /\ (g.id # "sbl" => BlockSize <= Disk(g))
    BY <1>7, FirstBlock
  <2>8. /\ flash' = IF InArea(g) THEN Wiped(flash, e, 0, BlockSize) ELSE flash
        /\ fwd' = [fwd EXCEPT ![s.t].sbl = @ \/ Img.id = "sbl"]
    BY <1>7, <1>12, <2>1 DEF OpenImage
  <2>9. PICK a \in Nat : a = NextStart /\ y <= a /\ a <= hi /\ (InArea(g) => a = y + Disk(g))
    <3>1. PICK a : a = NextStart
      OBVIOUS
    <3>2. a \in Nat /\ s.start <= a /\ a <= Hi(f, s.t)
      BY <1>2, <3>1, RoomForOne
    <3>3. InArea(g) => a = y + Disk(g)
      BY <1>5, <1>7, <3>1 DEF NextStart
    <3> QED
      BY <1>5, <1>6, <3>1, <3>2, <3>3
  <2>10. PICK h : h = flash'
    OBVIOUS
  <2>11. /\ Only(flash, h, y, hi)
         /\ InArea(g) => Blank(h, y, y + BlockSize)
    <3>1. CASE ~ InArea(g)
      BY <2>8, <2>10, <3>1, OnlyNothing
    <3>2. CASE InArea(g)
      <4>1. PICK b \in Nat : b = y + BlockSize /\ b <= hi
        <5>1. BlockSize <= Disk(g)
          BY <2>5, <2>6, <2>7, <3>2
        <5>2. PICK d \in Nat : d = Disk(g)
          BY <1>7
        <5>3. y + d <= hi
          BY <2>9, <3>2, <5>2
        <5> QED
          BY <2>7, <5>1, <5>2, <5>3
      <4>2. h = Wiped(flash, e, 0, BlockSize) /\ y = e.start + 0 /\ b = e.start + 0 + BlockSize /\ 0 \in Nat
        BY <2>4, <2>8, <2>10, <3>2, <4>1
      <4>3. \A u \in Addr : h[u] = IF u \in e.start + 0 .. e.start + 0 + BlockSize - 1 THEN Erased ELSE flash[u]
        BY <4>2 DEF Wiped
      <4>4. \A u \in Addr : h[u] = IF u \in y .. b - 1 THEN Erased ELSE flash[u]
        BY <2>4, <2>7, <3>2, <4>1, <4>3
      <4>5. Only(flash, h, y, hi)
        <5>1. \A u \in y .. b - 1 : u \in y .. hi - 1
          BY <1>6, <4>1
        <5> QED
          BY <4>4, <5>1 DEF Only
      <4>6. \A u \in y .. b - 1 : u \in Addr
        BY <1>6, <4>1, Consts
      <4>7. Blank(h, y, b)
        BY <4>4, <4>6 DEF Blank
      <4> QED
        BY <4>1, <4>5, <4>7
    <3> QED
      BY <3>1, <3>2
  <2>12. InTrial(f)
    BY <1>5, <1>6, <2>10, <2>11 DEF InTrial
  <2>13. /\ fwd' \in [Sector -> Fwd] /\ fwd'[s.t].magic /\ fwd'[s.t].images
         /\ fwd'[s.t].status # "valid" /\ \A j \in Sector \ {s.t} : fwd'[j] = fwd[j]
    <3>1. PICK v \in Fwd : v = fwd[s.t]
      BY <1>4, <1>10
    <3>2. PICK w : w = [v EXCEPT !.sbl = v.sbl \/ Img.id = "sbl"]
      OBVIOUS
    <3>3. (v.sbl \/ Img.id = "sbl") \in BOOLEAN
      BY DEF Fwd
    <3>4. w \in Fwd /\ w.magic = v.magic /\ w.images = v.images /\ w.status = v.status
      BY <3>2, <3>3 DEF Fwd
    <3>5. fwd' = [fwd EXCEPT ![s.t] = w]
      BY <1>4, <1>10, <2>8, <3>1, <3>2
    <3>6. fwd' \in [Sector -> Fwd] /\ fwd'[s.t] = w /\ \A j \in Sector \ {s.t} : fwd'[j] = fwd[j]
      BY <1>4, <1>10, <3>4, <3>5
    <3> QED
      BY <1>8, <3>1, <3>4, <3>6
  <2>14. Beside
    BY <1>1, <1>2, <1>4, <2>1, <2>3, <2>13, CreateIs DEF Beside, bootVars
  <2>15. /\ e.id \in Programs \cup {"fs1", "sbl"}
         /\ e.id = "fs1" => /\ Has(f, "fs1") /\ AtPlace(e, First(ent[active], "fs2"))
                            /\ e.len <= e.size
         /\ e.id \in Programs => Lo(f, s.t) <= e.start /\ e.len <= e.size /\ End(e) <= a
    <3>1. e.id = "fs1" => Has(f, "fs1")
      BY <1>2, <1>9, <2>2, <2>4, FsKnown
    <3>2. e.id = "fs1" \/ e.id \in Programs => e.len <= e.size
      BY <1>7, <2>4, <2>6
    <3>3. Lo(f, s.t) <= y
      BY <1>3, <1>5, Basics
    <3> QED
      BY <1>9, <2>4, <2>5, <2>6, <2>9, <3>1, <3>2, <3>3
  <2>16. \A k \in s.dl : k < s.i => InEntry(flash, ent[s.t], Images[k], s.dup)
    BY <1>1, <1>2, <1>3, <1>4 DEF Entered, Passed, Position
  <2>17. SUFFICES InvOf(f)'
    BY <1>3, <2>12 DEF Careful, Touch
  <2>18. CASE Img.len = 0 /\ s.pkg.fmt = "all"
    <3>1. s' = Advance(s) /\ free' = free
      BY <1>12, <2>18 DEF OpenImage
    <3>2. Contains(flash', e) /\ Keeps(flash', e)
      BY <1>7, <2>4, <2>18 DEF Contains, Keeps
    <3>3. /\ NewOf(f, s.t, ent'[s.t], ent'[active], a, FALSE)
          /\ AllHeld(flash', ent'[s.t], FALSE)
          /\ ent' \in [Sector -> Seq(ImageEntry)]
          /\ \A c : \/ InEntry(flash, ent[s.t], c, s.dup)
                    \/ /\ e.id = c.id /\ e.ver = c.ver
                       /\ (e.id = "fs1" /\ ~ s.dup) => Contains(flash', e)
               => InEntry(flash', ent'[s.t], c, s.dup)
      BY <1>2, <1>3, <1>5, <2>1, <2>3, <2>9, <2>12, <2>14, <2>15, <3>2, Enters
    <3>4. InEntry(flash', ent'[s.t], Img, s.dup)
      BY <1>7, <2>4, <3>2, <3>3
    <3>5. \A k \in s.dl : k < s.i => InEntry(flash', ent'[s.t], Images[k], s.dup)
      BY <2>16, <3>3
    <3>6. Like(s)
      BY <1>4 DEF Like
    <3>7. PICK z \in Nat : z = free /\ z <= MaxHandles
      <4>1. MaxHandles \in Nat
        BY InstallAssumption
      <4> QED
        BY <1>1, <1>2, <4>1 DEF Handles
    <3> QED
      BY <1>2, <2>9, <2>12, <2>13, <2>14, <3>1, <3>3, <3>4, <3>5, <3>6, <3>7, Advanced
  <2>19. CASE ~ (Img.len = 0 /\ s.pkg.fmt = "all")
    <3>1. s' = [s EXCEPT !.open = TRUE, !.cnt = 0] /\ free' = free - 1
      BY <1>12, <2>19 DEF OpenImage
    <3>2. /\ NewOf(f, s.t, ent'[s.t], ent'[active], y, TRUE)
          /\ AllHeld(flash', ent'[s.t], TRUE)
          /\ ent' \in [Sector -> Seq(ImageEntry)]
          /\ ent'[s.t] # <<>> /\ ent'[s.t][Len(ent'[s.t])] = e /\ ent'[active] = ent[active]
          /\ \A c : \/ InEntry(flash, ent[s.t], c, s.dup)
                    \/ /\ e.id = c.id /\ e.ver = c.ver
                       /\ (e.id = "fs1" /\ ~ s.dup) => Contains(flash', e)
               => InEntry(flash', ent'[s.t], c, s.dup)
      <4>1. s.start <= y
        BY <1>5
      <4> QED
        BY <1>2, <1>3, <2>1, <2>3, <2>12, <2>14, <2>15, <4>1, Enters
    <3>3. /\ s' \in SessionType /\ s'.pc = s.pc /\ s'.t = s.t /\ s'.start = s.start /\ s'.pkg = s.pkg
          /\ s'.open = TRUE /\ s'.i = s.i /\ s'.dup = s.dup /\ s'.dl = s.dl /\ s'.cnt = 0 /\ s'.buf = s.buf
      BY <1>4, <3>1 DEF SessionType
    <3>4. Types' /\ Handles'
      <4>1. Types'
        BY <1>1, <1>2, <1>4, <2>13, <3>2, <3>3 DEF Types, bootVars
      <4>2. PICK z \in Nat : z = free /\ z > 0 /\ z <= MaxHandles
        <5>1. MaxHandles \in Nat
          BY InstallAssumption
        <5> QED
          BY <1>1, <1>2, <2>2, <5>1 DEF Handles
      <4>3. z - 1 \in Nat /\ (z - 1) + 1 <= MaxHandles
        BY <4>2
      <4>4. Handles'
        BY <3>1, <3>3, <4>2, <4>3 DEF Handles
      <4> QED
        BY <4>1, <4>4
    <3>5. Busy' /\ Placing' /\ Loading' /\ Reading'
      BY <1>2, <3>3 DEF Busy, Placing, Loading, Reading
    <3>6. Images' = Images /\ Img' = g
      BY <1>7, <3>3 DEF Images, Img
    <3>7. Touch(f)
      BY <2>12 DEF Touch
    <3>8. Table(f)' /\ Sets(f)' /\ Intact' /\ Chosen' /\ Clear(f)'
      <4>1. s'.start \in Nat /\ s.start <= s'.start /\ s'.start <= Hi(f, s.t)
        BY <1>5, <1>6, <3>3
      <4>2. s'.pc \notin {"erase", "fs2", "prepare", "config"}
        BY <1>2, <3>3
      <4> QED
        BY <1>3, <2>13, <2>14, <3>3, <3>5, <3>7, <4>1, <4>2, GoesOn
    <3>9. Room(f)'
      BY <1>1, <1>2, <1>3, <3>3, <3>5, <3>6 DEF Room
    <3>10. Position'
      BY <1>1, <1>2, <1>3, <3>3, <3>5, <3>6 DEF Position
    <3>11. NewSet(f)' /\ Complete'
      BY <1>2, <1>5, <3>2, <3>3 DEF NewSet, Complete, bootVars
    <3>12. Last' = e /\ ent[active]' = act /\ ent'[s'.t] # <<>>
      BY <1>2, <1>9, <3>2, <3>3 DEF Last, bootVars
    <3>13. OpenEntry'
      BY <1>5, <2>3, <3>3, <3>6, <3>12 DEF OpenEntry
    <3>14. Partly'
      <4>1. 0 < g.len \/ (0 = 0 /\ g.len = 0 /\ s.pkg.fmt = "part")
        <5>1. s.pkg.fmt \in {"all", "part"}
          BY <1>4, PackageIs
        <5> QED
          BY <1>7, <2>19, <5>1
      <4>2. Begun(h, e, 0)
        BY DEF Begun
      <4>3. ASSUME g.id # "sbl", 0 < g.len
            PROVE  Blank(h, e.start + 0, e.start + Through(0))
        <5>1. e.start + 0 = e.start /\ e.start + Through(0) = e.start + BlockSize
          BY <2>4, <2>7
        <5>2. CASE g.id \in Programs
          BY <2>4, <2>6, <2>11, <5>1, <5>2
        <5>3. CASE g.id = "fs1"
          <6>1. h = flash
            BY <2>5, <2>6, <2>8, <2>10, <5>3
          <6>2. PICK d : d = First(act, "fs2")
            OBVIOUS
          <6>3. Blank(flash, d.start, End(d))
            <7>1. s.i \in DOMAIN Images /\ Images[s.i].id = "fs1"
              BY <1>1, <1>2, <1>7, <5>3, ImageAt DEF Img
            <7> QED
              BY <1>1, <1>2, <1>9, <6>2, <7>1 DEF FsErased
          <6>4. d.start = e.start /\ End(d) = e.start + e.size /\ BlockSize <= e.size
            <7>1. AtPlace(e, d)
              BY <2>4, <5>3, <6>2
            <7>2. d.start = e.start /\ End(d) = End(e)
              BY <7>1, SamePlace
            <7>3. BlockSize <= e.size
              BY <1>7, <2>4, <2>7, <4>3, <5>3
            <7> QED
              BY <2>4, <7>2, <7>3
          <6>5. PICK b \in Nat : b = e.start + BlockSize
            BY <2>4, <2>7
          <6>6. PICK c \in Nat : c = e.start + e.size
            BY <2>4
          <6>7. Blank(flash, e.start, c) /\ b <= c
            BY <2>4, <2>7, <6>3, <6>4, <6>5, <6>6
          <6>8. Blank(flash, e.start, b)
            BY <2>4, <6>7, BlankLess
          <6> QED
            BY <5>1, <6>1, <6>5, <6>8
        <5> QED
          BY <2>5, <4>3, <5>2, <5>3
      <4> QED
        BY <2>10, <3>3, <3>6, <3>12, <4>1, <4>2, <4>3 DEF Partly
    <3>15. FsErased'
      <4>1. \A k \in DOMAIN Images : Images[k].id = "fs1" /\ k > s.i =>
              Blank(flash', First(ent'[active'], "fs2").start, End(First(ent'[active'], "fs2")))
        BY <1>2, <2>12, <2>14, FsStays
      <4> QED
        BY <3>3, <3>6, <4>1 DEF FsErased
    <3>16. ToCopy'
      <4>1. \A k \in DOMAIN Images \ s.dl : CanCopy(flash', ent[active], Images[k])
        BY <1>3, <3>7, CopyKept
      <4> QED
        BY <1>9, <3>3, <3>6, <3>12, <4>1 DEF ToCopy
    <3>17. Entered'
      <4>1. \A k \in DOMAIN Images : Passed(k)' => k \in s.dl /\ k < s.i
        BY <1>2, <3>3 DEF Passed
      <4>2. \A k \in s.dl : k < s.i => InEntry(flash', ent'[s.t], Images[k], s.dup)
        BY <2>16, <3>2
      <4> QED
        BY <3>3, <3>6, <4>1, <4>2 DEF Entered
    <3> QED
      BY <3>4, <3>8, <3>9, <3>10, <3>11, <3>13, <3>14, <3>15, <3>16, <3>17 DEF InvOf
  <2> QED
    BY <2>18, <2>19
<1> QED
  BY <1>11, <1>12

-----------------------------------------------------------------------------
(* An image, written block by block.                                       *)

LEMMA ThroughFits ==
  ASSUME NEW c \in Nat, NEW d \in Nat, NEW q \in Nat, d = q * BlockSize, c < d
  PROVE  Through(c) \in Nat /\ Through(c) <= d
<1>1. PICK b \in Nat \ {0} : b = BlockSize
  BY Consts
<1>2. PICK a \in Nat : a = c \div b /\ a * b <= c
  BY Division
<1>3. a * b \in Nat /\ q * b \in Nat
  OBVIOUS
<1>4. a < q
  <2>1. a * b < q * b
    BY <1>1, <1>2, <1>3
  <2> QED
    BY <2>1, Order
<1>5. a * b + b <= q * b
  BY <1>4, Order
<1>6. (a + 1) * b = a * b + b
  OBVIOUS
<1> QED
  BY <1>1, <1>2, <1>3, <1>5, <1>6 DEF Through

\* The blocks from x on are erased, m units.
LEMMA EraseBlocks ==
  ASSUME NEW g, NEW e \in ImageEntry, End(e) <= FlashSize, NEW c \in Nat, NEW x \in Nat, NEW m \in Nat,
         c < x, x + m <= e.size, Begun(g, e, c), Blank(g, e.start + c, e.start + x),
         NEW h, h = Wiped(g, e, x, m)
  PROVE  /\ Only(g, h, e.start, End(e)) /\ Begun(h, e, c)
         /\ Blank(h, e.start + c, e.start + (x + m))
<1>1. /\ e.start \in Nat /\ e.size \in Nat /\ End(e) = e.start + e.size /\ End(e) \in Nat
      /\ FlashSize \in Nat /\ Addr = 0 .. FlashSize - 1
  BY EntryIs, Consts DEF End
<1>2. PICK a \in Nat : a = e.start + x
  BY <1>1
<1>3. PICK b \in Nat : b = e.start + x + m
  BY <1>1
<1>4. a <= b /\ e.start + c < a /\ b <= End(e)
  <2>1. PICK y \in Nat : y = e.start
    BY <1>1
  <2>2. PICK z \in Nat : z = e.size
    BY <1>1
  <2>3. c < x /\ x + m <= z
    BY <2>2
  <2>4. y + x <= y + x + m /\ y + c < y + x /\ y + x + m <= y + z
    BY <2>3, Segment
  <2> QED
    BY <1>1, <1>2, <1>3, <2>1, <2>2, <2>4
<1>5. Only(g, h, a, b) /\ \A u \in Addr : u \in a .. b - 1 => h[u] = Erased
  <2>1. \A u \in Addr : h[u] = IF u \in e.start + x .. e.start + x + m - 1 THEN Erased ELSE g[u]
    BY DEF Wiped
  <2>2. e.start + x = a /\ e.start + x + m - 1 = b - 1
    <3>1. PICK y \in Nat : y = e.start
      BY <1>1
    <3>2. a = y + x /\ b = y + x + m
      BY <1>2, <1>3, <3>1
    <3>3. y + x + m - 1 = b - 1
      BY <3>2
    <3> QED
      BY <3>1, <3>2, <3>3
  <2>3. \A u \in Addr : h[u] = IF u \in a .. b - 1 THEN Erased ELSE g[u]
    BY <2>1, <2>2
  <2> QED
    BY <2>3 DEF Only
<1>6. Only(g, h, e.start, End(e))
  BY <1>1, <1>4, <1>5, OnlyMore
<1>7. Begun(h, e, c)
  <2>1. SUFFICES ASSUME NEW o \in 0 .. c - 1 PROVE h[e.start + o] = <<e.id, e.ver, o>>
    BY DEF Begun
  <2>2. e.start + o \in Addr /\ e.start + o \notin a .. b - 1
    <3>1. o \in Nat /\ o < x /\ x <= e.size
      BY <1>1, <2>1
    <3>2. PICK u \in Nat : u = e.start + o /\ u \in 0 .. FlashSize - 1 /\ u < a
      BY <1>1, <1>2, <3>1, Offset
    <3> QED
      BY <1>1, <3>2
  <2>3. h[e.start + o] = g[e.start + o]
    BY <1>5, <2>2 DEF Only
  <2> QED
    BY <2>3 DEF Begun
<1>8. Blank(h, e.start + c, e.start + (x + m))
  <2>1. SUFFICES ASSUME NEW u \in e.start + c .. (e.start + (x + m)) - 1 PROVE h[u] = Erased
    BY DEF Blank
  <2>2. u \in Addr
    BY <1>1, <2>1
  <2>3. CASE u \in a .. b - 1
    BY <1>5, <2>2, <2>3
  <2>4. CASE u \notin a .. b - 1
    <3>1. u \in e.start + c .. (e.start + x) - 1
      <4>1. u \in Nat /\ e.start + c <= u /\ u < e.start + (x + m)
        BY <1>1, <2>1, <2>2
      <4>2. b = e.start + (x + m) /\ u <= b - 1
        BY <1>1, <1>3, <4>1
      <4>3. u < a
        BY <2>4, <4>1, <4>2
      <4> QED
        BY <1>1, <1>2, <4>1, <4>3
    <3>2. g[u] = Erased
      BY <3>1 DEF Blank
    <3>3. h[u] = g[u]
      BY <1>5, <2>2, <2>4 DEF Only
    <3> QED
      BY <3>2, <3>3
  <2> QED
    BY <2>3, <2>4
<1> QED
  BY <1>6, <1>7, <1>8

\* How much of the blocks behind the one that has c the data reach into.
Ahead(c, w) == (LastBlock(c, w) - (c \div BlockSize + 1)) * BlockSize
Blocks(d)   == \E q \in Nat : d = q * BlockSize

\* What is there to write to: c units are written, and the block has been
\* erased in which the next ones start.
Ready(g, e, c, d) ==
  /\ e \in ImageEntry /\ End(e) <= FlashSize /\ d \in Nat /\ Blocks(d) /\ c < d /\ d <= e.size
  /\ Begun(g, e, c) /\ Blank(g, e.start + c, e.start + Through(c))
CanErase(e, c, w)   == Crosses(c, w) => EraseOK(e, Through(c), Ahead(c, w))
Cleared(g, e, c, w) == IF Crosses(c, w) THEN Wiped(g, e, Through(c), Ahead(c, w)) ELSE g

\* The blocks the data reach into are erased: up to r.
LEMMA EraseAhead ==
  ASSUME NEW g, NEW e, NEW c \in Nat, NEW w \in Nat \ {0}, NEW d, Ready(g, e, c, d), CanErase(e, c, w)
  PROVE  \E r \in Nat :
           /\ c + w <= r /\ r <= e.size
           /\ (c + w) % BlockSize # 0 => r = Through(c + w)
           /\ (c + w) % BlockSize = 0 => Through(c + w) = c + w + BlockSize
           /\ Only(g, Cleared(g, e, c, w), e.start, End(e)) /\ Begun(Cleared(g, e, c, w), e, c)
           /\ Blank(Cleared(g, e, c, w), e.start + c, e.start + r)
<1>1. PICK h : h = Cleared(g, e, c, w)
  OBVIOUS
<1>2. e \in ImageEntry /\ End(e) <= FlashSize /\ Begun(g, e, c) /\ d \in Nat /\ d <= e.size
  BY DEF Ready
<1>3. /\ e.start \in Nat /\ e.size \in Nat /\ End(e) = e.start + e.size /\ End(e) \in Nat
      /\ FlashSize \in Nat /\ Addr = 0 .. FlashSize - 1
  BY <1>2, EntryIs, Consts DEF End
<1>4. CASE ~ Crosses(c, w)
  <2>1. PICK r \in Nat : r = Through(c) /\ r <= d
    BY ThroughFits DEF Ready, Blocks
  <2>2. /\ c + w <= r
        /\ (c + w) % BlockSize # 0 => Through(c + w) = r
        /\ (c + w) % BlockSize = 0 => Through(c + w) = c + w + BlockSize
    BY <1>4, <2>1, WithinBlock
  <2>3. r <= e.size
    BY <1>3, <1>2, <2>1
  <2>4. h = g /\ Only(g, h, e.start, End(e))
    BY <1>4, <1>1, OnlyNothing DEF Cleared
  <2>5. Blank(h, e.start + c, e.start + r)
    BY <2>1, <2>4 DEF Ready
  <2> QED
    BY <1>1, <1>2, <2>1, <2>2, <2>3, <2>4, <2>5
<1>5. CASE Crosses(c, w)
  <2>1. PICK x \in Nat, m \in Nat :
          /\ x = (c \div BlockSize + 1) * BlockSize /\ x = Through(c)
          /\ m = (LastBlock(c, w) - (c \div BlockSize + 1)) * BlockSize
          /\ c < x /\ x < c + w /\ c + w <= x + m
          /\ (c + w) % BlockSize # 0 => x + m = Through(c + w)
          /\ (c + w) % BlockSize = 0 => x + m = c + w /\ Through(c + w) = c + w + BlockSize
    BY <1>5, AcrossBlocks
  <2>2. Through(c) = x /\ Ahead(c, w) = m
    BY <2>1 DEF Ahead
  <2>3. c < x /\ x < c + w /\ c + w <= x + m /\ x = Through(c)
    BY <2>1
  <2>4. x + m <= e.size /\ h = Wiped(g, e, x, m)
    BY <1>5, <1>1, <2>2 DEF EraseOK, CanErase, Cleared
  <2>5. Blank(g, e.start + c, e.start + x)
    BY <2>3 DEF Ready
  <2>6. /\ Only(g, h, e.start, End(e)) /\ Begun(h, e, c)
        /\ Blank(h, e.start + c, e.start + (x + m))
    BY <1>2, <2>4, <2>5, <2>3, EraseBlocks
  <2>7. PICK r \in Nat : r = x + m
    BY <2>1
  <2> QED
    BY <1>1, <2>1, <2>4, <2>6, <2>7
<1> QED
  BY <1>4, <1>5

\* The data are written to what is erased.
LEMMA WriteIn ==
  ASSUME NEW g, NEW e \in ImageEntry, End(e) <= FlashSize, NEW c \in Nat, NEW w \in Nat \ {0},
         NEW r \in Nat, c + w <= r, r <= e.size, Begun(g, e, c), Blank(g, e.start + c, e.start + r),
         NEW h, h = Written(g, e, c, w)
  PROVE  /\ Only(g, h, e.start, End(e)) /\ Begun(h, e, c + w)
         /\ Blank(h, e.start + (c + w), e.start + r)
<1>1. /\ e.start \in Nat /\ e.size \in Nat /\ End(e) = e.start + e.size /\ End(e) \in Nat
      /\ FlashSize \in Nat /\ Addr = 0 .. FlashSize - 1
  BY EntryIs, Consts DEF End
<1>2. \A u \in Addr : h[u] = IF u \in e.start + c .. e.start + c + w - 1
                             THEN IF g[u] = Erased THEN <<e.id, e.ver, u - e.start>> ELSE Spoilt
                             ELSE g[u]
  BY DEF Written
<1>3. ASSUME NEW u \in e.start + c .. e.start + c + w - 1
      PROVE  u \in Addr /\ h[u] = <<e.id, e.ver, u - e.start>>
  <2>1. u \in Addr /\ u \in e.start + c .. (e.start + r) - 1
    BY <1>1, <1>3
  <2>2. g[u] = Erased
    BY <2>1 DEF Blank
  <2> QED
    BY <1>2, <1>3, <2>1, <2>2
<1>4. ASSUME NEW u \in Addr, u \notin e.start + c .. e.start + c + w - 1
      PROVE  h[u] = g[u]
  BY <1>2, <1>4
<1>5. Only(g, h, e.start, End(e))
  <2>1. SUFFICES ASSUME NEW u \in Addr, u \notin e.start .. End(e) - 1 PROVE h[u] = g[u]
    BY DEF Only
  <2>2. u \notin e.start + c .. e.start + c + w - 1
    <3>1. PICK y \in Nat : y = e.start
      BY <1>1
    <3>2. PICK z \in Nat : z = e.size
      BY <1>1
    <3>3. u \notin y .. (y + z) - 1 /\ c + w <= z /\ u \in Nat
      BY <1>1, <2>1, <3>1, <3>2
    <3>4. u \notin y + c .. y + c + w - 1
      BY <3>3
    <3> QED
      BY <3>1, <3>4
  <2> QED
    BY <1>4, <2>2
<1>6. Begun(h, e, c + w)
  <2>1. SUFFICES ASSUME NEW o \in 0 .. (c + w) - 1 PROVE h[e.start + o] = <<e.id, e.ver, o>>
    BY DEF Begun
  <2>2. PICK u \in Nat : u = e.start + o
    BY <1>1, <2>1
  <2>3. CASE o < c
    <3>1. o \in 0 .. c - 1 /\ u \in Addr /\ u \notin e.start + c .. e.start + c + w - 1
      <4>1. o \in Nat /\ c <= e.size
        BY <1>1, <2>1
      <4>2. u \in 0 .. FlashSize - 1 /\ u < e.start + c
        BY <1>1, <2>2, <2>3, <4>1, Offset
      <4> QED
        BY <1>1, <2>3, <4>1, <4>2
    <3>2. h[u] = g[u]
      BY <1>4, <3>1
    <3>3. g[e.start + o] = <<e.id, e.ver, o>>
      BY <3>1 DEF Begun
    <3> QED
      BY <2>2, <3>2, <3>3
  <2>4. CASE ~ (o < c)
    <3>1. u \in e.start + c .. e.start + c + w - 1 /\ u - e.start = o
      <4>1. PICK y \in Nat : y = e.start
        BY <1>1
      <4>2. u = y + o /\ o \in Nat /\ c <= o /\ o <= c + w - 1
        BY <2>1, <2>2, <2>4, <4>1
      <4>3. u \in y + c .. y + c + w - 1 /\ u - y = o
        BY <4>2
      <4> QED
        BY <4>1, <4>3
    <3>2. h[u] = <<e.id, e.ver, u - e.start>>
      BY <1>3, <3>1
    <3> QED
      BY <2>2, <3>1, <3>2
  <2> QED
    BY <2>3, <2>4
<1>7. Blank(h, e.start + (c + w), e.start + r)
  <2>1. SUFFICES ASSUME NEW u \in e.start + (c + w) .. (e.start + r) - 1 PROVE h[u] = Erased
    BY DEF Blank
  <2>2. /\ u \in Addr /\ u \notin e.start + c .. e.start + c + w - 1
        /\ u \in e.start + c .. (e.start + r) - 1
    <3>1. PICK y \in Nat : y = e.start
      BY <1>1
    <3>2. PICK n \in Nat : n = FlashSize
      BY <1>1
    <3>3. y + r <= n
      <4>1. PICK z \in Nat : z = e.size
        BY <1>1
      <4>2. y + z <= n
        <5>1. End(e) <= n
          BY <3>2
        <5> QED
          BY <1>1, <3>1, <4>1, <5>1
      <4>3. r <= z
        BY <4>1
      <4> QED
        BY <4>2, <4>3
    <3>4. u \in y + (c + w) .. (y + r) - 1
      BY <2>1, <3>1
    <3>5. u \in 0 .. n - 1 /\ u \notin y + c .. y + c + w - 1 /\ u \in y + c .. (y + r) - 1
      BY <3>3, <3>4, Behind
    <3> QED
      BY <1>1, <3>1, <3>2, <3>5
  <2>3. h[u] = g[u]
    BY <1>4, <2>2
  <2>4. g[u] = Erased
    BY <2>2 DEF Blank
  <2> QED
    BY <2>3, <2>4
<1> QED
  BY <1>5, <1>6, <1>7

LEMMA OnlyTwice ==
  ASSUME NEW g, NEW k, NEW h, NEW a, NEW b, Only(g, k, a, b), Only(k, h, a, b)
  PROVE  Only(g, h, a, b)
BY DEF Only

\* The block behind the data is erased.
LEMMA EraseNext ==
  ASSUME NEW g, NEW e \in ImageEntry, End(e) <= FlashSize, NEW x \in Nat, NEW m \in Nat,
         x + m <= e.size, Begun(g, e, x), NEW h, h = Wiped(g, e, x, m)
  PROVE  /\ Only(g, h, e.start, End(e)) /\ Begun(h, e, x)
         /\ Blank(h, e.start + x, e.start + (x + m))
<1>1. /\ e.start \in Nat /\ e.size \in Nat /\ End(e) = e.start + e.size /\ End(e) \in Nat
      /\ FlashSize \in Nat /\ Addr = 0 .. FlashSize - 1
  BY EntryIs, Consts DEF End
<1>2. PICK a \in Nat : a = e.start + x
  BY <1>1
<1>3. PICK b \in Nat : b = e.start + x + m
  BY <1>1
<1>4. b = e.start + (x + m)
  BY <1>1, <1>3
<1>5. a <= b /\ e.start <= a /\ b <= End(e)
  BY <1>1, <1>2, <1>3
<1>6. Only(g, h, a, b) /\ \A u \in Addr : u \in a .. b - 1 => h[u] = Erased
  <2>1. \A u \in Addr : h[u] = IF u \in e.start + x .. e.start + x + m - 1 THEN Erased ELSE g[u]
    BY DEF Wiped
  <2>2. e.start + x = a /\ e.start + x + m - 1 = b - 1
    <3>1. PICK y \in Nat : y = e.start
      BY <1>1
    <3>2. a = y + x /\ b = y + x + m
      BY <1>2, <1>3, <3>1
    <3>3. y + x + m - 1 = b - 1
      BY <3>2
    <3> QED
      BY <3>1, <3>2, <3>3
  <2>3. \A u \in Addr : h[u] = IF u \in a .. b - 1 THEN Erased ELSE g[u]
    BY <2>1, <2>2
  <2> QED
    BY <2>3 DEF Only
<1>7. Only(g, h, e.start, End(e))
  BY <1>1, <1>5, <1>6, OnlyMore
<1>8. Begun(h, e, x)
  <2>1. SUFFICES ASSUME NEW o \in 0 .. x - 1 PROVE h[e.start + o] = <<e.id, e.ver, o>>
    BY DEF Begun
  <2>2. e.start + o \in Addr /\ e.start + o \notin a .. b - 1
    <3>1. o \in Nat /\ o < x /\ x <= e.size
      BY <1>1, <2>1
    <3>2. PICK u \in Nat : u = e.start + o /\ u \in 0 .. FlashSize - 1 /\ u < a
      BY <1>1, <1>2, <3>1, Offset
    <3> QED
      BY <1>1, <3>2
  <2>3. h[e.start + o] = g[e.start + o]
    BY <1>6, <2>2 DEF Only
  <2> QED
    BY <2>3 DEF Begun
<1>9. \A u \in a .. b - 1 : u \in Addr
  BY <1>1, <1>5
<1>10. Blank(h, a, b)
  BY <1>6, <1>9 DEF Blank
<1> QED
  BY <1>2, <1>7, <1>8, <1>10, <1>4

\* One write of w units to an image of len units, of which c are there.
After(g, e, c, w, len) ==
  LET k == Written(Cleared(g, e, c, w), e, c, w)
  IN  IF c + w < len /\ (c + w) % BlockSize = 0 THEN Wiped(k, e, c + w, BlockSize) ELSE k

LEMMA WriteFlash ==
  ASSUME NEW g, NEW e, NEW c \in Nat, NEW w \in Nat \ {0}, NEW d, Ready(g, e, c, d), CanErase(e, c, w),
         NEW len \in Nat, c + w <= len, len <= d, NEW h, h = After(g, e, c, w, len)
  PROVE  /\ Only(g, h, e.start, End(e)) /\ Begun(h, e, c + w)
         /\ c + w < len => Blank(h, e.start + (c + w), e.start + Through(c + w))
<1>1. e \in ImageEntry /\ End(e) <= FlashSize /\ d \in Nat /\ d <= e.size
  BY DEF Ready
<1>2. e.size \in Nat /\ e.start \in Nat /\ BlockSize \in Nat
  BY <1>1, EntryIs, Consts
<1>3. PICK f1 : f1 = Cleared(g, e, c, w)
  OBVIOUS
<1>4. PICK f2 : f2 = Written(f1, e, c, w)
  OBVIOUS
<1>5. PICK r \in Nat :
        /\ c + w <= r /\ r <= e.size
        /\ (c + w) % BlockSize # 0 => r = Through(c + w)
        /\ (c + w) % BlockSize = 0 => Through(c + w) = c + w + BlockSize
        /\ Only(g, f1, e.start, End(e)) /\ Begun(f1, e, c) /\ Blank(f1, e.start + c, e.start + r)
  BY <1>3, EraseAhead
<1>6. /\ Only(f1, f2, e.start, End(e)) /\ Begun(f2, e, c + w)
      /\ Blank(f2, e.start + (c + w), e.start + r)
  BY <1>1, <1>4, <1>5, WriteIn
<1>7. Only(g, f2, e.start, End(e))
  BY <1>5, <1>6, OnlyTwice
<1>8. CASE ~ (c + w < len /\ (c + w) % BlockSize = 0)
  <2>1. h = f2
    BY <1>3, <1>4, <1>8 DEF After
  <2> QED
    BY <1>5, <1>6, <1>7, <1>8, <2>1
<1>9. CASE c + w < len /\ (c + w) % BlockSize = 0
  <2>1. PICK x \in Nat : x = c + w
    OBVIOUS
  <2>2. x + BlockSize <= e.size
    <3>1. PICK q \in Nat : d = q * BlockSize
      BY DEF Ready, Blocks
    <3>2. x < d /\ x % BlockSize = 0
      BY <1>1, <1>9, <2>1
    <3>3. x + BlockSize <= d
      BY <1>1, <3>1, <3>2, NextBlockFits
    <3> QED
      BY <1>1, <1>2, <3>3
  <2>3. Begun(f2, e, x) /\ h = Wiped(f2, e, x, BlockSize)
    BY <1>3, <1>4, <1>6, <1>9, <2>1 DEF After
  <2>4. /\ Only(f2, h, e.start, End(e)) /\ Begun(h, e, x)
        /\ Blank(h, e.start + x, e.start + (x + BlockSize))
    BY <1>1, <1>2, <2>2, <2>3, EraseNext
  <2>5. Only(g, h, e.start, End(e))
    BY <1>7, <2>4, OnlyTwice
  <2>6. Through(x) = x + BlockSize
    BY <1>5, <1>9, <2>1
  <2> QED
    BY <2>1, <2>4, <2>5, <2>6
<1> QED
  BY <1>8, <1>9

\* How much one step writes, and the session after it.
Amount == IF s.pkg.fmt = "part" THEN s.buf ELSE Min({s.buf, Img.len - s.cnt})
Wrote  == [s EXCEPT !.cnt = s.cnt + Amount, !.buf = s.buf - Amount]

\* The cases of WriteImage.
LEMMA WriteCases ==
  ASSUME WriteImage
  PROVE  /\ s.pc = "image" /\ s.open /\ UNCHANGED <<fwd, ent, bootVars>>
         /\ \/ Stop /\ UNCHANGED flash
            \/ /\ ~ (Amount > Img.len - s.cnt) /\ (Last.id # "sbl" => CanErase(Last, s.cnt, Amount))
               /\ Last.id = "sbl" => flash' = flash
               /\ Last.id # "sbl" => flash' = After(flash, Last, s.cnt, Amount, Img.len)
               /\ \/ s.cnt + Amount >= Img.len /\ s' = Advance(Wrote) /\ free' = free + 1
                  \/ ~ (s.cnt + Amount >= Img.len) /\ s' = [Wrote EXCEPT !.pc = "recv"] /\ free' = free
<1>1. PICK e : e = Last
  OBVIOUS
<1>2. PICK c : c = s.cnt
  OBVIOUS
<1>3. PICK w : w = Amount
  OBVIOUS
<1>4. PICK st : st = Wrote
  OBVIOUS
<1>5. s.pc = "image" /\ s.open /\ UNCHANGED <<fwd, ent, bootVars>>
  BY DEF WriteImage, At
<1>6. CASE w > Img.len - c \/ (e.id # "sbl" /\ Crosses(c, w) /\ ~ EraseOK(e, Through(c), Ahead(c, w)))
  <2>1. Stop /\ UNCHANGED flash
    BY <1>1, <1>2, <1>3, <1>6 DEF WriteImage, Last, Through, Ahead, Amount
  <2> QED
    BY <1>5, <2>1
<1>7. CASE ~ (w > Img.len - c \/ (e.id # "sbl" /\ Crosses(c, w) /\ ~ EraseOK(e, Through(c), Ahead(c, w))))
  <2>1. flash' = CASE e.id = "sbl" -> flash
                   [] e.id # "sbl" /\ NextBlock(c, w) ->
                        Wiped(Written(Cleared(flash, e, c, w), e, c, w), e, c + w, BlockSize)
                   [] OTHER -> Written(Cleared(flash, e, c, w), e, c, w)
    BY <1>1, <1>2, <1>3, <1>7 DEF WriteImage, Last, Through, Ahead, Cleared, Amount
  <2>2. IF c + w >= Img.len THEN s' = Advance(st) /\ free' = free + 1
        ELSE s' = [st EXCEPT !.pc = "recv"] /\ UNCHANGED free
    BY <1>1, <1>2, <1>3, <1>4, <1>7 DEF WriteImage, Last, Through, Ahead, Amount, Wrote
  <2>3. /\ ~ (w > Img.len - c) /\ (e.id # "sbl" => CanErase(e, c, w))
        /\ e.id = "sbl" => flash' = flash
        /\ e.id # "sbl" => flash' = After(flash, e, c, w, Img.len)
    BY <1>7, <2>1 DEF NextBlock, After, CanErase
  <2> QED
    BY <1>1, <1>2, <1>3, <1>4, <1>5, <2>2, <2>3
<1> QED
  BY <1>6, <1>7

\* How much one step writes.
LEMMA WriteSize ==
  ASSUME NEW f \in Factories, InvOf(f), s.pc = "image", s.open, NEW c, c = s.cnt, NEW w, w = Amount
  PROVE  c \in Nat /\ w \in Nat \ {0} /\ w <= s.buf /\ s.buf \in 0 .. MaxChunk
<1>1. Types /\ Position /\ Partly
  BY DEF InvOf
<1>2. PICK b \in Nat : b = s.buf /\ b > 0 /\ b \in 0 .. MaxChunk
  <2>1. s.buf \in 0 .. MaxChunk /\ s.buf > 0
    BY <1>1, SessionIs DEF Position
  <2> QED
    BY <2>1, Consts
<1>3. c \in Nat /\ Img.len \in Nat
  BY <1>1, SessionIs, ImageAt
<1>4. CASE s.pkg.fmt = "part"
  BY <1>2, <1>3, <1>4 DEF Amount
<1>5. CASE s.pkg.fmt # "part"
  <2>1. PICK x \in Nat : x = Img.len - c /\ x > 0
    <3>1. c < Img.len
      BY <1>1, <1>5 DEF Partly
    <3> QED
      BY <1>3, <3>1
  <2>2. w = Min({b, x})
    BY <1>2, <1>5, <2>1 DEF Amount
  <2>3. {b, x} \in SUBSET Nat /\ {b, x} # {}
    OBVIOUS
  <2>4. Min({b, x}) \in {b, x} /\ Min({b, x}) <= b
    BY <2>3, MinIs
  <2> QED
    BY <1>2, <1>3, <2>1, <2>2, <2>4
<1> QED
  BY <1>4, <1>5

\* What the open image is written to.
LEMMA OpenIs ==
  ASSUME NEW f \in Factories, InvOf(f), s.pc = "image", s.open
  PROVE  /\ ent[s.t] \in Seq(ImageEntry) /\ ent[s.t] # <<>> /\ Len(ent[s.t]) \in DOMAIN ent[s.t]
         /\ Last \in ImageEntry /\ Last.id = Img.id /\ Last.ver = Img.ver /\ Last.len = Img.len
         /\ Img.id \in Programs \cup {"fs1", "sbl"}
         /\ Img.id \in Programs => Last.start = s.start /\ End(Last) = NextStart /\ End(Last) <= Hi(f, s.t)
         /\ Img.id = "fs1" => /\ Has(ent[active], "fs2") /\ Last.start = First(ent[active], "fs2").start
                              /\ End(Last) = End(First(ent[active], "fs2"))
         /\ Img.id # "sbl" => End(Last) <= FlashSize /\ Disk(Img) <= Last.size
<1>1. Types /\ Position /\ OpenEntry /\ Busy
  BY DEF InvOf, Busy
<1>2. PICK q \in Seq(ImageEntry) : q = ent[s.t] /\ q # <<>>
  BY <1>1, Basics DEF OpenEntry
<1>3. Len(q) \in DOMAIN q
  <2>1. Len(q) \in Nat /\ Len(q) # 0 /\ DOMAIN q = 1 .. Len(q)
    BY <1>2, EmptySeq
  <2> QED
    BY <2>1
<1>4. PICK act \in Seq(ImageEntry) : act = ent[active] /\ SetOf(f, active, act)
  BY Basics
<1>5. PICK e \in ImageEntry : e = q[Len(q)]
  BY <1>3
<1>6. Last = e
  BY <1>2, <1>5 DEF Last
<1>7. PICK g \in Image : g = Img /\ Disk(g) \in Nat
  BY <1>1, ImageAt
<1>8. PICK y \in Nat : y = s.start
  BY <1>1, Basics
<1>9. MadeOf(e, g, act, y)
  BY <1>1, <1>4, <1>6, <1>7, <1>8 DEF OpenEntry
<1>10. /\ e.id = g.id /\ e.ver = g.ver /\ e.len = g.len
       /\ InArea(g) => e.start = y /\ e.size = Disk(g)
       /\ g.id = "fs1" => AtPlace(e, First(act, "fs2")) /\ Disk(g) <= e.size
  BY <1>9 DEF MadeOf
<1>11. g.id \in Programs \cup {"fs1", "sbl"} /\ (InArea(g) <=> g.id \in Programs)
  BY DEF Image, InArea
<1>12. PICK a \in Nat : a = NextStart /\ a <= Hi(f, s.t)
  <2>1. PICK a : a = NextStart
    OBVIOUS
  <2>2. a \in Nat /\ a <= Hi(f, s.t)
    BY <2>1, RoomForOne
  <2> QED
    BY <2>1, <2>2
<1>13. Hi(f, s.t) \in Nat /\ Hi(f, s.t) <= FlashSize /\ FlashSize \in Nat /\ Base(f) \in Nat /\ Base(f) <= FlashSize
  BY <1>1, Basics, Consts, BaseIs
<1>14. CASE g.id \in Programs
  <2>1. End(e) = a
    BY <1>7, <1>8, <1>10, <1>11, <1>12, <1>14 DEF NextStart, End
  <2>2. g.id # "fs1" /\ Disk(g) <= e.size
    BY <1>7, <1>10, <1>11, <1>14, IdKinds
  <2>3. a <= FlashSize
    BY <1>12, <1>13
  <2> QED
    BY <1>2, <1>3, <1>6, <1>7, <1>8, <1>10, <1>11, <1>12, <1>14, <2>1, <2>2, <2>3
<1>15. CASE g.id = "fs1"
  <2>1. Has(act, "fs2")
    <3>1. \E k \in DOMAIN Images : Images[k].id = "fs1"
      <4>1. s.i \in DOMAIN Images
        BY <1>1, ImageAt
      <4> QED
        BY <1>7, <1>15, <4>1 DEF Img
    <3> QED
      BY <1>4, <3>1, FsKnown
  <2>2. e.start = First(act, "fs2").start /\ End(e) = End(First(act, "fs2"))
    BY <1>10, <1>15, SamePlace
  <2>3. End(First(act, "fs2")) <= Base(f) /\ End(e) \in Nat
    BY <1>4, <2>1, CommonAreas, IdKinds, EntryIs
  <2>4. End(e) <= FlashSize
    BY <1>13, <2>2, <2>3
  <2>5. g.id \notin Programs
    BY <1>15, IdKinds
  <2> QED
    BY <1>2, <1>3, <1>4, <1>6, <1>7, <1>10, <1>11, <1>15, <2>1, <2>2, <2>4, <2>5
<1>16. CASE g.id = "sbl"
  <2>1. g.id \notin Programs /\ g.id # "fs1"
    BY <1>16, IdKinds
  <2> QED
    BY <1>2, <1>3, <1>6, <1>7, <1>10, <1>11, <1>16, <2>1
<1> QED
  BY <1>11, <1>14, <1>15, <1>16

LEMMA InvWriteImage ==
  ASSUME NEW f \in Factories, InvOf(f), WriteImage
  PROVE  InvOf(f)' /\ Careful(f)
<1>1. /\ Types /\ Handles /\ Position /\ Room(f) /\ NewSet(f) /\ OpenEntry /\ Complete /\ Partly
      /\ FsErased /\ ToCopy /\ Entered
  BY DEF InvOf
<1>2. PICK c : c = s.cnt
  OBVIOUS
<1>3. PICK w : w = Amount
  OBVIOUS
<1>4. PICK st : st = Wrote
  OBVIOUS
<1>5. PICK e : e = Last
  OBVIOUS
<1>6. /\ s.pc = "image" /\ s.open /\ UNCHANGED <<fwd, ent, bootVars>>
      /\ \/ Stop /\ UNCHANGED flash
         \/ /\ ~ (w > Img.len - c) /\ (e.id # "sbl" => CanErase(e, c, w))
            /\ e.id = "sbl" => flash' = flash
            /\ e.id # "sbl" => flash' = After(flash, e, c, w, Img.len)
            /\ \/ c + w >= Img.len /\ s' = Advance(st) /\ free' = free + 1
               \/ ~ (c + w >= Img.len) /\ s' = [st EXCEPT !.pc = "recv"] /\ free' = free
  BY <1>2, <1>3, <1>4, <1>5, WriteCases
<1>7. CASE Stop /\ UNCHANGED flash
  <2>1. Fades /\ fwd' \in [Sector -> Fwd]
    BY <1>1, <1>6 DEF Fades, Types
  <2> QED
    BY <1>6, <1>7, <2>1, FadeStop DEF Careful
<1>8. CASE ~ (Stop /\ UNCHANGED flash)
  <2>1. c \in Nat /\ w \in Nat \ {0} /\ w <= s.buf /\ s.buf \in 0 .. MaxChunk
    BY <1>2, <1>3, <1>6, WriteSize
  <2>2. PICK g \in Image : g = Img /\ Disk(g) \in Nat /\ g.len \in Nat /\ g.len <= Disk(g)
                           /\ (g.id # "sbl" => \E q \in Nat : q > 0 /\ Disk(g) = q * BlockSize)
    BY <1>1, <1>6, ImageAt
  <2>3. c + w <= g.len /\ c < g.len
    BY <1>6, <1>8, <2>1, <2>2
  <2>4. Busy /\ Placing /\ Loading /\ Reading
    BY <1>6 DEF Busy, Placing, Loading, Reading
  <2>5. PICK q \in Seq(ImageEntry) : q = ent[s.t] /\ q # <<>> /\ Len(q) \in DOMAIN q /\ q[Len(q)] = e
    BY <1>5, <1>6, OpenIs DEF Last
  <2>6. PICK act \in Seq(ImageEntry) : act = ent[active] /\ SetOf(f, active, act)
    BY Basics
  <2>7. PICK a : a = NextStart
    OBVIOUS
  <2>8. /\ e \in ImageEntry /\ e.id = g.id /\ e.ver = g.ver /\ e.len = g.len
        /\ g.id \in Programs \cup {"fs1", "sbl"}
        /\ g.id \in Programs => e.start = s.start /\ End(e) = a /\ End(e) <= Hi(f, s.t)
        /\ g.id = "fs1" => /\ Has(act, "fs2") /\ e.start = First(act, "fs2").start
                           /\ End(e) = End(First(act, "fs2"))
        /\ g.id # "sbl" => End(e) <= FlashSize /\ Disk(g) <= e.size
    BY <1>5, <1>6, <2>2, <2>6, <2>7, OpenIs
  <2>9. PICK h : h = flash'
    OBVIOUS
  <2>10. g.id # "sbl" => /\ Only(flash, h, e.start, End(e)) /\ Begun(h, e, c + w)
                         /\ c + w < g.len => Blank(h, e.start + (c + w), e.start + Through(c + w))
    <3>1. SUFFICES ASSUME g.id # "sbl"
                   PROVE  /\ Only(flash, h, e.start, End(e)) /\ Begun(h, e, c + w)
                          /\ c + w < g.len => Blank(h, e.start + (c + w), e.start + Through(c + w))
      OBVIOUS
    <3>2. Begun(flash, e, c) /\ Blank(flash, e.start + c, e.start + Through(c))
      BY <1>1, <1>2, <1>5, <1>6, <2>2, <2>3, <3>1 DEF Partly
    <3>3. PICK d \in Nat : d = Disk(g) /\ Blocks(d) /\ c < d /\ g.len <= d
      <4>1. Blocks(Disk(g))
        BY <2>2, <3>1 DEF Blocks
      <4>2. c < Disk(g)
        BY <2>1, <2>2, <2>3
      <4> QED
        BY <2>2, <4>1, <4>2
    <3>4. Ready(flash, e, c, d)
      BY <2>8, <3>1, <3>2, <3>3 DEF Ready
    <3>5. CanErase(e, c, w) /\ h = After(flash, e, c, w, g.len)
      BY <1>6, <1>8, <2>2, <2>8, <2>9, <3>1
    <3> QED
      BY <2>1, <2>2, <2>3, <3>3, <3>4, <3>5, WriteFlash
  <2>11. InTrial(f) \/ (Img.id = "fs1" /\ InData("fs2"))
    <3>1. CASE g.id = "sbl"
      <4>1. flash' = flash
        BY <1>6, <1>8, <2>8, <3>1
      <4> QED
        BY <4>1, OnlyNothing DEF InTrial
    <3>2. CASE g.id = "fs1"
      BY <2>2, <2>6, <2>8, <2>9, <2>10, <3>2 DEF InData
    <3>3. CASE g.id \in Programs
      <4>1. g.id # "sbl"
        BY <3>3, IdKinds
      <4>2. Only(flash, h, e.start, End(e)) /\ e.start = s.start /\ End(e) <= Hi(f, s.t)
        BY <2>8, <2>10, <3>3, <4>1
      <4>3. e.start \in Nat /\ End(e) \in Nat /\ Hi(f, s.t) \in Nat /\ e.start <= e.start
        BY <2>4, <2>8, EntryIs, Basics
      <4>4. Only(flash, h, e.start, Hi(f, s.t))
        BY <4>2, <4>3, OnlyMore
      <4> QED
        BY <2>9, <4>2, <4>4 DEF InTrial
    <3> QED
      BY <2>8, <3>1, <3>2, <3>3
  <2>12. InTrial(f) \/ InData("fs2")
    BY <2>11
  <2>13. fwd'[s.t].magic /\ fwd'[s.t].images /\ fwd'[s.t].status # "valid"
    BY <1>6, <2>4, Signed
  <2>14. Beside
    BY <1>6, <2>13 DEF Beside, bootVars
  <2>15. \A k \in s.dl : k < s.i => InEntry(flash', ent'[s.t], Images[k], s.dup)
    <3>1. SUFFICES ASSUME NEW k \in s.dl, k < s.i PROVE InEntry(flash', ent[s.t], Images[k], s.dup)
      BY <1>6
    <3>2. PICK p \in Packages : p = s.pkg /\ Images = p.images /\ s.i \in DOMAIN p.images /\ s.i \in Nat
      BY <1>1, <1>6, ImageAt
    <3>3. k \in DOMAIN p.images
      BY <1>1, <2>4, <3>2 DEF Position
    <3>4. InEntry(flash, ent[s.t], Images[k], s.dup)
      BY <1>1, <1>6, <2>4, <3>1, <3>2, <3>3 DEF Entered, Passed
    <3>5. Img.id = "fs1" => Images[k].id # "fs1"
      <4>1. k # s.i
        BY <3>1, <3>2
      <4>2. p.images[k].id # p.images[s.i].id
        BY <3>2, <3>3, <4>1, PackageIs
      <4> QED
        BY <3>2, <4>2 DEF Img
    <3>6. InTrial(f) \/ Images[k].id # "fs1"
      BY <2>11, <3>5
    <3> QED
      BY <2>4, <3>4, <3>6, EnteredKept
  <2>16. \A k \in DOMAIN q : q[k].id \in Programs /\ k # Len(q) => Keeps(h, q[k])
    BY <2>4, <2>5, <2>9, <2>12, ProgramsKept
  <2>17. NewOf(f, s.t, q, act, s.start, TRUE) /\ active' = active /\ ent'[s.t] = q /\ ent'[active] = act
    BY <1>1, <1>6, <2>4, <2>5, <2>6 DEF NewSet, bootVars
  <2>18. PICK y \in Nat : y = s.buf - w /\ y \in 0 .. MaxChunk
    BY <2>1, Consts
  <2>19. PICK x \in Nat : x = c + w
    BY <2>1
  <2>20. /\ st \in SessionType /\ st.pkg = s.pkg /\ st.dup = s.dup /\ st.t = s.t /\ st.start = s.start
         /\ st.i = s.i /\ st.dl = s.dl /\ st.open = s.open /\ st.cnt = x
    <3>1. s \in SessionType
      BY <1>1 DEF Types
    <3> QED
      BY <1>2, <1>3, <1>4, <2>18, <2>19, <3>1 DEF SessionType, Wrote
  <2>21. SUFFICES InvOf(f)'
    BY <2>4, <2>12 DEF Careful, Touch
  <2>22. CASE c + w >= Img.len
    <3>1. s' = Advance(st) /\ free' = free + 1
      BY <1>6, <1>8, <2>22
    <3>2. c + w = g.len
      BY <2>1, <2>2, <2>3, <2>22
    <3>3. e.id # "sbl" => Contains(h, e)
      BY <2>8, <2>10, <3>2 DEF Begun, Contains
    <3>4. PICK b \in Nat : b = s.start
      BY <2>4, Basics
    <3>5. a \in Nat /\ b <= a
      BY <1>6, <2>7, <3>4, RoomForOne
    <3>6. NewOf(f, s.t, q, act, b, TRUE)
      BY <2>17, <3>4
    <3>7. e.id \in Programs => End(e) <= a
      <4>1. e.id \in Programs => End(e) = a
        BY <2>8
      <4> QED
        BY <3>5, <4>1
    <3>8. NewOf(f, s.t, q, act, a, FALSE)
      BY <2>5, <3>5, <3>6, <3>7, NewOfClose
    <3>9. AllHeld(h, q, FALSE)
      <4>1. e.id \in Programs => Keeps(h, e)
        BY <3>3, IdKinds, ContainsKeeps
      <4> QED
        BY <2>5, <2>16, <4>1 DEF AllHeld
    <3>10. InEntry(h, q, g, s.dup)
      BY <2>5, <2>8, <3>3 DEF InEntry
    <3>11. PICK z \in Nat : z = free + 1 /\ z <= MaxHandles
      <4>1. MaxHandles \in Nat
        BY InstallAssumption
      <4> QED
        BY <1>1, <1>6, <4>1 DEF Handles
    <3>12. Like(st)
      BY <2>20 DEF Like
    <3>13. fwd' \in [Sector -> Fwd] /\ ent' \in [Sector -> Seq(ImageEntry)] /\ UNCHANGED bootVars /\ free' = z
      BY <1>1, <1>6, <3>1, <3>11 DEF Types
    <3>14. /\ NewOf(f, s.t, ent'[s.t], ent'[active], a, FALSE) /\ AllHeld(flash', ent'[s.t], FALSE)
           /\ InEntry(flash', ent'[s.t], Img, s.dup)
      BY <2>2, <2>9, <2>17, <3>8, <3>9, <3>10
    <3> QED
      BY <1>6, <2>7, <2>11, <2>13, <2>14, <2>15, <3>1, <3>11, <3>12, <3>13, <3>14, Advanced
  <2>23. CASE ~ (c + w >= Img.len)
    <3>1. s' = [st EXCEPT !.pc = "recv"] /\ free' = free
      BY <1>6, <1>8, <2>23
    <3>2. x < g.len
      BY <2>1, <2>2, <2>19, <2>23
    <3>3. /\ s' \in SessionType /\ s'.pc = "recv" /\ s'.t = s.t /\ s'.start = s.start /\ s'.pkg = s.pkg
          /\ s'.open = s.open /\ s'.i = s.i /\ s'.dup = s.dup /\ s'.dl = s.dl /\ s'.cnt = x
      BY <2>20, <3>1 DEF SessionType, Pcs
    <3>4. Types' /\ Handles'
      <4>1. Types'
        BY <1>1, <1>6, <2>4, <3>3 DEF Types, bootVars
      <4>2. Handles'
        BY <1>1, <3>1, <3>3 DEF Handles
      <4> QED
        BY <4>1, <4>2
    <3>5. Busy' /\ Placing' /\ Loading' /\ Reading'
      BY <3>3 DEF Busy, Placing, Loading, Reading
    <3>6. Images' = Images /\ Img' = g
      BY <2>2, <3>3 DEF Images, Img
    <3>7. Touch(f)
      BY <2>12 DEF Touch
    <3>8. Table(f)' /\ Sets(f)' /\ Intact' /\ Chosen' /\ Clear(f)'
      <4>1. s'.start \in Nat /\ s.start <= s'.start /\ s'.start <= Hi(f, s.t)
        BY <2>4, <3>3, Basics
      <4>2. s'.pc \notin {"erase", "fs2", "prepare", "config"}
        BY <3>3
      <4> QED
        BY <2>4, <2>13, <2>14, <3>3, <3>5, <3>7, <4>1, <4>2, GoesOn
    <3>9. Room(f)'
      BY <1>1, <1>6, <2>4, <3>3, <3>5, <3>6 DEF Room
    <3>10. Position'
      BY <1>1, <1>6, <2>4, <3>3, <3>5, <3>6 DEF Position
    <3>11. NewSet(f)' /\ Complete'
      <4>1. AllHeld(h, q, TRUE)
        BY <2>16 DEF AllHeld
      <4>2. s'.open <=> TRUE
        BY <1>6, <3>3
      <4>3. AllHeld(h, q, s'.open) /\ NewOf(f, s.t, q, act, s.start, s'.open)
        BY <2>17, <4>1, <4>2 DEF AllHeld, NewOf
      <4> QED
        BY <2>9, <2>17, <3>3, <4>3 DEF NewSet, Complete
    <3>12. Last' = e /\ ent'[active'] = act /\ ent'[s'.t] = q /\ ent'[s'.t] # <<>>
      BY <2>5, <2>17, <3>3 DEF Last
    <3>13. OpenEntry'
      BY <1>1, <1>5, <1>6, <2>2, <2>6, <3>3, <3>6, <3>12 DEF OpenEntry
    <3>14. Partly'
      BY <2>9, <2>10, <2>19, <3>2, <3>3, <3>6, <3>12 DEF Partly
    <3>15. FsErased'
      <4>1. \A k \in DOMAIN Images : Images[k].id = "fs1" /\ k > s.i =>
              Blank(flash', First(ent'[active'], "fs2").start, End(First(ent'[active'], "fs2")))
        BY <1>6, <2>11, <2>14, FsStays
      <4> QED
        BY <1>6, <3>3, <3>6, <4>1 DEF FsErased
    <3>16. ToCopy'
      <4>1. \A k \in DOMAIN Images \ s.dl : CanCopy(flash', ent[active], Images[k])
        BY <2>4, <3>7, CopyKept
      <4> QED
        BY <2>6, <3>3, <3>6, <3>12, <4>1 DEF ToCopy
    <3>17. Entered'
      <4>1. \A k \in DOMAIN Images : Passed(k)' => k \in s.dl /\ k < s.i
        BY <3>3 DEF Passed
      <4> QED
        BY <2>15, <3>3, <3>6, <4>1 DEF Entered
    <3> QED
      BY <3>4, <3>8, <3>9, <3>10, <3>11, <3>13, <3>14, <3>15, <3>16, <3>17 DEF InvOf
  <2> QED
    BY <2>22, <2>23
<1> QED
  BY <1>7, <1>8

-----------------------------------------------------------------------------
(* The copies.                                                             *)

LEMMA CopiedIs ==
  ASSUME NEW g, NEW d \in ImageEntry, NEW e \in ImageEntry, NEW n \in Nat, e.start + n <= FlashSize,
         NEW h, h = Copied(g, d, e, n)
  PROVE  /\ Only(g, h, e.start, e.start + n)
         /\ \A o \in 0 .. n - 1 : h[e.start + o] = g[d.start + o]
<1>1. PICK y \in Nat : y = e.start
  BY EntryIs
<1>2. PICK x \in Nat : x = d.start
  BY EntryIs
<1>3. \A u \in Addr : h[u] = IF u \in y .. y + n - 1 THEN g[x + u - y] ELSE g[u]
  BY <1>1, <1>2 DEF Copied
<1>4. FlashSize \in Nat /\ Addr = 0 .. FlashSize - 1
  BY Consts
<1>5. Only(g, h, y, y + n)
  <2>1. y + n - 1 = (y + n) - 1
    OBVIOUS
  <2> QED
    BY <1>3, <2>1 DEF Only
<1>6. ASSUME NEW o \in 0 .. n - 1
      PROVE  h[y + o] = g[x + o]
  <2>1. PICK u \in Nat : u = y + o
    OBVIOUS
  <2>2. u \in y .. y + n - 1 /\ x + u - y = x + o
    BY <2>1
  <2>3. u \in Addr
    BY <1>1, <1>4, <2>1
  <2> QED
    BY <1>3, <2>1, <2>2, <2>3
<1> QED
  BY <1>1, <1>2, <1>5, <1>6

LEMMA BlindIs ==
  ASSUME NEW g, NEW d \in ImageEntry, NEW e \in ImageEntry, NEW n \in Nat, e.start + n <= FlashSize,
         NEW B, NEW h, h = CopiedBlind(g, d, e, n, B)
  PROVE  /\ Only(g, h, e.start, e.start + n)
         /\ \A o \in 0 .. n - 1 : h[e.start + o] \in {g[d.start + o], Stale}
<1>1. PICK c : c = Copied(g, d, e, n)
  OBVIOUS
<1>2. /\ Only(g, c, e.start, e.start + n)
      /\ \A o \in 0 .. n - 1 : c[e.start + o] = g[d.start + o]
  BY <1>1, CopiedIs
<1>3. PICK y \in Nat : y = e.start
  BY EntryIs
<1>4. \A u \in Addr : h[u] = c[u] \/ (u \in y .. y + n - 1 /\ h[u] = Stale)
  BY <1>1, <1>3 DEF CopiedBlind
<1>5. FlashSize \in Nat /\ Addr = 0 .. FlashSize - 1
  BY Consts
<1>6. Only(g, h, y, y + n)
  <2>1. y + n - 1 = (y + n) - 1
    OBVIOUS
  <2> QED
    BY <1>2, <1>3, <1>4, <2>1 DEF Only
<1>7. ASSUME NEW o \in 0 .. n - 1 PROVE h[y + o] \in {g[d.start + o], Stale}
  <2>1. y + o \in Addr
    BY <1>3, <1>5
  <2> QED
    BY <1>2, <1>3, <1>4, <2>1
<1> QED
  BY <1>3, <1>6, <1>7

\* The session once everything has been downloaded.
LEMMA DupIs ==
  ASSUME NEW f \in Factories, InvOf(f), s.pc \in {"dupimages", "dupfs", "finish"}
  PROVE  /\ Busy /\ Placing /\ Reading /\ s.open = FALSE
         /\ s \in SessionType /\ s.t \in Sector /\ s.t \in ScanSectors /\ active \in Sector
         /\ s.start \in Nat /\ Lo(f, s.t) \in Nat /\ Lo(f, s.t) <= s.start
         /\ Hi(f, s.t) \in Nat /\ s.start <= Hi(f, s.t) /\ Hi(f, s.t) <= FlashSize
         /\ s.pkg \in Packages /\ Images = s.pkg.images /\ s.dup \in BOOLEAN
         /\ s.pc = "dupimages" => s.dl \subseteq DOMAIN Images /\ s.i \in 1 .. Len(Images) + 1
<1>1. Types /\ Position
  BY DEF InvOf
<1>2. Busy /\ Placing /\ Reading
  BY DEF Busy, Placing, Reading
<1>3. s \in SessionType /\ s.pkg \in Packages /\ s.i \in Nat \ {0} /\ s.open \in BOOLEAN /\ s.dup \in BOOLEAN
  BY <1>1, SessionIs
<1>4. s.open = FALSE /\ (s.pc = "dupimages" => s.dl \subseteq DOMAIN Images /\ s.i <= Len(Images) + 1)
  BY <1>1, <1>3 DEF Position
<1>5. Len(Images) \in Nat
  BY <1>3, PackageIs DEF Images
<1>6. Images = s.pkg.images
  BY DEF Images
<1> QED
  BY <1>2, <1>3, <1>4, <1>5, <1>6, Basics

\* The image that is copied next fits, and so do those that follow.
LEMMA RoomForCopy ==
  ASSUME NEW f \in Factories, InvOf(f), s.pc = "dupimages", s.i <= Len(Images),
         NEW a, a = IF s.i \in s.dl THEN s.start ELSE s.start + Disk(Img)
  PROVE  /\ a \in Nat /\ s.start <= a /\ a <= Hi(f, s.t)
         /\ a + NeedOf(s.pkg, DOMAIN Images)[Len(Images)]
              <= Hi(f, s.t) + NeedOf(s.pkg, s.dl)[Len(Images)] + NeedOf(s.pkg, DOMAIN Images \ s.dl)[s.i]
<1>1. Types /\ Position /\ Room(f) /\ ToCopy
  BY DEF InvOf
<1>2. PICK p \in Packages : p = s.pkg /\ Images = p.images
  BY DupIs
<1>3. PICK n \in Nat : n = Len(p.images) /\ DOMAIN p.images = 1 .. n
  BY PackageIs
<1>4. PICK i \in 1 .. n : i = s.i
  <2>1. s.i \in 1 .. Len(Images) + 1
    BY DupIs
  <2>2. s.i \in 1 .. n + 1 /\ s.i <= n
    BY <1>2, <1>3, <2>1
  <2> QED
    BY <1>3, <2>2
<1>5. PICK D \in SUBSET (1 .. n) : D = s.dl
  BY <1>2, <1>3, DupIs
<1>6. PICK v : v = NeedOf(p, 1 .. n)
  OBVIOUS
<1>7. PICK w : w = NeedOf(p, D)
  OBVIOUS
<1>8. PICK x : x = NeedOf(p, (1 .. n) \ D)
  OBVIOUS
<1>9. v[n] = w[n] + x[n]
  BY <1>3, <1>6, <1>7, <1>8, NeedSplit
<1>10. v[n] \in Nat /\ w[n] \in Nat
  BY <1>3, <1>6, <1>7, NeedIs
<1>11. /\ x[n] \in Nat /\ x[i] \in Nat /\ x[i - 1] \in Nat /\ x[i] <= x[n]
       /\ x[i] = x[i - 1] + (IF i \in (1 .. n) \ D /\ InArea(p.images[i]) THEN Disk(p.images[i]) ELSE 0)
  <2>1. i \in 0 .. n /\ n \in 0 .. n /\ i - 1 \in 0 .. n /\ i <= n
    BY <1>3, <1>4
  <2>2. /\ x \in [0 .. n -> Nat]
        /\ \A a1, b1 \in 0 .. n : a1 <= b1 => x[a1] <= x[b1]
        /\ \A m \in 1 .. n :
             x[m] = x[m - 1] + (IF m \in (1 .. n) \ D /\ InArea(p.images[m]) THEN Disk(p.images[m]) ELSE 0)
    BY <1>3, <1>8, NeedIs
  <2> QED
    BY <2>1, <2>2
<1>12. PICK d \in Nat : d = IF i \in D THEN 0 ELSE Disk(Img)
  <2>1. Disk(p.images[i]) \in Nat
    BY <1>3, <1>4, ImageIs
  <2> QED
    BY <1>2, <1>4, <2>1 DEF Img
<1>13. i \notin D => InArea(p.images[i])
  <2>1. i \notin D => CanCopy(flash, ent[active], p.images[i])
    BY <1>1, <1>2, <1>3, <1>4, <1>5 DEF ToCopy
  <2> QED
    BY <2>1 DEF CanCopy, InArea
<1>14. x[i] = x[i - 1] + d
  BY <1>2, <1>4, <1>11, <1>12, <1>13 DEF Img
<1>15. PICK y \in Nat : y = s.start
  BY DupIs
<1>16. PICK z \in Nat : z = Hi(f, s.t)
  BY DupIs
<1>17. y + v[n] <= z + w[n] + x[i - 1]
  BY <1>1, <1>2, <1>3, <1>4, <1>5, <1>6, <1>7, <1>8, <1>15, <1>16 DEF Room
<1>18. a = y + d
  BY <1>4, <1>5, <1>12, <1>15
<1>19. a \in Nat /\ y <= a /\ a <= z /\ a + v[n] <= z + w[n] + x[i]
  <2>1. PICK k1 \in Nat : k1 = v[n]
    BY <1>10
  <2>2. PICK k2 \in Nat : k2 = w[n]
    BY <1>10
  <2>3. PICK k3 \in Nat : k3 = x[n]
    BY <1>11
  <2>4. PICK k4 \in Nat : k4 = x[i]
    BY <1>11
  <2>5. PICK k5 \in Nat : k5 = x[i - 1]
    BY <1>11
  <2>6. k1 = k2 + k3 /\ k4 = k5 + d /\ k4 <= k3 /\ y + k1 <= z + k2 + k5
    BY <1>9, <1>11, <1>14, <1>17, <2>1, <2>2, <2>3, <2>4, <2>5
  <2>7. y + d \in Nat /\ y <= y + d /\ y + d <= z /\ y + d + k1 <= z + k2 + k4
    BY <2>6
  <2> QED
    BY <1>18, <2>1, <2>2, <2>4, <2>7
<1> QED
  BY <1>2, <1>3, <1>4, <1>5, <1>6, <1>7, <1>8, <1>15, <1>16, <1>19

LEMMA InvDupImage ==
  ASSUME NEW f \in Factories, InvOf(f), DupImage
  PROVE  InvOf(f)' /\ Careful(f)
<1>1. Types /\ Handles /\ Position /\ ToCopy /\ Entered
  BY DEF InvOf
<1>2. s.pc = "dupimages" /\ s.i <= Len(Images) /\ UNCHANGED <<fwd, bootVars>> /\ fwd' \in [Sector -> Fwd] /\ Fades
  BY <1>1 DEF DupImage, At, Fades, Types
<1>3. /\ Busy /\ Placing /\ Reading /\ s.open = FALSE
      /\ s \in SessionType /\ s.t \in Sector /\ s.t \in ScanSectors /\ active \in Sector
      /\ Lo(f, s.t) \in Nat /\ Lo(f, s.t) <= s.start /\ s.dup \in BOOLEAN
  BY <1>2, DupIs
<1>4. PICK p \in Packages : p = s.pkg /\ Images = p.images
  BY <1>2, DupIs
<1>5. PICK n \in Nat : n = Len(p.images) /\ DOMAIN p.images = 1 .. n
  BY PackageIs
<1>6. PICK i \in 1 .. n : i = s.i
  <2>1. s.i \in 1 .. Len(Images) + 1
    BY <1>2, DupIs
  <2>2. s.i \in 1 .. n + 1 /\ s.i <= n
    BY <1>2, <1>4, <1>5, <2>1
  <2> QED
    BY <1>5, <2>2
<1>7. PICK D \in SUBSET (1 .. n) : D = s.dl
  BY <1>2, <1>4, <1>5, DupIs
<1>8. PICK a : a = IF s.i \in s.dl THEN s.start ELSE s.start + Disk(Img)
  OBVIOUS
<1>9. /\ a \in Nat /\ s.start <= a /\ a <= Hi(f, s.t)
      /\ a + NeedOf(s.pkg, DOMAIN Images)[Len(Images)]
           <= Hi(f, s.t) + NeedOf(s.pkg, s.dl)[Len(Images)] + NeedOf(s.pkg, DOMAIN Images \ s.dl)[s.i]
  BY <1>2, <1>8, RoomForCopy
<1>10. fwd'[s.t].magic /\ fwd'[s.t].images /\ fwd'[s.t].status # "valid"
  BY <1>2, <1>3, Signed
<1>11. PICK act \in Seq(ImageEntry) : act = ent[active] /\ SetOf(f, active, act)
  BY Basics
<1>12. \A k \in 1 .. n : k \in D \/ k < i => InEntry(flash, ent[s.t], p.images[k], s.dup)
  BY <1>1, <1>2, <1>3, <1>4, <1>5, <1>6, <1>7 DEF Entered, Passed
\* What both ways on have in common.
<1>13. ASSUME InTrial(f), Beside, free' = free, ent' \in [Sector -> Seq(ImageEntry)],
              s' = [s EXCEPT !.i = i + 1, !.start = a],
              NewOf(f, s.t, ent'[s.t], ent'[active], a, FALSE), AllHeld(flash', ent'[s.t], FALSE),
              \A k \in 1 .. n : k \in D \/ k < i \/ k = i => InEntry(flash', ent'[s.t], p.images[k], s.dup)
       PROVE  InvOf(f)'
  <2>1. /\ s' \in SessionType /\ s'.pc = s.pc /\ s'.t = s.t /\ s'.start = a /\ s'.pkg = s.pkg
        /\ s'.open = s.open /\ s'.i = i + 1 /\ s'.dup = s.dup /\ s'.dl = s.dl
    <3>1. PICK j \in Nat \ {0} : j = i + 1
      BY <1>5, <1>6
    <3>2. s' = [s EXCEPT !.i = j, !.start = a] /\ a \in Nat /\ s \in SessionType
      BY <1>3, <1>9, <1>13, <3>1
    <3>3. s' \in SessionType /\ s'.i = j
      BY <3>2 DEF SessionType
    <3> QED
      BY <3>1, <3>2, <3>3 DEF SessionType
  <2>2. s'.pc = "dupimages" /\ s'.open = FALSE
    BY <1>2, <1>3, <2>1
  <2>3. Types'
    BY <1>1, <1>2, <1>4, <1>13, <2>1 DEF Types, bootVars
  <2>4. Handles'
    BY <1>1, <1>13, <2>1 DEF Handles
  <2>5. Images' = Images
    BY <2>1 DEF Images
  <2>6. Room(f)'
    <3>1. (i + 1) - 1 = s.i
      BY <1>6
    <3>2. ~ Loading'
      BY <2>2 DEF Loading
    <3> QED
      BY <1>9, <2>1, <2>5, <3>1, <3>2 DEF Room
  <2>7. Position'
    <3>1. i + 1 <= n + 1
      BY <1>5, <1>6
    <3>2. ~ Loading'
      BY <2>2 DEF Loading
    <3> QED
      BY <1>4, <1>5, <1>7, <2>1, <2>2, <2>5, <3>1, <3>2 DEF Position
  <2>8. FsErased'
    BY <2>2 DEF FsErased
  <2>9. Entered'
    <3>1. \A k \in 1 .. n : Passed(k)' => k \in D \/ k < i \/ k = i
      <4>1. ~ Loading'
        BY <2>2 DEF Loading
      <4>2. \A k \in 1 .. n : k < i + 1 => k < i \/ k = i
        BY <1>5, <1>6
      <4> QED
        BY <1>7, <2>1, <2>2, <4>1, <4>2 DEF Passed
    <3> QED
      BY <1>4, <1>5, <1>13, <2>1, <2>5, <3>1 DEF Entered
  <2>10. Touch(f)
    BY <1>13 DEF Touch
  <2>11. s.pc # "dupfs" /\ s.pc # "finish" /\ s'.pc \in {"connect", "recv", "image", "dupimages"}
    BY <1>2, <2>2
  <2>12. /\ s.start <= s'.start /\ s'.start <= Hi(f, s.t)
         /\ NewOf(f, s.t, ent'[s.t], ent'[active], s'.start, FALSE)
    BY <1>9, <1>13, <2>1
  <2> QED
    BY <1>3, <1>10, <1>13, <2>1, <2>2, <2>3, <2>4, <2>6, <2>7, <2>8, <2>9, <2>10, <2>11, <2>12, Loaded
<1>14. CASE i \in D
  <2>1. s' = [s EXCEPT !.i = @ + 1] /\ UNCHANGED <<ent, flash, free>> /\ a = s.start
    BY <1>6, <1>7, <1>8, <1>14 DEF DupImage
  <2>2. s' = [s EXCEPT !.i = i + 1, !.start = a]
    BY <1>3, <1>6, <2>1 DEF SessionType
  <2>3. InTrial(f)
    BY <2>1, OnlyNothing DEF InTrial
  <2>4. Beside
    BY <1>2, <1>10, <2>1 DEF Beside, bootVars
  <2>5. /\ NewOf(f, s.t, ent'[s.t], ent'[active], s.start, FALSE)
        /\ AllHeld(flash', ent'[s.t], FALSE)
        /\ ent' \in [Sector -> Seq(ImageEntry)]
        /\ \A g : InEntry(flash, ent[s.t], g, s.dup) => InEntry(flash', ent'[s.t], g, s.dup)
    BY <1>2, <1>3, <2>1, Stands DEF bootVars
  <2>6. \A k \in 1 .. n : k \in D \/ k < i \/ k = i => InEntry(flash', ent'[s.t], p.images[k], s.dup)
    BY <1>12, <1>14, <2>5
  <2> QED
    BY <1>13, <2>1, <2>2, <2>3, <2>4, <2>5, <2>6 DEF Careful
<1>15. CASE i \notin D /\ ~ (free > 1)
  <2>1. Stop /\ UNCHANGED <<ent, flash>>
    BY <1>6, <1>7, <1>15 DEF DupImage
  <2> QED
    BY <1>2, <2>1, FadeStop DEF Careful
<1>16. CASE i \notin D /\ free > 1
  <2>1. PICK g \in Image : g = p.images[i] /\ Disk(g) \in Nat /\ g.len \in Nat /\ g.len <= Disk(g)
    <3>1. p.images[i] \in Image /\ Disk(p.images[i]) \in Nat /\ p.images[i].len <= Disk(p.images[i])
      BY <1>5, <1>6, ImageIs
    <3> QED
      BY <3>1 DEF Image
  <2>2. Img = g
    BY <1>4, <1>6, <2>1 DEF Img
  <2>3. PICK e : e = NewEntry(g) /\ Create(s.t, e)
    BY <1>6, <1>7, <1>16, <2>2 DEF DupImage
  <2>4. PICK d : d = First(act, g.id)
    OBVIOUS
  <2>5. PICK B :
        /\ free' = free /\ flash' = CopiedBlind(flash, d, e, Disk(g), B)
        /\ s' = [s EXCEPT !.i = @ + 1, !.start = @ + Disk(g)]
    BY <1>6, <1>7, <1>11, <1>16, <2>2, <2>3, <2>4, FoundIs DEF DupImage
  <2>6. CanCopy(flash, act, g)
    BY <1>1, <1>2, <1>4, <1>5, <1>6, <1>7, <1>11, <1>16, <2>1 DEF ToCopy
  <2>7. /\ g.id \in Programs /\ Has(act, g.id) /\ d.size = Disk(g)
        /\ \A o \in 0 .. g.len - 1 : flash[d.start + o] = <<g.id, g.ver, o>>
    BY <2>4, <2>6 DEF CanCopy
  <2>8. d \in ImageEntry
    BY <2>4, <2>7, FirstIs
  <2>9. PICK y \in Nat : y = s.start
    BY <1>2, DupIs
  <2>10. g.id # "fs1" /\ g.id # "sbl" /\ InArea(g)
    BY <2>7, IdKinds DEF InArea
  <2>11. e \in ImageEntry /\ MadeOf(e, g, act, y)
    BY <1>1, <1>11, <2>1, <2>3, <2>9, <2>10, NewEntryIs
  <2>12. /\ e.id = g.id /\ e.ver = g.ver /\ e.len = g.len /\ e.start = y /\ e.size = Disk(g)
         /\ End(e) = y + Disk(g)
    BY <2>10, <2>11 DEF MadeOf, End
  <2>13. a = y + Disk(g)
    BY <1>6, <1>7, <1>8, <1>16, <2>2, <2>9
  <2>14. PICK hi \in Nat : hi = Hi(f, s.t) /\ hi <= FlashSize /\ a <= hi
    BY <1>2, <1>9, DupIs
  <2>15. PICK h : h = flash'
    OBVIOUS
  <2>16. FlashSize \in Nat
    BY Consts
  <2>17. e.start + Disk(g) <= FlashSize
    BY <1>9, <2>12, <2>13, <2>14, <2>16
  <2>18. /\ Only(flash, h, e.start, e.start + Disk(g))
         /\ \A o \in 0 .. Disk(g) - 1 : h[e.start + o] \in {flash[d.start + o], Stale}
    BY <2>1, <2>5, <2>8, <2>11, <2>15, <2>17, BlindIs
  <2>19. Keeps(h, e)
    <3>1. SUFFICES ASSUME NEW o \in 0 .. g.len - 1 PROVE h[e.start + o] \in {<<g.id, g.ver, o>>, Stale}
      BY <2>12 DEF Keeps
    <3>2. o \in 0 .. Disk(g) - 1
      BY <2>1
    <3> QED
      BY <2>7, <2>18, <3>2
  <2>20. InTrial(f)
    <3>1. Only(flash, h, y, a)
      BY <2>12, <2>13, <2>18
    <3>2. Only(flash, h, y, hi)
      BY <1>9, <2>14, <3>1, OnlyMore
    <3> QED
      BY <2>9, <2>14, <2>15, <3>2 DEF InTrial
  <2>21. Beside
    BY <1>1, <1>2, <1>3, <1>10, <2>3, <2>11, CreateIs DEF Beside, bootVars
  <2>22. /\ NewOf(f, s.t, ent'[s.t], ent'[active], a, FALSE)
         /\ AllHeld(flash', ent'[s.t], FALSE)
         /\ ent' \in [Sector -> Seq(ImageEntry)]
         /\ \A c : \/ InEntry(flash, ent[s.t], c, s.dup)
                   \/ /\ e.id = c.id /\ e.ver = c.ver
                      /\ (e.id = "fs1" /\ ~ s.dup) => Contains(flash', e)
              => InEntry(flash', ent'[s.t], c, s.dup)
    <3>1. /\ e.id \in Programs \cup {"fs1", "sbl"} /\ e.id # "fs1" /\ Keeps(flash', e)
          /\ Lo(f, s.t) <= e.start /\ e.len <= e.size /\ End(e) <= a
      BY <1>3, <1>9, <2>1, <2>7, <2>9, <2>10, <2>12, <2>13, <2>15, <2>19
    <3> QED
      BY <1>3, <1>9, <2>3, <2>11, <2>20, <2>21, <3>1, Enters
  <2>23. \A k \in 1 .. n : k \in D \/ k < i \/ k = i => InEntry(flash', ent'[s.t], p.images[k], s.dup)
    BY <1>12, <2>1, <2>10, <2>12, <2>22
  <2>24. s' = [s EXCEPT !.i = i + 1, !.start = a]
    BY <1>3, <1>6, <2>5, <2>9, <2>13 DEF SessionType
  <2> QED
    BY <1>3, <1>13, <2>5, <2>20, <2>21, <2>22, <2>23, <2>24 DEF Careful, Touch
<1> QED
  BY <1>14, <1>15, <1>16

LEMMA InvDupImagesDone ==
  ASSUME NEW f \in Factories, InvOf(f), DupImagesDone
  PROVE  InvOf(f)'
<1>1. Types /\ Handles /\ Entered
  BY DEF InvOf
<1>2. /\ s.pc = "dupimages" /\ s.i > Len(Images) /\ s' = [s EXCEPT !.pc = "dupfs"]
      /\ UNCHANGED <<fwd, ent, flash, free, bootVars>>
  BY DEF DupImagesDone, At, Go
<1>3. /\ Busy /\ Placing /\ Reading /\ s.open = FALSE /\ s \in SessionType /\ s.start \in Nat
      /\ s.start <= Hi(f, s.t)
  BY <1>2, DupIs
<1>4. PICK p \in Packages : p = s.pkg /\ Images = p.images
  BY <1>2, DupIs
<1>5. PICK n \in Nat : n = Len(p.images) /\ DOMAIN p.images = 1 .. n
  BY PackageIs
<1>6. s.i \in Nat /\ s.i > n
  BY <1>1, <1>2, <1>4, <1>5, SessionIs
<1>7. /\ s' \in SessionType /\ s'.pc = "dupfs" /\ s'.t = s.t /\ s'.start = s.start /\ s'.pkg = s.pkg
      /\ s'.open = s.open /\ s'.dup = s.dup /\ s'.dl = s.dl
  BY <1>2, <1>3 DEF SessionType, Pcs
<1>8. s'.open = FALSE /\ Images' = Images
  BY <1>3, <1>7 DEF Images
<1>9. Types'
  BY <1>1, <1>2, <1>4, <1>7 DEF Types, bootVars
<1>10. Handles'
  BY <1>1, <1>2, <1>7 DEF Handles
<1>11. fwd'[s.t].magic /\ fwd'[s.t].images /\ fwd'[s.t].status # "valid"
  BY <1>2, <1>3, Signed
<1>12. Beside
  BY <1>2, <1>11 DEF Beside, bootVars
<1>13. Touch(f)
  BY <1>2, OnlyNothing DEF Touch, InTrial
<1>14. /\ NewOf(f, s.t, ent'[s.t], ent'[active], s.start, FALSE)
       /\ AllHeld(flash', ent'[s.t], FALSE)
       /\ \A g : InEntry(flash, ent[s.t], g, s.dup) => InEntry(flash', ent'[s.t], g, s.dup)
  BY <1>2, <1>3, Stands DEF bootVars
<1>15. Room(f)' /\ Position' /\ FsErased'
  BY <1>7, <1>8 DEF Room, Position, FsErased, Loading
<1>16. Entered'
  <2>1. \A k \in 1 .. n : k < s.i
    BY <1>5, <1>6
  <2>2. \A k \in DOMAIN Images : InEntry(flash, ent[s.t], Images[k], s.dup)
    BY <1>1, <1>2, <1>4, <1>5, <2>1 DEF Entered, Passed
  <2> QED
    BY <1>7, <1>8, <1>14, <2>2 DEF Entered
<1>17. s.start <= s'.start /\ s'.start <= Hi(f, s.t) /\ NewOf(f, s.t, ent'[s.t], ent'[active], s'.start, FALSE)
  <2>1. NewOf(f, s.t, ent'[s.t], ent'[active], s.start, FALSE)
    BY <1>14
  <2>2. s.start <= s.start
    BY <1>3
  <2> QED
    BY <1>3, <1>7, <2>1, <2>2
<1>18. s'.pc \in {"dupfs", "finish"}
  BY <1>7
<1> QED
  BY <1>3, <1>7, <1>8, <1>9, <1>10, <1>11, <1>12, <1>13, <1>14, <1>15, <1>16, <1>17, <1>18, Loaded

LEMMA InvDupFs ==
  ASSUME NEW f \in Factories, InvOf(f), DupFs
  PROVE  InvOf(f)' /\ Careful(f)
<1>1. Types /\ Handles /\ Entered /\ NewSet(f)
  BY DEF InvOf
<1>2. s.pc = "dupfs" /\ UNCHANGED <<fwd, ent, bootVars>> /\ fwd' \in [Sector -> Fwd] /\ Fades
  BY <1>1 DEF DupFs, At, Fades, Types
<1>3. /\ Busy /\ Placing /\ Reading /\ s.open = FALSE /\ s \in SessionType /\ s.start \in Nat
      /\ s.start <= Hi(f, s.t) /\ s.t \in Sector /\ active \in Sector
  BY <1>2, DupIs
<1>4. fwd'[s.t].magic /\ fwd'[s.t].images /\ fwd'[s.t].status # "valid"
  BY <1>2, <1>3, Signed
<1>5. Beside
  BY <1>2, <1>4 DEF Beside, bootVars
<1>6. PICK act \in Seq(ImageEntry) : act = ent[active] /\ SetOf(f, active, act)
  BY Basics
<1>7. \A k \in DOMAIN Images : InEntry(flash, ent[s.t], Images[k], s.dup)
  BY <1>1, <1>2 DEF Entered, Passed
<1>8. CASE Stop /\ UNCHANGED flash
  BY <1>2, <1>8, FadeStop DEF Careful
<1>9. CASE ~ (Stop /\ UNCHANGED flash)
  <2>1. s' = [s EXCEPT !.pc = "finish"] /\ free' = free
    BY <1>9 DEF DupFs, Go
  <2>2. InTrial(f) \/ (s.dup /\ InData("fs2"))
    <3>1. CASE ~ s.dup
      <4>1. flash' = flash
        BY <3>1 DEF DupFs
      <4> QED
        BY <4>1, OnlyNothing DEF InTrial
    <3>2. CASE s.dup
      <4>1. /\ Found(active, "fs1") /\ Found(active, "fs2")
            /\ Entry(active, "fs1").size <= Entry(active, "fs2").size
            /\ flash' = Copied(flash, Entry(active, "fs1"), Entry(active, "fs2"), Entry(active, "fs1").size)
        BY <1>9, <3>2 DEF DupFs
      <4>2. PICK d : d = First(act, "fs1")
        OBVIOUS
      <4>3. PICK e : e = First(act, "fs2")
        OBVIOUS
      <4>4. /\ Has(act, "fs1") /\ Has(act, "fs2") /\ d.size <= e.size
            /\ flash' = Copied(flash, d, e, d.size)
        BY <1>6, <4>1, <4>2, <4>3, FoundIs
      <4>5. d \in ImageEntry /\ e \in ImageEntry
        BY <4>2, <4>3, <4>4, FirstIs
      <4>6. /\ d.size \in Nat /\ e.size \in Nat /\ e.start \in Nat /\ End(e) = e.start + e.size
            /\ End(e) \in Nat
        BY <4>5, EntryIs DEF End
      <4>7. End(e) <= FlashSize
        <5>1. End(e) <= Base(f)
          BY <1>6, <4>3, <4>4, CommonAreas, IdKinds
        <5>2. Base(f) \in Nat /\ Base(f) <= FlashSize /\ FlashSize \in Nat
          BY BaseIs, Consts
        <5> QED
          BY <4>6, <5>1, <5>2
      <4>8. PICK b \in Nat : b = e.start + d.size /\ b <= End(e)
        BY <4>4, <4>6
      <4>9. e.start + d.size <= FlashSize
        BY <4>6, <4>7, <4>8, Consts
      <4>10. PICK h : h = flash'
        OBVIOUS
      <4>11. h = Copied(flash, d, e, d.size)
        BY <4>4, <4>10
      <4>12. Only(flash, h, e.start, e.start + d.size)
        BY <4>5, <4>6, <4>9, <4>11, CopiedIs
      <4>13. Only(flash, h, e.start, b) /\ e.start <= e.start
        BY <4>6, <4>8, <4>12
      <4>14. Only(flash, h, e.start, End(e))
        BY <4>6, <4>8, <4>13, OnlyMore
      <4> QED
        BY <1>6, <3>2, <4>3, <4>4, <4>10, <4>14 DEF InData
    <3> QED
      BY <3>1, <3>2
  <2>3. Touch(f)
    BY <2>2 DEF Touch
  <2>4. /\ s' \in SessionType /\ s'.pc = "finish" /\ s'.t = s.t /\ s'.start = s.start /\ s'.pkg = s.pkg
        /\ s'.open = s.open /\ s'.dup = s.dup /\ s'.dl = s.dl
    BY <1>3, <2>1 DEF SessionType, Pcs
  <2>5. s'.open = FALSE /\ Images' = Images
    BY <1>3, <2>4 DEF Images
  <2>6. Types'
    BY <1>1, <1>2, <2>4 DEF Types, bootVars
  <2>7. Handles'
    BY <1>1, <2>1, <2>4 DEF Handles
  <2>8. NewOf(f, s.t, ent'[s.t], ent'[active], s'.start, FALSE)
    BY <1>1, <1>2, <1>3, <2>4 DEF NewSet
  <2>9. AllHeld(flash', ent'[s.t], FALSE)
    <3>1. InTrial(f) \/ InData("fs2")
      BY <2>2
    <3>2. \A k \in DOMAIN ent[s.t] : ent[s.t][k].id \in Programs => Keeps(flash', ent[s.t][k])
      BY <1>3, <3>1, ProgramsKept
    <3> QED
      BY <1>2, <3>2 DEF AllHeld
  <2>10. Room(f)' /\ Position' /\ FsErased'
    BY <2>4, <2>5 DEF Room, Position, FsErased, Loading
  <2>11. Entered'
    <3>1. \A k \in DOMAIN Images : InEntry(flash', ent[s.t], Images[k], s.dup)
      BY <1>3, <1>7, <2>2, EnteredKept
    <3> QED
      BY <1>2, <2>4, <2>5, <3>1 DEF Entered
  <2>12. s.start <= s'.start /\ s'.start <= Hi(f, s.t) /\ s'.pc \in {"dupfs", "finish"}
    BY <1>3, <2>4
  <2> QED
    BY <1>3, <1>4, <1>5, <2>3, <2>4, <2>5, <2>6, <2>7, <2>8, <2>9, <2>10, <2>11, <2>12, Loaded DEF Careful
<1> QED
  BY <1>8, <1>9

-----------------------------------------------------------------------------
(* The set is complete.                                                    *)

\* A new set beside the running one, all of whose images are entered, is a set:
\* its file systems are those of the running set, exchanged.
LEMMA NewSetOf ==
  ASSUME NEW f \in Factories, NEW t \in ScanSectors, NEW q \in Seq(ImageEntry), NEW act \in Seq(ImageEntry),
         NEW j, SetOf(f, j, act), NEW a \in Nat, a <= Hi(f, t), NewOf(f, t, q, act, a, FALSE),
         Has(f, "fs1") => Has(q, "fs1")
  PROVE  SetOf(f, t, q)
<1>1. PICK x \in BOOLEAN :
        \A id \in Commons : Has(act, id) =>
          /\ Turn(x, id) \in Commons /\ Has(f, Turn(x, id))
          /\ AtPlace(First(act, id), Place(f, Turn(x, id)))
  BY SetPlaces
<1>2. PICK z \in BOOLEAN : z = ~ x
  OBVIOUS
<1>3. \A id \in Commons : Has(act, id) <=> Has(f, id)
  BY DEF SetOf
<1>4. Has(f, "fs1") <=> Has(f, "fs2")
  BY FactoryIs
<1>5. \A id \in Commons : Turn(x, Swap(id)) = Turn(z, id)
  BY <1>2, IdKinds DEF Turn, Swap
<1>6. Turned(f, q, z)
  <2>1. SUFFICES ASSUME NEW k \in DOMAIN q, q[k].id \in Commons
                 PROVE  AtPlace(q[k], Place(f, Turn(z, q[k].id)))
    BY DEF Turned
  <2>2. PICK id : id = q[k].id
    OBVIOUS
  <2>3. Has(f, id) /\ AtPlace(q[k], First(act, Swap(id)))
    BY <2>1, <2>2 DEF NewOf
  <2>4. id \in Commons /\ Swap(id) \in Commons
    BY <2>1, <2>2, IdKinds
  <2>5. Has(f, Swap(id))
    <3>1. Swap(id) = id \/ (id = "fs1" /\ Swap(id) = "fs2") \/ (id = "fs2" /\ Swap(id) = "fs1")
      BY DEF Swap
    <3> QED
      BY <1>4, <2>3, <3>1
  <2>6. AtPlace(First(act, Swap(id)), Place(f, Turn(x, Swap(id))))
    BY <1>1, <1>3, <2>4, <2>5
  <2>7. AtPlace(q[k], Place(f, Turn(x, Swap(id))))
    BY <2>3, <2>6 DEF AtPlace
  <2> QED
    BY <1>5, <2>2, <2>4, <2>7
<1>7. ASSUME NEW id \in Commons
      PROVE  Has(q, id) <=> Has(f, id)
  <2>1. Has(q, id) => Has(f, id)
    BY DEF NewOf, Has
  <2>2. Has(f, id) => Has(q, id)
    BY DEF NewOf
  <2> QED
    BY <2>1, <2>2
<1>8. ASSUME NEW k \in DOMAIN q, q[k].id \in Programs
      PROVE  Inside(f, t, q[k])
  <2>1. PICK e \in ImageEntry : e = q[k]
    OBVIOUS
  <2>2. Lo(f, t) <= e.start /\ e.len <= e.size /\ End(e) <= a
    BY <1>8, <2>1 DEF NewOf
  <2>3. e.start \in Nat /\ End(e) \in Nat /\ e.start <= End(e)
    BY EntryIs
  <2>4. PICK lo \in Nat : lo = Lo(f, t) /\ Base(f) <= lo
    BY Areas
  <2>5. PICK hi \in Nat : hi = Hi(f, t)
    BY Areas
  <2>6. PICK b \in Nat : b = Base(f)
    BY BaseIs
  <2>7. Bottom(f, t) <= e.start
    <3>1. 0 <= e.start
      BY <2>3
    <3> QED
      BY <2>2, <3>1 DEF Bottom
  <2>8. End(e) <= Top(f, t)
    <3>1. End(e) <= hi
      BY <2>2, <2>3, <2>5
    <3>2. CASE FwdSupportNum = 2
      <4>1. PICK h \in Nat : h = Half(Base(f))
        BY Areas
      <4>2. Hi(f, 0) = b + h /\ Hi(f, 1) = b + 2 * h /\ t \in {0, 1}
        BY <2>6, <3>2, <4>1, Areas
      <4>3. hi <= b + 2 * h
        BY <2>5, <4>2
      <4> QED
        BY <2>3, <3>1, <3>2, <4>2, <4>3 DEF Top
    <3>3. CASE FwdSupportNum # 2
      <4>1. t # 0
        BY <3>3, Areas, Consts
      <4> QED
        BY <2>5, <3>1, <3>3, <4>1 DEF Top
    <3> QED
      BY <3>2, <3>3
  <2>9. \A i \in DOMAIN f : f[i].id \in Commons => Apart(e, f[i])
    <3>1. SUFFICES ASSUME NEW i \in DOMAIN f, f[i].id \in Commons PROVE End(f[i]) <= e.start
      BY DEF Apart
    <3>2. End(f[i]) <= b /\ End(f[i]) \in Nat
      BY <2>6, <3>1, BaseIs, FactoryIs, EntryIs
    <3> QED
      BY <2>2, <2>3, <2>4, <2>6, <3>2
  <2> QED
    BY <2>1, <2>2, <2>7, <2>8, <2>9 DEF Inside
<1> QED
  BY <1>6, <1>7, <1>8 DEF SetOf

LEMMA InvFinalize ==
  ASSUME NEW f \in Factories, InvOf(f), Finalize
  PROVE  InvOf(f)'
<1>1. Types /\ Handles /\ Table(f) /\ Sets(f) /\ Intact /\ NewSet(f) /\ Complete /\ Entered
  BY DEF InvOf
<1>2. /\ s.pc = "finish" /\ s' = NoSession /\ UNCHANGED <<ent, flash, active, boot, sessions, mounts>>
      /\ fwd' = [fwd EXCEPT ![s.t].status = NorStatus(@, "valid")]
  BY DEF Finalize, At
<1>3. /\ Placing /\ Reading /\ s.open = FALSE /\ s.t \in Sector /\ s.t \in ScanSectors /\ active \in Sector
      /\ s.start \in Nat /\ s.start <= Hi(f, s.t)
  BY <1>2, DupIs
<1>4. PICK v \in Fwd : v = fwd[s.t] /\ v.magic /\ v.images
  BY <1>1, <1>3, Signed DEF Types
<1>5. PICK w : w = [v EXCEPT !.status = NorStatus(v.status, "valid")]
  OBVIOUS
<1>6. w \in Fwd /\ w.magic /\ w.images
  <2>1. NorStatus(v.status, "valid") \in {"erased", "valid", "invalid"}
    BY DEF NorStatus
  <2> QED
    BY <1>4, <1>5, <2>1 DEF Fwd
<1>7. fwd' \in [Sector -> Fwd] /\ fwd'[s.t] = w /\ \A j \in Sector \ {s.t} : fwd'[j] = fwd[j]
  <2>1. PICK g : g = [fwd EXCEPT ![s.t] = w]
    OBVIOUS
  <2>2. fwd' = g
    BY <1>2, <1>4, <1>5, <2>1
  <2>3. g \in [Sector -> Fwd] /\ g[s.t] = w /\ \A j \in Sector \ {s.t} : g[j] = fwd[j]
    <3>1. fwd \in [Sector -> Fwd]
      BY <1>1 DEF Types
    <3> QED
      BY <1>3, <1>6, <2>1, <3>1
  <2> QED
    BY <2>2, <2>3
<1>8. PICK act \in Seq(ImageEntry) : act = ent[active] /\ SetOf(f, active, act)
  BY Basics
<1>9. PICK q \in Seq(ImageEntry) : q = ent[s.t]
  BY <1>3, Basics
<1>10. SetOf(f, s.t, q)
  <2>1. NewOf(f, s.t, q, act, s.start, FALSE)
    BY <1>1, <1>3, <1>8, <1>9 DEF NewSet
  <2>2. Has(f, "fs1") => Has(q, "fs1")
    <3>1. SUFFICES ASSUME Has(f, "fs1") PROVE Has(q, "fs1")
      OBVIOUS
    <3>2. PICK k \in DOMAIN Images : Images[k].id = "fs1"
      BY <1>2, <3>1, FsKnown
    <3>3. InEntry(flash, q, Images[k], s.dup)
      BY <1>1, <1>2, <1>9, <3>2 DEF Entered, Passed
    <3> QED
      BY <3>2, <3>3 DEF InEntry, Has
  <2>3. PICK a \in Nat : a = s.start
    BY <1>3
  <2> QED
    BY <1>3, <1>8, <2>1, <2>2, <2>3, NewSetOf
<1>11. Sets(f)'
  <2>1. SUFFICES ASSUME NEW i \in Sector, Whole(i)' PROVE SetOf(f, i, ent'[i])
    BY DEF Sets
  <2>2. CASE i = s.t
    BY <1>2, <1>9, <1>10, <2>2
  <2>3. CASE i # s.t
    <3>1. Whole(i)
      BY <1>2, <1>7, <2>1, <2>3 DEF Whole
    <3> QED
      BY <1>1, <1>2, <3>1 DEF Sets
  <2> QED
    BY <2>2, <2>3
<1>12. Intact'
  <2>1. SUFFICES ASSUME NEW i \in Sector, AppValid(fwd'[i]) PROVE AllHeld(flash, ent[i], FALSE)
    BY <1>2 DEF Intact
  <2>2. CASE i = s.t
    BY <1>1, <1>3, <2>2 DEF Complete
  <2>3. CASE i # s.t
    BY <1>1, <1>7, <2>1, <2>3 DEF Intact
  <2> QED
    BY <2>2, <2>3
<1>13. Table(f)'
  <2>1. \A i \in Sector : fwd'[i].status = "valid" => fwd'[i].magic /\ fwd'[i].images
    BY <1>1, <1>6, <1>7 DEF Table
  <2>2. FwdSupportNum = 2 => fwd'[2].status # "valid" /\ active' # 2
    <3>1. 2 \in Sector /\ (FwdSupportNum = 2 => s.t # 2)
      BY <1>3, Consts DEF ScanSectors
    <3> QED
      BY <1>1, <1>2, <1>7, <3>1 DEF Table
  <2> QED
    BY <1>1, <1>2, <2>1, <2>2 DEF Table
<1>14. sbl' \in BOOLEAN /\ (free' = free \/ (free > 0 /\ free' = free - 1))
  BY <1>1 DEF Finalize, Found, Types
<1>15. Types'
  BY <1>1, <1>2, <1>7, <1>14, NoSessionIs DEF Types
<1>16. PICK y \in Nat : free' = y /\ y <= MaxHandles
  <2>1. free \in Nat /\ MaxHandles \in Nat /\ free <= MaxHandles
    BY <1>1, <1>3, InstallAssumption DEF Handles
  <2> QED
    BY <1>14, <2>1
<1>17. s'.open = FALSE /\ s'.pc = "idle"
  BY <1>2, NoSessionIs
<1>18. Handles'
  BY <1>16, <1>17, HandlesBack
<1> QED
  BY <1>11, <1>12, <1>13, <1>15, <1>17, <1>18, IdleInv

-----------------------------------------------------------------------------
(* Every step.                                                             *)

LEMMA InvNext ==
  ASSUME NEW f \in Factories, InvOf(f), Supplied, [Next]_vars
  PROVE  InvOf(f)'
<1>1. CASE \E p \in Packages, d \in BOOLEAN : Start(p, d)
  BY <1>1, InvStart
<1>2. CASE \E n \in 1 .. MaxChunk : Receive(n)
  BY <1>2, InvReceive
<1>3. CASE Session
  BY <1>3, InvGetTrialInfo, InvEraseFwd, InvEraseSecondFs, InvPrepareFs, InvConfig, InvConnect, InvOpenImage,
     InvWriteImage, InvDupImage, InvDupImagesDone, InvDupFs, InvFinalize, InvSessionFails DEF Session
<1>4. CASE Accept \/ Reject \/ Mount \/ Reboot
  BY <1>4, InvAccept, InvReject, InvMount, InvReboot
<1>5. CASE UNCHANGED vars
  BY <1>5, InvStutter
<1> QED
  BY <1>1, <1>2, <1>3, <1>4, <1>5 DEF Next

-----------------------------------------------------------------------------
(* What the invariant says of the sets.                                    *)

LEMMA IntactHolds ==
  ASSUME NEW f \in Factories, InvOf(f)
  PROVE  SetsIntact
BY DEF InvOf, Intact, SetsIntact, AllHeld, Keeps, Stored

LEMMA AreaIsFree ==
  ASSUME NEW f \in Factories, InvOf(f)
  PROVE  AreaFree
<1>1. SUFFICES ASSUME s.pc = "erase"
               PROVE  /\ s.start + s.size <= FlashSize /\ s.start >= 3 * BlockSize
                      /\ \A i \in Sector \ {s.t} : AppValid(fwd[i]) =>
                           \A k \in DOMAIN ent[i] : ent[i][k].id # "sbl" =>
                             End(ent[i][k]) <= s.start \/ ent[i][k].start >= s.start + s.size
  BY DEF AreaFree
<1>2. Clear(f) /\ Busy
  BY <1>1 DEF InvOf, Busy
<1>3. PICK a \in Nat : a = s.start /\ Base(f) <= a
  BY <1>2, Basics
<1>4. PICK b \in Nat : b = Hi(f, s.t) /\ b <= FlashSize /\ s.start + s.size = b
  BY <1>1, <1>2, Basics DEF Clear
<1>5. Base(f) \in Nat /\ 3 * BlockSize <= Base(f) /\ 3 * BlockSize \in Nat
  BY BaseIs, Consts
<1>6. a >= 3 * BlockSize
  BY <1>3, <1>5
<1>7. ASSUME NEW i \in Sector \ {s.t}, AppValid(fwd[i]), NEW k \in DOMAIN ent[i], ent[i][k].id # "sbl"
      PROVE  End(ent[i][k]) <= a \/ ent[i][k].start >= b
  <2>1. PICK q \in Seq(ImageEntry) : q = ent[i] /\ SetOf(f, i, q) /\ Beyond(q, a, b)
    <3>1. Whole(i)
      BY <1>7 DEF Whole
    <3>2. ent[i] \in Seq(ImageEntry) /\ SetOf(f, i, ent[i]) /\ Beyond(ent[i], s.start, Hi(f, s.t))
      BY <1>2, <1>7, <3>1, Basics
    <3> QED
      BY <1>3, <1>4, <3>2
  <2>2. PICK e \in ImageEntry : e = q[k] /\ e.id # "sbl"
    BY <1>7, <2>1
  <2>3. CASE e.id \in Programs
    BY <1>7, <2>1, <2>2, <2>3 DEF Beyond
  <2>4. CASE e.id \in Commons
    <3>1. Has(q, e.id)
      BY <1>7, <2>1, <2>2 DEF Has
    <3>2. PICK d \in ImageEntry : d = First(q, e.id) /\ End(d) <= Base(f) /\ AtPlace(e, d)
      BY <1>7, <2>1, <2>2, <2>4, <3>1, CommonAreas
    <3>3. End(e) = End(d) /\ End(d) \in Nat
      BY <3>2, SamePlace, EntryIs
    <3> QED
      BY <1>3, <1>5, <2>1, <2>2, <3>2, <3>3
  <2> QED
    BY <2>2, <2>3, <2>4, EntryIs, IdKinds
<1> QED
  BY <1>3, <1>4, <1>6, <1>7

LEMMA HasPair ==
  ASSUME NEW f \in Factories, InvOf(f)
  PROVE  FsPair
<1>1. SUFFICES ASSUME NEW i \in Sector, AppValid(fwd[i]), ~ NoFs
               PROVE  \E j, k \in DOMAIN ent[i] :
                        /\ ent[i][j].id = "fs1" /\ ent[i][k].id = "fs2"
                        /\ Apart(ent[i][j], ent[i][k])
  BY DEF FsPair, Apart
<1>2. PICK q \in Seq(ImageEntry) : q = ent[i] /\ SetOf(f, i, q)
  BY <1>1, Basics DEF Whole
<1>3. Has(q, "fs1") /\ Has(q, "fs2") /\ "fs1" \in Commons /\ "fs2" \in Commons
  BY <1>1, <1>2, FactoryIs, IdKinds DEF SetOf
<1>4. PICK d : d = First(q, "fs1")
  OBVIOUS
<1>5. PICK e : e = First(q, "fs2")
  OBVIOUS
<1>6. Apart(d, e)
  BY <1>2, <1>3, <1>4, <1>5, CommonAreas
<1>7. d.id = "fs1" /\ e.id = "fs2" /\ (\E j \in DOMAIN q : d = q[j]) /\ (\E k \in DOMAIN q : e = q[k])
  BY <1>3, <1>4, <1>5, FirstIs
<1> QED
  BY <1>2, <1>6, <1>7

LEMMA HasTypes ==
  ASSUME NEW f \in Factories, InvOf(f)
  PROVE  TypeOK
<1>1. Types /\ Handles
  BY DEF InvOf
<1>2. \A i \in Sector : \A k \in DOMAIN ent[i] : ent[i][k] \in ImageEntry
  BY Basics
<1>3. free \in 0 .. MaxHandles
  <2>1. free \in Nat /\ MaxHandles \in Nat /\ s.open \in BOOLEAN
    BY <1>1, SessionIs, InstallAssumption DEF Handles
  <2> QED
    BY <1>1, <2>1 DEF Handles
<1>4. s.t \in Sector /\ s.size \in 0 .. Word - 1 /\ s.buf \in 0 .. MaxChunk /\ s.left \in Nat
  BY <1>1, SessionIs
<1> QED
  BY <1>1, <1>2, <1>3, <1>4 DEF TypeOK, Types

-----------------------------------------------------------------------------
(* What a step may do.                                                     *)

\* A descriptor becomes valid when its session is finalized, and then only.
LEMMA ValidFrom ==
  ASSUME Types, [Next]_vars, NEW i \in Sector, fwd[i].status # "valid", fwd'[i].status = "valid"
  PROVE  Finalize /\ i = s.t
<1>1. fwd \in [Sector -> Fwd] /\ s.t \in Sector
  BY SessionIs DEF Types
<1>2. CASE fwd' = fwd
  BY <1>2
<1>3. CASE EraseFwd
  BY <1>1, <1>3 DEF EraseFwd, ErasedFwd
<1>4. CASE Config
  <2>1. fwd' = [fwd EXCEPT ![s.t].magic = TRUE, ![s.t].images = TRUE]
    BY <1>4 DEF Config
  <2> QED
    BY <1>1, <2>1 DEF Fwd
<1>5. CASE OpenImage
  <2>1. fwd' = fwd \/ fwd' = [fwd EXCEPT ![s.t].sbl = @ \/ Img.id = "sbl"]
    BY <1>5 DEF OpenImage
  <2> QED
    BY <1>1, <2>1 DEF Fwd
<1>6. CASE Finalize
  BY <1>1, <1>6 DEF Finalize
<1>7. CASE Accept
  <2>1. PICK t \in Sector : t = TrialIndex(fwd)
    BY <1>7, TrialIndexIs DEF Accept
  <2>2. PICK c \in Sector : c = CurrentIndex(fwd)
    BY CurrentIndexIs
  <2>3. PICK r \in Nat : r = HighestRank(fwd) + 1
    BY CurrentIndexIs
  <2>4. PICK g : g = [fwd EXCEPT ![t].rank = r]
    OBVIOUS
  <2>5. fwd' = g \/ fwd' = [g EXCEPT ![c].status = NorStatus(@, "invalid")]
    BY <1>7, <2>1, <2>2, <2>3, <2>4 DEF Accept
  <2>6. g[i].status = fwd[i].status
    BY <1>1, <2>4 DEF Fwd
  <2>7. g \in [Sector -> Fwd]
    BY <1>1, <2>4 DEF Fwd
  <2>8. CASE fwd' = g
    BY <2>6, <2>8
  <2>9. CASE fwd' = [g EXCEPT ![c].status = NorStatus(@, "invalid")]
    <3>1. NorStatus(g[c].status, "invalid") = "invalid"
      BY DEF NorStatus
    <3>2. fwd'[i].status = IF i = c THEN NorStatus(g[c].status, "invalid") ELSE g[i].status
      BY <2>7, <2>9 DEF Fwd
    <3> QED
      BY <2>6, <3>1, <3>2
  <2> QED
    BY <2>5, <2>8, <2>9
<1>8. CASE Reject
  <2>1. PICK t \in Sector : t = TrialIndex(fwd)
    BY <1>8, TrialIndexIs DEF Reject
  <2>2. fwd' = [fwd EXCEPT ![t].status = "invalid", ![t].rank = 1]
    BY <1>8, <2>1 DEF Reject
  <2> QED
    BY <1>1, <2>2 DEF Fwd
<1> QED
  BY <1>2, <1>3, <1>4, <1>5, <1>6, <1>7, <1>8 DEF Next, vars, Session, Start, Receive, GetTrialInfo,
     EraseSecondFs, PrepareFs, Connect, WriteImage, DupImage, DupImagesDone, DupFs, SessionFails, Mount, Reboot

LEMMA InstalledStep ==
  ASSUME NEW f \in Factories, InvOf(f), [Next]_vars, NEW i \in Sector,
         fwd[i].status # "valid", fwd'[i].status = "valid", NEW k \in DOMAIN Images
  PROVE  \E j \in DOMAIN ent[i] :
           /\ ent[i][j].id = Images[k].id /\ ent[i][j].ver = Images[k].ver
           /\ (ent[i][j].id = "fs1" /\ ~ s.dup) => Holds(ent[i][j])
<1>1. Types /\ Entered
  BY DEF InvOf
<1>2. Finalize /\ i = s.t
  BY <1>1, ValidFrom
<1>3. InEntry(flash, ent[i], Images[k], s.dup)
  BY <1>1, <1>2 DEF Finalize, At, Entered, Passed
<1> QED
  BY <1>3 DEF InEntry, Contains, Holds

\* What any step writes to flash is in the trial area, the second file system
\* or the RAM dump.
LEMMA CarefulStep ==
  ASSUME NEW f \in Factories, InvOf(f), Supplied, [Next]_vars
  PROVE  Careful(f)
<1>1. CASE EraseSecondFs \/ PrepareFs \/ OpenImage \/ WriteImage \/ DupImage \/ DupFs
  BY <1>1, InvEraseSecondFs, InvPrepareFs, InvOpenImage, InvWriteImage, InvDupImage, InvDupFs
<1>2. CASE flash' = flash
  BY <1>2 DEF Careful
<1> QED
  BY <1>1, <1>2 DEF Next, vars, Session, Start, Receive, GetTrialInfo, EraseFwd, Config, Connect,
     DupImagesDone, Finalize, SessionFails, Accept, Reject, Mount, Reboot

LEMMA DataKept ==
  ASSUME NEW f \in Factories, InvOf(f), Supplied, [Next]_vars, NEW id \in {"fs1", "usr"},
         NEW k \in DOMAIN ent[active], ent[active][k].id = id
  PROVE  \A u \in ent[active][k].start .. End(ent[active][k]) - 1 : flash'[u] = flash[u]
<1>1. Careful(f)
  BY CarefulStep
<1>2. CASE flash' = flash
  BY <1>2
<1>3. CASE Busy /\ Touch(f)
  <2>1. Same(flash, flash', ent[active][k])
    BY <1>3, TouchKeeps
  <2> QED
    BY <2>1 DEF Same, Units
<1> QED
  BY <1>1, <1>2, <1>3 DEF Careful

-----------------------------------------------------------------------------
(* The pool of handles.  A handle is lost with every mount, when a set with *)
(* an SBL entry is finalized and when it is rejected: at most two for each  *)
(* upgrade that has ended, less one for each set that may yet be rejected.  *)

One(b) == IF b THEN 1 ELSE 0
Valids == One(fwd[0].status = "valid") + One(fwd[1].status = "valid") + One(fwd[2].status = "valid")
Ended  == sessions - One(s.pc # "idle")
Budget ==
  /\ s.pc # "idle" => sessions > 0
  /\ Valids <= Ended + 1
  /\ MaxHandles + Valids <= free + One(s.open) + mounts + 2 * Ended + 1

LEMMA OneIs ==
  /\ One(TRUE) = 1 /\ One(FALSE) = 0
  /\ \A b : One(b) \in {0, 1}
BY DEF One

LEMMA ValidsIs ==
  /\ Valids \in Nat /\ Valids' \in Nat
  /\ (\A i \in Sector : fwd'[i].status = "valid" => fwd[i].status = "valid") => Valids' <= Valids
  /\ \A t \in Sector : (\A i \in Sector \ {t} : fwd'[i].status = fwd[i].status) =>
       /\ fwd[t].status # "valid" => Valids' <= Valids + 1
       /\ fwd[t].status = "valid" /\ fwd'[t].status # "valid" => Valids' + 1 <= Valids
BY Consts DEF Valids, One

LEMMA BudgetNumbers ==
  ASSUME Types, Handles, Budget
  PROVE  /\ Ended \in Nat /\ free \in Nat /\ mounts \in Nat /\ sessions \in Nat /\ MaxHandles \in Nat
         /\ Valids \in Nat /\ One(s.open) \in Nat /\ Ended <= sessions
<1>1. free \in Nat /\ mounts \in Nat /\ sessions \in Nat /\ MaxHandles \in Nat
  BY InstallAssumption DEF Types, Handles
<1>2. Ended \in Nat /\ Ended <= sessions
  BY <1>1 DEF Ended, Budget, One
<1> QED
  BY <1>1, <1>2, ValidsIs DEF One

LEMMA BudgetSum ==
  ASSUME NEW e \in Nat, NEW v \in Nat, NEW x \in Nat, NEW y \in Nat, NEW z \in Nat, NEW m \in Nat,
         NEW k \in Nat, v <= e + 1, k + v <= z + m + 2 * e + 1, x <= v, e <= y
  PROVE  x <= y + 1 /\ k + x <= z + m + 2 * y + 1
OBVIOUS

\* Most steps leave the sum as it is.
Quiet == /\ sessions' = sessions /\ mounts' = mounts /\ s.pc # "idle"
         /\ free' + One(s'.open) = free + One(s.open)

LEMMA QuietBudget ==
  ASSUME Types, Handles, Budget, Quiet, Valids' <= Valids
  PROVE  Budget'
<1>1. PICK e \in Nat : e = Ended
  BY BudgetNumbers
<1>2. PICK v \in Nat : v = Valids
  BY ValidsIs
<1>3. PICK x \in Nat : x = Valids'
  BY ValidsIs
<1>4. PICK n \in Nat : n = sessions /\ n > 0
  BY BudgetNumbers DEF Quiet, Budget
<1>5. PICK z \in Nat : z = free + One(s.open) /\ z = free' + One(s'.open)
  BY BudgetNumbers DEF Quiet
<1>6. PICK m \in Nat : m = mounts /\ m = mounts'
  BY BudgetNumbers DEF Quiet
<1>7. PICK k \in Nat : k = MaxHandles
  BY BudgetNumbers
<1>8. PICK y \in Nat : y = Ended' /\ e <= y
  <2>1. e = n - 1
    BY <1>1, <1>4 DEF Ended, One, Quiet
  <2>2. Ended' = n - One(s'.pc # "idle")
    BY <1>4 DEF Ended, Quiet
  <2>3. Ended' \in Nat /\ e <= Ended'
    BY <1>4, <2>1, <2>2 DEF One
  <2> QED
    BY <2>3
<1>9. v <= e + 1 /\ k + v <= z + m + 2 * e + 1 /\ x <= v
  BY <1>1, <1>2, <1>3, <1>5, <1>6, <1>7 DEF Budget
<1>10. x <= y + 1 /\ k + x <= z + m + 2 * y + 1
  BY <1>8, <1>9, BudgetSum
<1> QED
  BY <1>3, <1>4, <1>5, <1>6, <1>7, <1>8, <1>10 DEF Budget, Quiet

LEMMA QuietStop ==
  ASSUME Types, Handles, Stop
  PROVE  free' + One(s'.open) = free + One(s.open)
<1>1. free \in Nat /\ s'.open = FALSE /\ s.open \in BOOLEAN
  BY StopIs, SessionIs DEF Handles
<1> QED
  BY <1>1 DEF Stop, One

\* The handle of the image is taken when it is opened and given back when it
\* is complete or the session ends.
LEMMA QuietSteps ==
  ASSUME NEW f \in Factories, InvOf(f), Session \/ (\E n \in 1 .. MaxChunk : Receive(n)), ~ Finalize
  PROVE  Quiet
<1>1. Types /\ Handles /\ Position
  BY DEF InvOf
<1>2. sessions' = sessions /\ mounts' = mounts /\ s.pc # "idle"
  BY DEF Session, Receive, GetTrialInfo, EraseFwd, EraseSecondFs, PrepareFs, Config, Connect, OpenImage,
     WriteImage, DupImage, DupImagesDone, DupFs, SessionFails, At, bootVars
<1>3. s \in SessionType /\ s.open \in BOOLEAN /\ free \in Nat
  BY <1>1, SessionIs DEF Handles
<1>4. CASE Stop
  BY <1>1, <1>2, <1>4, QuietStop DEF Quiet
<1>5. CASE s'.open = s.open /\ free' = free
  BY <1>2, <1>5 DEF Quiet
<1>6. CASE OpenImage
  <2>1. s.pc = "image" /\ s.open = FALSE
    BY <1>3, <1>6 DEF OpenImage, At
  <2>2. CASE s' = Advance(s) /\ free' = free
    <3>1. Like(s)
      BY <1>3 DEF Like
    <3>2. s'.open = FALSE
      BY <1>1, <2>1, <2>2, <3>1, AdvanceIs
    <3> QED
      BY <1>5, <2>1, <2>2, <3>2
  <2>3. CASE s' = [s EXCEPT !.open = TRUE, !.cnt = 0] /\ free' = free - 1
    <3>1. s'.open = TRUE
      BY <1>3, <2>3 DEF SessionType
    <3>2. free' + One(s'.open) = free + One(s.open)
      BY <1>3, <2>1, <2>3, <3>1 DEF One
    <3> QED
      BY <1>2, <3>2 DEF Quiet
  <2> QED
    BY <1>4, <1>6, <2>2, <2>3 DEF OpenImage
<1>7. CASE WriteImage
  <2>1. /\ s.pc = "image" /\ s.open
        /\ \/ Stop
           \/ s' = Advance(Wrote) /\ free' = free + 1
           \/ s' = [Wrote EXCEPT !.pc = "recv"] /\ free' = free
    BY <1>7, WriteCases
  <2>2. PICK c : c = s.cnt
    OBVIOUS
  <2>3. PICK w : w = Amount
    OBVIOUS
  <2>4. c \in Nat /\ w \in Nat \ {0} /\ w <= s.buf /\ s.buf \in 0 .. MaxChunk
    BY <2>1, <2>2, <2>3, WriteSize
  <2>5. PICK y \in Nat : y = s.buf - w /\ y \in 0 .. MaxChunk
    BY <2>4, Consts
  <2>6. PICK x \in Nat : x = c + w
    BY <2>4
  <2>7. PICK st : st = Wrote
    OBVIOUS
  <2>8. /\ st \in SessionType /\ st.pkg = s.pkg /\ st.dup = s.dup /\ st.t = s.t /\ st.start = s.start
        /\ st.i = s.i /\ st.dl = s.dl /\ st.open = s.open
    BY <1>3, <2>2, <2>3, <2>5, <2>6, <2>7 DEF SessionType, Wrote
  <2>9. CASE s' = Advance(Wrote) /\ free' = free + 1
    <3>1. Like(st)
      BY <2>8 DEF Like
    <3>2. PICK z : z = Advance(st)
      OBVIOUS
    <3>3. z.open = FALSE
      BY <1>1, <2>1, <3>1, <3>2, AdvanceIs
    <3>4. s'.open = FALSE
      BY <2>7, <2>9, <3>2, <3>3
    <3>5. free' + One(s'.open) = free + One(s.open)
      BY <1>3, <2>1, <2>9, <3>4 DEF One
    <3> QED
      BY <1>2, <3>5 DEF Quiet
  <2>10. CASE s' = [Wrote EXCEPT !.pc = "recv"] /\ free' = free
    <3>1. s'.open = s.open
      BY <2>7, <2>8, <2>10 DEF SessionType
    <3> QED
      BY <1>5, <2>10, <3>1
  <2> QED
    BY <1>4, <2>1, <2>9, <2>10
<1>8. CASE Config
  <2>1. Stop \/ (s'.open = s.open /\ free' = free)
    BY <1>3, <1>8 DEF Config, SessionType
  <2> QED
    BY <1>4, <1>5, <2>1
<1>9. CASE Connect
  <2>1. Stop \/ (s'.open = s.open /\ free' = free)
    BY <1>3, <1>9 DEF Connect, SessionType
  <2> QED
    BY <1>4, <1>5, <2>1
<1>10. CASE GetTrialInfo \/ EraseFwd \/ EraseSecondFs \/ PrepareFs
  <2>1. Stop \/ (s'.open = s.open /\ free' = free)
    BY <1>3, <1>10 DEF GetTrialInfo, EraseFwd, EraseSecondFs, PrepareFs, Go, SessionType
  <2> QED
    BY <1>4, <1>5, <2>1
<1>11. CASE DupImage \/ DupImagesDone \/ DupFs \/ SessionFails
  <2>1. Stop \/ (s'.open = s.open /\ free' = free)
    BY <1>3, <1>11 DEF DupImage, DupImagesDone, DupFs, SessionFails, Go, SessionType
  <2> QED
    BY <1>4, <1>5, <2>1
<1>12. CASE \E n \in 1 .. MaxChunk : Receive(n)
  <2>1. s'.open = s.open /\ free' = free
    BY <1>3, <1>12 DEF Receive, SessionType
  <2> QED
    BY <1>5, <2>1
<1> QED
  BY <1>6, <1>7, <1>8, <1>9, <1>10, <1>11, <1>12 DEF Session

\* Sums: the set that has become valid, the one that has been rejected.
LEMMA SumMore ==
  ASSUME NEW e \in Nat, NEW v \in Nat, NEW x \in Nat, NEW z \in Nat, NEW o \in Nat, NEW m \in Nat,
         NEW k \in Nat, v <= e + 1, k + v <= z + o + m + 2 * e + 1, x <= v + 1, NEW n \in Nat, n = e + 1
  PROVE  x <= n + 1 /\ k + x <= (z - 1) + o + m + 2 * n + 1 /\ k + x <= z + o + m + 2 * n + 1
OBVIOUS

LEMMA SumLess ==
  ASSUME NEW e \in Nat, NEW v \in Nat, NEW x \in Nat, NEW z \in Nat, NEW o \in Nat, NEW m \in Nat,
         NEW k \in Nat, v <= e + 1, k + v <= z + o + m + 2 * e + 1, x + 1 <= v
  PROVE  x <= e + 1 /\ k + x <= (z - 1) + o + m + 2 * e + 1 /\ k + x <= z + o + m + 2 * e + 1
OBVIOUS

LEMMA SumSame ==
  ASSUME NEW e \in Nat, NEW v \in Nat, NEW x \in Nat, NEW z \in Nat, NEW o \in Nat, NEW m \in Nat,
         NEW k \in Nat, v <= e + 1, k + v <= z + o + m + 2 * e + 1, x <= v
  PROVE  x <= e + 1 /\ k + x <= z + o + m + 2 * e + 1
OBVIOUS

LEMMA BudgetFinalize ==
  ASSUME NEW f \in Factories, InvOf(f), Budget, Finalize
  PROVE  Budget'
<1>1. Types /\ Handles
  BY DEF InvOf
<1>2. /\ s.pc = "finish" /\ s' = NoSession /\ sessions' = sessions /\ mounts' = mounts
      /\ fwd' = [fwd EXCEPT ![s.t].status = NorStatus(@, "valid")]
      /\ free' = free \/ free' = free - 1
  BY DEF Finalize, At
<1>3. s.open = FALSE /\ s.t \in Sector /\ Reading
  BY <1>2, DupIs
<1>4. fwd[s.t].status # "valid"
  BY <1>3, Signed
<1>5. PICK v \in Nat : v = Valids
  BY ValidsIs
<1>6. PICK x \in Nat : x = Valids' /\ x <= v + 1
  <2>1. \A i \in Sector \ {s.t} : fwd'[i].status = fwd[i].status
    BY <1>1, <1>2 DEF Types
  <2>2. Valids' <= Valids + 1
    BY <1>3, <1>4, <2>1, ValidsIs
  <2> QED
    BY <1>5, <2>2, ValidsIs
<1>7. PICK n \in Nat : n = sessions /\ n > 0
  BY <1>1, <1>2, BudgetNumbers DEF Budget
<1>8. PICK e \in Nat : e = Ended /\ n = e + 1
  <2>1. Ended = n - 1
    BY <1>2, <1>7 DEF Ended, One
  <2> QED
    BY <1>7, <2>1
<1>9. s'.pc = "idle" /\ s'.open = FALSE /\ Ended' = n
  <2>1. s'.pc = "idle" /\ s'.open = FALSE
    BY <1>2, NoSessionIs
  <2>2. Ended' = n - One(s'.pc # "idle")
    BY <1>2, <1>7 DEF Ended
  <2> QED
    BY <1>7, <2>1, <2>2 DEF One
<1>10. PICK z \in Nat : z = free
  BY <1>1 DEF Handles
<1>11. PICK m \in Nat : m = mounts /\ m = mounts'
  BY <1>1, <1>2 DEF Types
<1>12. PICK k \in Nat : k = MaxHandles
  BY InstallAssumption
<1>13. PICK o \in Nat : o = One(s.open) /\ o = 0
  BY <1>3 DEF One
<1>14. v <= e + 1 /\ k + v <= z + o + m + 2 * e + 1
  BY <1>5, <1>10, <1>11, <1>12, <1>8, <1>13 DEF Budget
<1>15. x <= n + 1 /\ k + x <= (z - 1) + o + m + 2 * n + 1 /\ k + x <= z + o + m + 2 * n + 1
  <2>1. n = e + 1
    BY <1>8
  <2>2. x <= v + 1
    BY <1>6
  <2> QED
    BY <1>14, <2>1, <2>2, SumMore
<1>16. One(s'.open) = o /\ (free' = z \/ free' = z - 1)
  BY <1>2, <1>9, <1>10, <1>13 DEF One
<1>17. k + x <= free' + One(s'.open) + m + 2 * n + 1
  BY <1>15, <1>16
<1> QED
  BY <1>6, <1>9, <1>11, <1>12, <1>15, <1>17 DEF Budget

LEMMA BudgetReject ==
  ASSUME NEW f \in Factories, InvOf(f), Budget, Reject
  PROVE  Budget'
<1>1. Types /\ Handles
  BY DEF InvOf
<1>2. PICK t \in Sector : t = TrialIndex(fwd) /\ t \in Trials(fwd)
  BY TrialIndexIs DEF Reject
<1>3. /\ fwd' = [fwd EXCEPT ![t].status = "invalid", ![t].rank = 1]
      /\ s' = s /\ sessions' = sessions /\ mounts' = mounts
      /\ free' = free \/ free' = free - 1
  BY <1>2 DEF Reject
<1>4. fwd[t].status = "valid"
  BY <1>2 DEF Trials, AppValid
<1>5. PICK v \in Nat : v = Valids
  BY ValidsIs
<1>6. PICK x \in Nat : x = Valids' /\ x + 1 <= v
  <2>1. fwd'[t].status # "valid" /\ \A i \in Sector \ {t} : fwd'[i].status = fwd[i].status
    BY <1>1, <1>3 DEF Types, Fwd
  <2>2. Valids' + 1 <= Valids
    BY <1>4, <2>1, ValidsIs
  <2> QED
    BY <1>5, <2>2, ValidsIs
<1>7. PICK e \in Nat : e = Ended /\ e = Ended'
  BY <1>1, <1>3, BudgetNumbers DEF Ended
<1>8. PICK z \in Nat : z = free
  BY <1>1 DEF Handles
<1>9. PICK m \in Nat : m = mounts /\ m = mounts'
  BY <1>1, <1>3 DEF Types
<1>10. PICK k \in Nat : k = MaxHandles
  BY InstallAssumption
<1>11. PICK o \in Nat : o = One(s.open) /\ o = One(s'.open)
  BY <1>3 DEF One
<1>12. v <= e + 1 /\ k + v <= z + o + m + 2 * e + 1
  BY <1>5, <1>7, <1>8, <1>9, <1>10, <1>11 DEF Budget
<1>13. x <= e + 1 /\ k + x <= (z - 1) + o + m + 2 * e + 1 /\ k + x <= z + o + m + 2 * e + 1
  BY <1>6, <1>12, SumLess
<1>14. k + x <= free' + o + m + 2 * e + 1
  BY <1>3, <1>8, <1>13
<1>15. s'.pc # "idle" => sessions' > 0
  BY <1>3 DEF Budget
<1> QED
  BY <1>6, <1>7, <1>9, <1>10, <1>11, <1>13, <1>14, <1>15 DEF Budget

LEMMA BudgetOther ==
  ASSUME NEW f \in Factories, InvOf(f), Budget, [Next]_vars, Valids' <= Valids,
         \/ \E p \in Packages, d \in BOOLEAN : Start(p, d)
         \/ Accept \/ Mount \/ Reboot \/ UNCHANGED vars
  PROVE  Budget'
<1>1. Types /\ Handles /\ Position
  BY DEF InvOf
<1>2. PICK v \in Nat : v = Valids
  BY ValidsIs
<1>3. PICK x \in Nat : x = Valids' /\ x <= v
  BY <1>2, ValidsIs
<1>4. PICK e \in Nat : e = Ended /\ e <= sessions
  BY <1>1, BudgetNumbers
<1>5. PICK n \in Nat : n = sessions
  BY <1>1, BudgetNumbers
<1>6. PICK z \in Nat : z = free
  BY <1>1 DEF Handles
<1>7. PICK m \in Nat : m = mounts
  BY <1>1, BudgetNumbers
<1>8. PICK k \in Nat : k = MaxHandles
  BY InstallAssumption
<1>9. PICK o \in Nat : o = One(s.open)
  BY DEF One
<1>10. v <= e + 1 /\ k + v <= z + o + m + 2 * e + 1 /\ e <= n
  BY <1>2, <1>4, <1>5, <1>6, <1>7, <1>8, <1>9 DEF Budget
<1>11. x <= e + 1 /\ k + x <= z + o + m + 2 * e + 1
  BY <1>3, <1>10, SumSame
<1>12. CASE s' = s /\ sessions' = sessions /\ mounts' = mounts /\ free' = free
  <2>1. Ended' = e /\ One(s'.open) = o /\ mounts' = m /\ free' = z
    BY <1>4, <1>6, <1>7, <1>9, <1>12 DEF Ended
  <2>2. s'.pc # "idle" => sessions' > 0
    BY <1>12 DEF Budget
  <2> QED
    BY <1>3, <1>8, <1>11, <2>1, <2>2 DEF Budget
<1>13. CASE Mount
  <2>1. s' = s /\ sessions' = sessions /\ mounts' = mounts + 1 /\ free' = free - 1
    BY <1>13 DEF Mount
  <2>2. Ended' = e /\ One(s'.open) = o /\ mounts' = m + 1 /\ free' = z - 1
    BY <1>4, <1>6, <1>7, <1>9, <2>1 DEF Ended
  <2>3. s'.pc # "idle" => sessions' > 0
    BY <2>1 DEF Budget
  <2>4. k + x <= (z - 1) + o + (m + 1) + 2 * e + 1
    BY <1>11
  <2> QED
    BY <1>3, <1>8, <1>11, <2>2, <2>3, <2>4 DEF Budget
<1>14. CASE Reboot
  <2>1. s' = NoSession /\ sessions' = sessions /\ mounts' = 0 /\ free' = MaxHandles
    BY <1>14 DEF Reboot
  <2>2. s'.pc = "idle" /\ s'.open = FALSE
    BY <2>1, NoSessionIs
  <2>3. Ended' = n - One(s'.pc # "idle")
    BY <1>5, <2>1 DEF Ended
  <2>4. Ended' = n /\ One(s'.open) = 0
    BY <1>5, <2>2, <2>3 DEF One
  <2>5. x <= n + 1 /\ k + x <= k + 0 + 0 + 2 * n + 1
    BY <1>10, <1>11
  <2> QED
    BY <1>3, <1>8, <2>1, <2>2, <2>4, <2>5 DEF Budget
<1>15. CASE \E p \in Packages, d \in BOOLEAN : Start(p, d)
  <2>1. PICK p \in Packages, d \in BOOLEAN : Start(p, d)
    BY <1>15
  <2>2. /\ s.pc = "idle" /\ s' = [NoSession EXCEPT !.pc = "info", !.pkg = p, !.dup = d]
        /\ sessions' = sessions + 1 /\ mounts' = mounts /\ free' = free
    BY <2>1 DEF Start, At
  <2>3. s'.pc = "info" /\ s'.open = FALSE
    BY <2>2 DEF NoSession
  <2>4. s.open = FALSE
    BY <1>1, <2>2, SessionIs DEF Position
  <2>5. o = 0 /\ One(s'.open) = 0 /\ e = n
    BY <1>4, <1>5, <1>9, <2>2, <2>3, <2>4 DEF One, Ended
  <2>6. Ended' = (n + 1) - One(s'.pc # "idle")
    BY <1>5, <2>2 DEF Ended
  <2>7. Ended' = n /\ sessions' > 0
    BY <1>5, <2>2, <2>3, <2>6 DEF One
  <2>8. x <= n + 1 /\ k + x <= z + 0 + m + 2 * n + 1
    BY <1>11, <2>5
  <2> QED
    BY <1>3, <1>6, <1>7, <1>8, <2>2, <2>5, <2>7, <2>8 DEF Budget
<1> QED
  BY <1>12, <1>13, <1>14, <1>15 DEF Accept, vars

LEMMA BudgetStep ==
  ASSUME NEW f \in Factories, InvOf(f), Budget, [Next]_vars
  PROVE  Budget'
<1>1. Types /\ Handles
  BY DEF InvOf
<1>2. CASE Finalize
  BY <1>2, BudgetFinalize
<1>3. CASE ~ Finalize
  <2>1. \A i \in Sector : fwd'[i].status = "valid" => fwd[i].status = "valid"
    BY <1>1, <1>3, ValidFrom
  <2>2. Valids' <= Valids
    BY <2>1, ValidsIs
  <2>3. CASE Session \/ (\E n \in 1 .. MaxChunk : Receive(n))
    <3>1. Quiet
      BY <1>3, <2>3, QuietSteps
    <3> QED
      BY <1>1, <2>2, <3>1, QuietBudget
  <2>4. CASE Reject
    BY <2>4, BudgetReject
  <2> QED
    BY <2>2, <2>3, <2>4, BudgetOther DEF Next
<1> QED
  BY <1>2, <1>3

\* Enough handles for the upgrades and the mounts: none is ever missing.
LEMMA BudgetSupplies ==
  ASSUME NEW f \in Factories, InvOf(f), Budget, MaxHandles >= 2 * MaxSessions + MaxMounts + 1
  PROVE  Supplied
<1>1. SUFFICES ASSUME s.pc \in {"info", "prepare"} PROVE free > 1
  BY DEF Supplied
<1>2. Types /\ Handles /\ Position
  BY DEF InvOf
<1>3. One(s.open) = 0
  BY <1>1, <1>2, SessionIs DEF Position, One
<1>4. PICK n \in Nat : n = sessions /\ n > 0 /\ n <= MaxSessions /\ Ended = n - 1
  <2>1. MaxSessions \in Nat
    BY InstallAssumption
  <2> QED
    BY <1>1, <1>2, <2>1 DEF Types, Budget, Ended, One
<1>5. PICK m \in Nat : m = mounts /\ m <= MaxMounts
  BY <1>2, InstallAssumption DEF Types
<1>6. PICK z \in Nat : z = free
  BY <1>2 DEF Handles
<1>7. PICK v \in Nat : v = Valids
  BY ValidsIs
<1>8. PICK k \in Nat : k = MaxHandles
  BY InstallAssumption
<1>9. PICK a \in Nat : a = MaxSessions
  BY InstallAssumption
<1>10. PICK b \in Nat : b = MaxMounts
  BY InstallAssumption
<1>11. k + v <= z + 0 + m + 2 * (n - 1) + 1 /\ k >= 2 * a + b + 1 /\ n <= a /\ m <= b
  BY <1>3, <1>4, <1>5, <1>6, <1>7, <1>8, <1>9, <1>10 DEF Budget
<1>12. z > 1
  BY <1>11
<1> QED
  BY <1>6, <1>12

LEMMA BudgetInit ==
  ASSUME Init
  PROVE  Budget
<1>1. sessions = 0 /\ mounts = 0 /\ s = NoSession /\ free = MaxHandles
  BY DEF Init
<1>2. s.pc = "idle" /\ s.open = FALSE
  BY <1>1, NoSessionIs
<1>3. /\ Sector = {0, 1, 2}
      /\ fwd[0].status = "valid" /\ fwd[1].status = "erased" /\ fwd[2].status = "erased"
  BY Consts DEF Init, ErasedFwd
<1>4. Valids = 1
  BY <1>3 DEF Valids, One
<1>5. Ended = 0 /\ One(s.open) = 0
  BY <1>1, <1>2 DEF Ended, One
<1>6. MaxHandles \in Nat
  BY InstallAssumption
<1> QED
  BY <1>1, <1>2, <1>4, <1>5, <1>6 DEF Budget

-----------------------------------------------------------------------------
(* The theorems.                                                           *)

LEMMA IndStep ==
  ASSUME IInv, Supplied, [Next]_vars
  PROVE  IInv'
<1>1. PICK f \in Factories : InvOf(f)
  BY DEF IInv
<1>2. InvOf(f)'
  BY <1>1, InvNext
<1> QED
  BY <1>2 DEF IInv

\* With at least two handles for every upgrade, one for every mount and one
\* more, an upgrade that asks for its area, or copies the entries of the data
\* areas, has the two handles it needs, whatever finalize, reject and the file
\* system have kept for good.
THEOREM HandlesLast ==
  ASSUME MaxHandles >= 2 * MaxSessions + MaxMounts + 1
  PROVE  Spec => []Supplied
<1>1. IInv /\ Budget => Supplied
  BY BudgetSupplies DEF IInv
<1>2. Init => IInv /\ Budget
  BY InvInit, BudgetInit
<1>3. IInv /\ Budget /\ [Next]_vars => (IInv /\ Budget)'
  <2>1. SUFFICES ASSUME IInv, Budget, [Next]_vars PROVE IInv' /\ Budget'
    OBVIOUS
  <2>2. PICK f \in Factories : InvOf(f)
    BY <2>1 DEF IInv
  <2>3. Budget'
    BY <2>1, <2>2, BudgetStep
  <2> QED
    BY <1>1, <2>1, <2>3, IndStep
<1> QED
  BY <1>1, <1>2, <1>3, PTL DEF Spec

\* The inductive invariant, while handles are left.
THEOREM InvThm == Spec /\ []Supplied => []IInv
<1>1. Init => IInv
  BY InvInit
<1>2. IInv /\ Supplied /\ [Next]_vars => IInv'
  BY IndStep
<1> QED
  BY <1>1, <1>2, PTL DEF Spec

\* The values of the variables.
THEOREM TypeThm == Spec /\ []Supplied => []TypeOK
<1>1. IInv => TypeOK
  BY HasTypes DEF IInv
<1> QED
  BY <1>1, InvThm, PTL

\* The images of every valid descriptor stay in flash, complete and unspoilt:
\* each unit has been erased before it is written, block by block, and no
\* later upgrade touches it.  Excepted are the blocks of a copied image that
\* fw_upgrade_process_duplicate_images could not read and copied all the same.
THEOREM IntactThm == Spec /\ []Supplied => []SetsIntact
<1>1. IInv => SetsIntact
  BY IntactHolds DEF IInv
<1> QED
  BY <1>1, InvThm, PTL

\* The area fw_upgrade_select_trial_fwd chooses is inside the flash, and
\* nothing of another valid set is in it.
THEOREM AreaThm == Spec /\ []Supplied => []AreaFree
<1>1. IInv => AreaFree
  BY AreaIsFree DEF IInv
<1> QED
  BY <1>1, InvThm, PTL

\* Every valid set has entries of two file system areas, apart from each
\* other, so that another upgrade is possible from it.
THEOREM PairThm == Spec /\ []Supplied => []FsPair
<1>1. IInv => FsPair
  BY HasPair DEF IInv
<1> QED
  BY <1>1, InvThm, PTL

\* A set becomes valid only with every image of its package entered, and with
\* the package's file system unless it was to be a copy.
THEOREM InstalledThm == Spec /\ []Supplied => InstalledIsPackage
<1>1. IInv /\ [Next]_vars =>
        [\A i \in Sector : (fwd[i].status # "valid" /\ fwd'[i].status = "valid") =>
           \A k \in DOMAIN Images :
             \E j \in DOMAIN ent[i] :
               /\ ent[i][j].id = Images[k].id /\ ent[i][j].ver = Images[k].ver
               /\ (ent[i][j].id = "fs1" /\ ~ s.dup) => Holds(ent[i][j])]_vars
  BY InstalledStep DEF IInv
<1> QED
  BY <1>1, InvThm, PTL DEF Spec, InstalledIsPackage

\* No step of an upgrade writes to the file system in use or the user data.
THEOREM DataThm == Spec /\ []Supplied => RunningDataKept
<1>1. IInv /\ Supplied /\ [Next]_vars =>
        [\A id \in {"fs1", "usr"} : \A k \in DOMAIN ent[active] : ent[active][k].id = id =>
           \A u \in ent[active][k].start .. End(ent[active][k]) - 1 : flash'[u] = flash[u]]_flash
  BY DataKept DEF IInv
<1> QED
  BY <1>1, InvThm, PTL DEF Spec, RunningDataKept

\* So, with that many handles, all of it holds without a condition on them (the
\* contents of a copy up to the failed reads nobody notices, as before).
THEOREM InstallThm ==
  ASSUME MaxHandles >= 2 * MaxSessions + MaxMounts + 1
  PROVE  Spec => /\ [](TypeOK /\ SetsIntact /\ AreaFree /\ FsPair)
                 /\ InstalledIsPackage /\ RunningDataKept
<1>1. Spec => []Supplied
  BY HandlesLast
<1> QED
  BY <1>1, TypeThm, IntactThm, AreaThm, PairThm, InstalledThm, DataThm, PTL
=============================================================================

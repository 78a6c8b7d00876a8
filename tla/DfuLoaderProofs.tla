--------------------------- MODULE DfuLoaderProofs ----------------------------
(***************************************************************************)
(* DfuLoader for every ring size, packet size and set of images.           *)
(*                                                                         *)
(* Loader and host take turns, and Line says how: for each state of the    *)
(* loader what is under way in either ring, and what the host waits for.   *)
(* Transfer adds which packets of the current image are in RRAM.           *)
(***************************************************************************)
EXTENDS DfuLoader, TLAPS, SequenceTheorems

-----------------------------------------------------------------------------
(* What a ring holds.                                                      *)

Ring(M) == [rd : Index, wr : Index, el : [Index -> M]]
Holds0(r)       == r.wr = r.rd
Holds1(r, m)    == r.wr = Succ(r.rd) /\ r.el[r.rd] = m
Holds2(r, m, n) == /\ r.wr = Succ(Succ(r.rd)) /\ r.wr # r.rd
                   /\ r.el[r.rd] = m /\ r.el[Succ(r.rd)] = n

\* A message is written to its element, the index moved, or both; the first one is
\* taken; an element gets another buffer.
Fills(r, s, m)  == s = [r EXCEPT !.el[r.wr] = m]
Moves(r, s)     == s = [r EXCEPT !.wr = Succ(@)]
Puts(r, s, m)   == s = [r EXCEPT !.el[r.wr] = m, !.wr = Succ(@)]
Takes(r, s)     == s = [r EXCEPT !.rd = Succ(@)]
Swaps(r, s, i, m) == s = [r EXCEPT !.el[i] = m]

-----------------------------------------------------------------------------
(* The values of the variables.                                            *)

Names == {"wlan", "bdf", "other"}
Cmds  == {"none", "reset", "boot"}

A2fMsg ==
  {Empty, NoBuf} \cup [op : {"req"}, cmd : Cmds, map : SUBSET Names, size : Nat]
  \cup [op : {"data"}, ver : Nat, id : Ids, off : Nat, len : Nat] \cup [op : {"done"}, more : BOOLEAN]

LoaderSt ==
  {"wait", "size", "bitmap", "begin", "drain", "request", "program", "write",
   "completed", "confirm", "reboot", "publish", "reset", "booted"}

LoaderT ==
  [st : LoaderSt, out : LoaderSt, cmd : Cmds, map : SUBSET Names, size : Nat, id : Ids,
   total : 0 .. MaxPackets, cur : 0 .. MaxPackets, el : Index, buf : A2fMsg]
HostT == [pc : {"idle", "cfm", "last", "busy", "gone"}, msg : A2fMsg, ver : Nat, size : Nat]
Place == [ver : Nat, off : Nat, len : Nat]

F2aEl == F2aMsg \cup {Empty}

Types ==
  /\ a2f \in Ring(A2fMsg) /\ f2a \in Ring(F2aEl)
  /\ ld \in LoaderT /\ host \in HostT
  /\ rram \in [Ids -> [0 .. MaxPackets - 1 -> Place]]
  /\ have \in [Ids -> [ver : Nat, size : Nat]]
  /\ reqs \in 0 .. MaxReqs /\ fails \in 0 .. MaxFails /\ resets \in 0 .. MaxResets

-----------------------------------------------------------------------------
(* The messages of the protocol.                                           *)

Cfm     == [op |-> "cfm"]
Reboot  == [op |-> "reboot"]
DoneInd == [op |-> "doneind", id |-> ld.id]
Xfer    == [op |-> "xfer", id |-> ld.id, off |-> ld.cur * Chunk, len |-> PacketLen]
Data    == [op |-> "data", ver |-> host.ver, id |-> ld.id, off |-> ld.cur * Chunk, len |-> PacketLen]
Done(b) == [op |-> "done", more |-> b]
Req(c, map) == [op |-> "req", cmd |-> c, map |-> map, size |-> host.size]

\* The host has made a request that is not answered yet, and does not count on the
\* images it names.
Asking(c, map) ==
  /\ c \in Cmds /\ map \in SUBSET Names
  /\ host.pc = CASE c # "none" -> "gone" [] c = "none" /\ map = {} -> "last" [] OTHER -> "cfm"
  /\ c = "none" => host.size \in Sizes
  /\ \A i \in Ids : i \in map \/ (i = "nil" /\ "other" \in map) => have[i] = Unset

Silent(pc) == host.msg = Empty /\ host.pc = pc

\* What packet k of the host's image leaves in its place.
Good(ver, size, k) ==
  [ver |-> ver, off |-> k * Chunk,
   len |-> IF size - k * Chunk < Chunk THEN size - k * Chunk ELSE Chunk]

\* The transfer of the host's image: the first packets are there.
Transfer ==
  /\ have[ld.id] = Unset /\ ld.size = host.size /\ ld.size \in Sizes
  /\ ld.total = Packets(ld.size) /\ ld.cur <= ld.total
  /\ \A k \in 0 .. ld.cur - 1 : k * Chunk < ld.size => rram[ld.id][k] \in {Lost, Good(host.ver, ld.size, k)}

-----------------------------------------------------------------------------
(* What is under way in each state of the loader.                          *)

Wait ==
  /\ Holds0(f2a)
  /\ \/ Holds0(a2f) /\ Silent("idle")
     \/ \E c \in Cmds, map \in SUBSET Names :
          /\ Asking(c, map)
          /\ \/ Holds0(a2f) /\ host.msg = Req(c, map)
             \/ Holds1(a2f, Req(c, map)) /\ host.msg = Empty

Size ==
  /\ Holds0(f2a) /\ Holds0(a2f) /\ host.msg = Empty
  /\ Asking(ld.cmd, ld.map) /\ a2f.el[ld.el] = Req(ld.cmd, ld.map)

Bitmap ==
  /\ Holds0(f2a) /\ Holds0(a2f) /\ host.msg = Empty
  /\ Asking("none", ld.map) /\ ld.size = host.size

\* The confirmation is read or not; the host has no other message.
Confirmed(before, after) ==
  /\ Holds0(a2f)
  /\ \/ Holds1(f2a, Cfm) /\ Silent(before)
     \/ Holds0(f2a) /\ Silent(after)

Begun ==
  /\ Confirmed("cfm", "busy") /\ ld.map # {} /\ ld.size = host.size /\ ld.size \in Sizes
  /\ \A i \in Ids : i \in ld.map \/ (i = "nil" /\ "other" \in ld.map) => have[i] = Unset

Requesting ==
  /\ Transfer /\ ld.cur < ld.total
  /\ Confirmed("cfm", "busy") /\ (ld.cur = 0 \/ Silent("busy"))

Program ==
  /\ Transfer /\ ld.cur < ld.total
  /\ \/ Holds2(f2a, Cfm, Xfer) /\ Holds0(a2f) /\ Silent("cfm")
     \/ Holds1(f2a, Xfer) /\ Holds0(a2f) /\ Silent("busy")
     \/ Holds0(f2a) /\ Holds0(a2f) /\ host.pc = "busy" /\ host.msg \in {Data, Empty}
     \/ Holds0(f2a) /\ Holds1(a2f, Data) /\ Silent("busy")

Quiet(pc) == Holds0(f2a) /\ Holds0(a2f) /\ Silent(pc)

Writing   == Transfer /\ ld.cur < ld.total /\ Quiet("busy") /\ ld.buf = Data
Completed == Transfer /\ ld.cur = ld.total /\ Quiet("busy")

\* The host has read the indication, and may already want another image.
Confirm ==
  \/ Transfer /\ ld.cur = ld.total /\ Holds1(f2a, DoneInd) /\ Holds0(a2f) /\ Silent("busy")
  \/ /\ Holds0(f2a)
     /\ \E b \in BOOLEAN :
          LET goes == b \/ ld.id # "nil"
          IN  \/ /\ host.pc = IF goes THEN "idle" ELSE "busy"
                 /\ \/ Holds0(a2f) /\ host.msg = Done(b)
                    \/ Holds1(a2f, Done(b)) /\ host.msg = Empty
              \/ /\ goes
                 /\ \E c \in Cmds, map \in SUBSET Names :
                      /\ Asking(c, map)
                      /\ \/ Holds1(a2f, Done(b)) /\ host.msg = Req(c, map)
                         \/ Holds2(a2f, Done(b), Req(c, map)) /\ host.msg = Empty

Published ==
  LET m == f2a.el[f2a.wr]
  IN  /\ Room
      /\ \/ ld.out \in {"drain", "begin"} /\ Bitmap /\ m = Cfm /\ (ld.out = "drain") = (ld.map = {})
         \/ ld.out = "program" /\ Requesting /\ m = Xfer
         \/ ld.out = "confirm" /\ Completed /\ m = DoneInd
         \/ ld.out = "booted" /\ Quiet("busy") /\ m = Reboot

Booted ==
  /\ Holds0(a2f)
  /\ \/ Holds1(f2a, Reboot) /\ Silent("busy")
     \/ Holds0(f2a) /\ Silent("gone")

Line ==
  /\ ld.st = "wait" => Wait
  /\ ld.st = "size" => Size
  /\ ld.st = "bitmap" => Bitmap
  /\ ld.st = "drain" => Confirmed("last", "gone")
  /\ ld.st = "begin" => Begun
  /\ ld.st = "request" => Requesting
  /\ ld.st = "program" => Program
  /\ ld.st = "write" => Writing
  /\ ld.st = "completed" => Completed
  /\ ld.st = "confirm" => Confirm
  /\ ld.st = "reboot" => Quiet("busy")
  /\ ld.st = "publish" => Published
  /\ ld.st = "reset" => Quiet("gone")
  /\ ld.st = "booted" => Booted

IInv == Types /\ Line /\ DoneIsWhole

-----------------------------------------------------------------------------
(* Indices and rings.                                                      *)

LEMMA SuccIs ==
  \A i \in Index : Succ(i) = (IF i + 1 < N THEN i + 1 ELSE 0) /\ Succ(i) \in Index
  <1>1. SUFFICES ASSUME NEW i \in Index
                 PROVE  Succ(i) = (IF i + 1 < N THEN i + 1 ELSE 0) /\ Succ(i) \in Index
    OBVIOUS
  <1>2. CASE i + 1 < N
    BY <1>2, DfuAssumption DEF Succ, Index
  <1>3. CASE i + 1 = N
    BY <1>3, DfuAssumption DEF Succ, Index
  <1> QED
    BY <1>2, <1>3, DfuAssumption DEF Index

LEMMA SuccDiffers ==
  /\ \A i \in Index : Succ(i) # i
  /\ \A i, j \in Index : Succ(i) = Succ(j) => i = j
  BY SuccIs, DfuAssumption DEF Index

LEMMA HoldsWaits ==
  ASSUME NEW M, NEW r \in Ring(M)
  PROVE  /\ \A m : Holds1(r, m) => r.rd # r.wr
         /\ \A m, n : Holds2(r, m, n) => r.rd # r.wr
  BY SuccDiffers DEF Holds1, Holds2, Ring

\* A message is put at the end ...
LEMMA RingMove ==
  ASSUME NEW M, NEW r \in Ring(M), NEW s, Moves(r, s), r.rd # Succ(r.wr)
  PROVE  /\ s \in Ring(M) /\ s.rd = r.rd /\ s.wr = Succ(r.wr) /\ s.el = r.el
         /\ Holds0(r) => Holds1(s, r.el[r.wr])
         /\ \A d : Holds1(r, d) => Holds2(s, d, r.el[r.wr])
  <1>1. r.rd \in Index /\ r.wr \in Index /\ r.el \in [Index -> M]
    BY DEF Ring
  <1>2. s \in Ring(M) /\ s.rd = r.rd /\ s.wr = Succ(r.wr) /\ s.el = r.el
    BY <1>1, SuccIs DEF Ring, Moves, Takes
  <1> QED
    BY <1>1, <1>2, SuccDiffers DEF Holds0, Holds1, Holds2

\* ... when it is in its element.
LEMMA RingFill ==
  ASSUME NEW M, NEW r \in Ring(M), NEW m \in M, NEW s, Fills(r, s, m)
  PROVE  /\ s \in Ring(M) /\ s.rd = r.rd /\ s.wr = r.wr /\ s.el[s.wr] = m
         /\ s.el = [r.el EXCEPT ![r.wr] = m]
         /\ Holds0(r) => Holds0(s)
         /\ \A d : Holds1(r, d) => Holds1(s, d)
  <1>1. r.rd \in Index /\ r.wr \in Index /\ r.el \in [Index -> M]
    BY DEF Ring
  <1>2. s.rd = r.rd /\ s.wr = r.wr /\ s.el = [r.el EXCEPT ![r.wr] = m]
    BY <1>1 DEF Ring, Fills, Puts, Swaps
  <1>3. s \in Ring(M)
    BY <1>1, <1>2 DEF Ring, Fills
  <1> QED
    BY <1>1, <1>2, <1>3, SuccDiffers DEF Holds0, Holds1

LEMMA RingPut ==
  ASSUME NEW M, NEW r \in Ring(M), NEW m \in M, NEW s, r.rd # Succ(r.wr), Puts(r, s, m)
  PROVE  /\ s \in Ring(M)
         /\ Holds0(r) => Holds1(s, m)
         /\ \A d : Holds1(r, d) => Holds2(s, d, m)
  <1>1. r.rd \in Index /\ r.wr \in Index /\ r.el \in [Index -> M]
    BY DEF Ring
  <1>2. s.rd = r.rd /\ s.wr = Succ(r.wr) /\ s.el = [r.el EXCEPT ![r.wr] = m]
    BY <1>1 DEF Ring, Fills, Puts, Swaps
  <1>3. s \in Ring(M)
    BY <1>1, <1>2, SuccIs DEF Ring, Puts
  <1> QED
    BY <1>1, <1>2, <1>3, SuccDiffers DEF Holds0, Holds1, Holds2

\* The first message is taken.
LEMMA RingTake ==
  ASSUME NEW M, NEW r \in Ring(M), NEW s, Takes(r, s)
  PROVE  /\ s \in Ring(M) /\ s.rd = Succ(r.rd) /\ s.wr = r.wr /\ s.el = r.el
         /\ \A d : Holds1(r, d) => Holds0(s)
         /\ \A d, e : Holds2(r, d, e) => Holds1(s, e)
         /\ r.rd # r.wr => s.rd # Succ(s.wr)
  <1>1. r.rd \in Index /\ r.wr \in Index /\ r.el \in [Index -> M]
    BY DEF Ring
  <1>2. s \in Ring(M) /\ s.rd = Succ(r.rd) /\ s.wr = r.wr /\ s.el = r.el
    BY <1>1, SuccIs DEF Ring, Moves, Takes
  <1> QED
    BY <1>1, <1>2, SuccDiffers DEF Holds0, Holds1, Holds2

\* The buffer of an element is taken away or given back.
LEMMA RingBuf ==
  ASSUME NEW M, NEW r \in Ring(M), NEW i \in Index, NEW m \in M, NEW s, Swaps(r, s, i, m)
  PROVE  s \in Ring(M) /\ s.rd = r.rd /\ s.wr = r.wr /\ (Holds0(r) => Holds0(s))
  <1>1. r.rd \in Index /\ r.wr \in Index /\ r.el \in [Index -> M]
    BY DEF Ring
  <1>2. s.rd = r.rd /\ s.wr = r.wr /\ s.el = [r.el EXCEPT ![i] = m]
    BY <1>1 DEF Ring, Fills, Puts, Swaps
  <1> QED
    BY <1>1, <1>2 DEF Ring, Holds0, Swaps

-----------------------------------------------------------------------------
(* The packets of an image.                                                *)

LEMMA DivMod ==
  ASSUME NEW n \in Nat
  PROVE  \E q \in Nat, r \in 0 .. Chunk - 1 : n \div Chunk = q /\ n % Chunk = r /\ n = q * Chunk + r
  <1>1. Chunk \in Nat \ {0}
    BY DfuAssumption
  <1>2. n \div Chunk \in Nat /\ n % Chunk \in 0 .. Chunk - 1 /\ n = Chunk * (n \div Chunk) + (n % Chunk)
    BY <1>1
  <1> QED
    BY <1>1, <1>2

LEMMA Times ==
  ASSUME NEW a \in Nat, NEW b \in Nat, NEW c \in Nat, a <= b
  PROVE  a * c <= b * c /\ b * c = a * c + (b - a) * c /\ a * c \in Nat /\ b * c \in Nat
  <1>1. PICK d \in Nat : d = b - a /\ b = a + d
    OBVIOUS
  <1>2. b * c = a * c + d * c
    BY <1>1
  <1>3. d * c \in Nat /\ a * c \in Nat /\ b * c \in Nat
    OBVIOUS
  <1> QED
    BY <1>1, <1>2, <1>3

LEMMA PacketsAre ==
  ASSUME NEW n \in Nat
  PROVE  Packets(n) \in Nat /\ Packets(n) > 0 /\ \A k \in Nat : k * Chunk < n => k < Packets(n)
  <1>0. Chunk \in Nat /\ Chunk > 0
    BY DfuAssumption
  <1>1. PICK q \in Nat, r \in 0 .. Chunk - 1 : n \div Chunk = q /\ n % Chunk = r /\ n = q * Chunk + r
    BY DivMod
  <1>2. Packets(n) = IF n = 0 THEN 1 ELSE q + (IF r = 0 THEN 0 ELSE 1)
    BY <1>1 DEF Packets
  <1>3. q = 0 => n = r
    BY <1>0, <1>1
  <1>4. Packets(n) \in Nat /\ Packets(n) > 0
    BY <1>0, <1>1, <1>2, <1>3
  <1>5. ASSUME NEW k \in Nat, k * Chunk < n
        PROVE  k < Packets(n)
    <2>1. k * Chunk \in Nat /\ q * Chunk \in Nat /\ (q + 1) * Chunk = q * Chunk + Chunk
      BY <1>0
    <2>2. r = 0 => k < q
      BY <1>0, <1>1, <1>5, <2>1, Times
    <2>3. k < q + 1
      <3>1. SUFFICES ASSUME q + 1 <= k PROVE FALSE
        OBVIOUS
      <3>2. (q + 1) * Chunk <= k * Chunk
        BY <1>0, <3>1, Times
      <3> QED
        BY <1>0, <1>1, <1>5, <2>1, <3>2
    <2>4. n # 0
      BY <1>5, <2>1
    <2> QED
      BY <1>1, <1>2, <2>2, <2>3, <2>4
  <1> QED
    BY <1>4, <1>5

LEMMA LongestIs ==
  MaxPackets \in Nat /\ MaxPackets > 0 /\ \A n \in Sizes : Packets(n) <= MaxPackets
  <1>1. PICK k \in Sizes : \A n \in Sizes : Packets(n) <= Packets(k)
    BY LongestAssumption
  <1>2. \E m \in {Packets(n) : n \in Sizes} : \A n \in Sizes : Packets(n) <= m
    BY <1>1
  <1>3. MaxPackets \in {Packets(n) : n \in Sizes} /\ \A n \in Sizes : Packets(n) <= MaxPackets
    BY <1>2, Zenon DEF MaxPackets
  <1>4. Sizes \subseteq Nat
    BY DfuAssumption
  <1> QED
    BY <1>3, <1>4, PacketsAre

\* The length that is asked for is the one the image has left.
LEMMA PacketLenIs ==
  ASSUME NEW n \in Nat, NEW c \in Nat, c < Packets(n), NEW l,
         l = IF c = Packets(n) - 1 /\ n % Chunk # 0 THEN n % Chunk ELSE Chunk
  PROVE  /\ l \in 1 .. Chunk
         /\ c * Chunk < n => l = IF n - c * Chunk < Chunk THEN n - c * Chunk ELSE Chunk
  <1>0. Chunk \in Nat /\ Chunk > 0
    BY DfuAssumption
  <1>1. PICK q \in Nat, r \in 0 .. Chunk - 1 : n \div Chunk = q /\ n % Chunk = r /\ n = q * Chunk + r
    BY DivMod
  <1>2. Packets(n) = IF n = 0 THEN 1 ELSE q + (IF r = 0 THEN 0 ELSE 1)
    BY <1>1 DEF Packets
  <1>3. l = IF c = Packets(n) - 1 /\ r # 0 THEN r ELSE Chunk
    BY <1>1
  <1>4. l \in 1 .. Chunk
    BY <1>0, <1>1, <1>3
  <1>5. ASSUME c * Chunk < n
        PROVE  l = IF n - c * Chunk < Chunk THEN n - c * Chunk ELSE Chunk
    <2>1. c * Chunk \in Nat /\ q * Chunk \in Nat
      BY <1>0
    <2>2. n # 0
      BY <1>5, <2>1
    <2>3. CASE r # 0 /\ c = q
      BY <1>0, <1>1, <1>2, <1>3, <2>1, <2>2, <2>3
    <2>4. CASE c < q
      <3>1. (c + 1) * Chunk <= q * Chunk /\ (c + 1) * Chunk = c * Chunk + Chunk
        BY <1>0, <2>4, Times
      <3>2. r # 0 => c # Packets(n) - 1
        BY <1>1, <1>2, <2>2, <2>4
      <3>3. l = Chunk
        BY <1>3, <3>2
      <3> QED
        BY <1>0, <1>1, <2>1, <3>1, <3>3
    <2>5. CASE r = 0
      <3>1. c < q
        BY <1>2, <2>2, <2>5
      <3> QED
        BY <2>4, <3>1
    <2>6. CASE r # 0
      <3>1. c < q + 1
        BY <1>2, <2>2, <2>6
      <3> QED
        BY <2>3, <2>4, <2>6, <3>1
    <2> QED
      BY <2>5, <2>6
  <1> QED
    BY <1>4, <1>5

-----------------------------------------------------------------------------
(* Messages.                                                               *)

LEMMA A2fHas ==
  /\ Empty \in A2fMsg /\ NoBuf \in A2fMsg
  /\ \A b \in BOOLEAN : Done(b) \in A2fMsg /\ Done(b) # Empty
  /\ \A v \in Nat, i \in Ids, o \in Nat, l \in Nat :
       /\ [op |-> "data", ver |-> v, id |-> i, off |-> o, len |-> l] \in A2fMsg
       /\ [op |-> "data", ver |-> v, id |-> i, off |-> o, len |-> l] # Empty
  /\ \A c \in Cmds, map \in SUBSET Names, n \in Nat :
       /\ [op |-> "req", cmd |-> c, map |-> map, size |-> n] \in A2fMsg
       /\ [op |-> "req", cmd |-> c, map |-> map, size |-> n] # Empty
  BY DEF A2fMsg, Done, Empty

LEMMA F2aHas ==
  /\ Cfm \in F2aMsg /\ Reboot \in F2aMsg /\ \A i \in Ids : [op |-> "doneind", id |-> i] \in F2aMsg
  /\ \A i \in Ids, k \in 0 .. MaxPackets, l \in 1 .. Chunk :
       [op |-> "xfer", id |-> i, off |-> k * Chunk, len |-> l] \in F2aMsg
  <1> DEFINE A == {[op |-> o] : o \in {"cfm", "reboot"}}
             B == {[op |-> "doneind", id |-> i] : i \in Ids}
             C == {[op |-> "xfer", id |-> i, off |-> k * Chunk, len |-> l] :
                     i \in Ids, k \in 0 .. MaxPackets, l \in 1 .. Chunk}
  <1>0. F2aMsg = A \cup B \cup C
    BY SMT DEF F2aMsg
  <1>1. Cfm \in A /\ Reboot \in A
    BY DEF Cfm, Reboot
  <1>2. \A i \in Ids : [op |-> "doneind", id |-> i] \in B
    BY Zenon
  <1>3. \A i \in Ids, k \in 0 .. MaxPackets, l \in 1 .. Chunk :
          [op |-> "xfer", id |-> i, off |-> k * Chunk, len |-> l] \in C
    OBVIOUS
  <1> HIDE DEF A, B, C
  <1> QED
    BY <1>0, <1>1, <1>2, <1>3, Zenon

-----------------------------------------------------------------------------
(* What a step leaves alone.                                               *)

\* The transfer depends on what the host has and wants, and on four fields of the
\* loader's context.
SameImage ==
  /\ UNCHANGED <<rram, have>> /\ host'.ver = host.ver /\ host'.size = host.size
  /\ ld'.id = ld.id /\ ld'.size = ld.size /\ ld'.total = ld.total /\ ld'.cur = ld.cur

LEMMA TransferSame ==
  ASSUME SameImage
  PROVE  /\ Transfer => Transfer'
         /\ PacketLen' = PacketLen /\ Xfer' = Xfer /\ Data' = Data /\ DoneInd' = DoneInd
  <1>1. PacketLen' = PacketLen /\ DoneInd' = DoneInd
    BY DEF SameImage, PacketLen, DoneInd
  <1>2. Xfer' = Xfer /\ Data' = Data
    BY <1>1 DEF SameImage, Xfer, Data
  <1>3. ASSUME Transfer PROVE Transfer'
    BY <1>3, Zenon DEF SameImage, Transfer, Good
  <1> QED
    BY <1>1, <1>2, <1>3

LEMMA WholeSame ==
  ASSUME UNCHANGED <<rram, have>>, DoneIsWhole
  PROVE  DoneIsWhole'
  BY DEF DoneIsWhole

\* A message is written to its element.
LEMMA SendIs ==
  ASSUME Types, NEW m \in F2aMsg, NEW next \in LoaderSt, Send(m, next)
  PROVE  /\ Types' /\ SameImage /\ UNCHANGED <<a2f, host>> /\ (DoneIsWhole => DoneIsWhole')
         /\ ld'.st = "publish" /\ ld'.out = next /\ ld'.map = ld.map
         /\ Room' /\ f2a'.el[f2a'.wr] = m
         /\ Holds0(f2a) => Holds0(f2a')
         /\ \A d : Holds1(f2a, d) => Holds1(f2a', d)
  <1>1. f2a \in Ring(F2aEl) /\ ld \in LoaderT /\ m \in F2aEl
    BY DEF Types, F2aEl
  <1>2. /\ Room /\ f2a' = [f2a EXCEPT !.el[f2a.wr] = m]
        /\ ld' = [ld EXCEPT !.st = "publish", !.out = next]
        /\ UNCHANGED <<a2f, rram, host, have, seen, reqs, fails, resets>>
    BY DEF Send
  <1>3. /\ f2a' \in Ring(F2aEl)
        /\ f2a'.rd = f2a.rd /\ f2a'.wr = f2a.wr /\ f2a'.el[f2a'.wr] = m
        /\ Holds0(f2a) => Holds0(f2a')
        /\ \A d : Holds1(f2a, d) => Holds1(f2a', d)
    <2>1. Fills(f2a, f2a', m)
      BY <1>2 DEF Fills
    <2>2. f2a' \in Ring(F2aEl)
      BY <1>1, <2>1, RingFill
    <2>3. f2a'.rd = f2a.rd /\ f2a'.wr = f2a.wr /\ f2a'.el[f2a'.wr] = m
      BY <1>1, <1>2 DEF Ring
    <2>4. Holds0(f2a) => Holds0(f2a')
      BY <1>1, <2>1, RingFill
    <2>5. \A d : Holds1(f2a, d) => Holds1(f2a', d)
      BY <1>1, <2>1, RingFill
    <2> QED
      BY <2>2, <2>3, <2>4, <2>5
  <1>4. /\ ld' \in LoaderT /\ ld'.st = "publish" /\ ld'.out = next /\ ld'.map = ld.map
        /\ ld'.id = ld.id /\ ld'.size = ld.size /\ ld'.total = ld.total /\ ld'.cur = ld.cur
    BY <1>1, <1>2 DEF LoaderT, LoaderSt
  <1>5. Types'
    BY <1>2, <1>3, <1>4 DEF Types
  <1>6. SameImage
    BY <1>2, <1>4 DEF SameImage
  <1>7. Room'
    BY <1>2, <1>3 DEF Room
  <1> QED
    BY <1>2, <1>3, <1>4, <1>5, <1>6, <1>7, WholeSame

-----------------------------------------------------------------------------
(* The loader's steps.                                                     *)

LEMMA RecvReqKeeps ==
  ASSUME IInv, RecvReq
  PROVE  IInv'
  <1>0. Types /\ a2f \in Ring(A2fMsg) /\ ld \in LoaderT
    BY DEF IInv, Types
  <1>1. /\ a2f.rd # a2f.wr /\ Takes(a2f, a2f')
        /\ ld' = [ld EXCEPT !.st = "size", !.cmd = Msg.cmd, !.map = Msg.map, !.el = a2f.rd]
        /\ UNCHANGED <<f2a, rram, host, have, seen, reqs, fails, resets>>
    BY DEF RecvReq, Waiting, Consume, Takes
  <1>2. PICK c \in Cmds, map \in SUBSET Names :
          Holds0(f2a) /\ Holds1(a2f, Req(c, map)) /\ Asking(c, map) /\ host.msg = Empty
    <2>1. Wait
      BY DEF RecvReq, At, IInv, Line
    <2> QED
      BY <1>1, <2>1 DEF Wait, Holds0
  <1>3. Msg = Req(c, map) /\ Msg.cmd = c /\ Msg.map = map
    BY <1>2 DEF Msg, Holds1, Req
  <1>4. a2f' \in Ring(A2fMsg) /\ Holds0(a2f')
    BY <1>0, <1>1, <1>2, RingTake
  <1>5. a2f'.el = a2f.el /\ a2f.rd \in Index /\ a2f.el[a2f.rd] = Req(c, map)
    BY <1>0, <1>1, <1>2 DEF Ring, Takes, Holds1
  <1>6. ld' \in LoaderT /\ ld'.st = "size" /\ ld'.cmd = c /\ ld'.map = map /\ ld'.el = a2f.rd
    BY <1>0, <1>1, <1>3, <1>5 DEF LoaderT, LoaderSt
  <1>7. Types'
    BY <1>0, <1>1, <1>4, <1>6 DEF Types
  <1>8. Size'
    <2>1. Asking(c, map)' /\ Req(c, map)' = Req(c, map)
      BY <1>1, <1>2 DEF Asking, Req
    <2> QED
      BY <1>1, <1>2, <1>4, <1>5, <1>6, <2>1 DEF Size
  <1>9. Line'
    BY <1>6, <1>8 DEF Line
  <1> QED
    BY <1>1, <1>7, <1>9, WholeSame DEF IInv

LEMMA RecvSizeKeeps ==
  ASSUME IInv, RecvSize
  PROVE  IInv'
  <1>0. Types /\ ld \in LoaderT /\ host \in HostT
    BY DEF IInv, Types
  <1>1. /\ ld' = [ld EXCEPT !.size = a2f.el[ld.el].size,
                            !.st = CASE ld.cmd = "reset" -> "reset"
                                     [] ld.cmd = "boot"  -> "booted"
                                     [] OTHER            -> "bitmap"]
        /\ UNCHANGED <<a2f, f2a, rram, host, have, seen, reqs, fails, resets>>
    BY DEF RecvSize
  <1>2. Size
    BY DEF RecvSize, At, IInv, Line
  <1>3. a2f.el[ld.el].size = host.size /\ host.size \in Nat /\ ld.cmd \in Cmds
    BY <1>0, <1>2 DEF Size, Req, HostT, LoaderT
  <1>4. /\ ld' \in LoaderT /\ ld'.size = host.size /\ ld'.map = ld.map
        /\ ld.cmd = "reset" => ld'.st = "reset"
        /\ ld.cmd = "boot" => ld'.st = "booted"
        /\ ld.cmd = "none" => ld'.st = "bitmap"
    BY <1>0, <1>1, <1>3 DEF LoaderT, LoaderSt, Cmds
  <1>5. Types'
    BY <1>0, <1>1, <1>4 DEF Types
  <1>6. CASE ld.cmd = "none"
    <2>1. Bitmap'
      BY <1>1, <1>2, <1>4, <1>6 DEF Size, Bitmap, Asking
    <2> QED
      BY <1>1, <1>4, <1>5, <1>6, <2>1, WholeSame DEF IInv, Line
  <1>7. CASE ld.cmd # "none"
    <2>1. Quiet("gone")'
      BY <1>1, <1>2, <1>7 DEF Size, Asking, Quiet, Silent
    <2>2. Booted'
      BY <2>1 DEF Quiet, Booted
    <2> QED
      BY <1>1, <1>3, <1>4, <1>5, <1>7, <2>1, <2>2, WholeSame DEF IInv, Line, Cmds
  <1> QED
    BY <1>6, <1>7

LEMMA SendConfirmKeeps ==
  ASSUME IInv, SendConfirm
  PROVE  IInv'
  <1>0. Types /\ Bitmap
    BY DEF SendConfirm, At, IInv, Line
  <1>1. PICK next : next = IF ld.map = {} THEN "drain" ELSE "begin"
    OBVIOUS
  <1>2. next \in LoaderSt /\ Cfm \in F2aMsg /\ Send(Cfm, next)
    BY <1>1, F2aHas DEF SendConfirm, Cfm, LoaderSt
  <1>3. /\ Types' /\ SameImage /\ UNCHANGED <<a2f, host>> /\ (DoneIsWhole => DoneIsWhole')
        /\ ld'.st = "publish" /\ ld'.out = next /\ ld'.map = ld.map
        /\ Room' /\ f2a'.el[f2a'.wr] = Cfm /\ (Holds0(f2a) => Holds0(f2a'))
    BY <1>0, <1>2, SendIs
  <1>4. Bitmap'
    BY <1>0, <1>3 DEF Bitmap, Asking, SameImage
  <1>5. Published'
    BY <1>1, <1>3, <1>4 DEF Published, Cfm
  <1> QED
    BY <1>3, <1>5 DEF IInv, Line

LEMMA BeginKeeps ==
  ASSUME IInv, Begin
  PROVE  IInv'
  <1>0. Types /\ ld \in LoaderT /\ Begun
    BY DEF IInv, Types, Begin, At, Line
  <1>1. PICK id : id = CASE "wlan" \in ld.map -> "wlan"
                         [] "wlan" \notin ld.map /\ "bdf" \in ld.map -> "bdf"
                         [] OTHER -> "nil"
    OBVIOUS
  <1>2. ld' = [ld EXCEPT !.st = "request", !.cur = 0, !.total = Packets(ld.size), !.id = id]
        /\ UNCHANGED <<a2f, f2a, rram, host, have, seen, reqs, fails, resets>>
    BY <1>1, Zenon DEF Begin
  <1>3. id \in Ids /\ (id \in ld.map \/ (id = "nil" /\ "other" \in ld.map))
    BY <1>0, <1>1 DEF Ids, Begun, LoaderT, Names
  <1>4. ld.size \in Sizes /\ Packets(ld.size) \in 0 .. MaxPackets /\ 0 < Packets(ld.size)
        /\ 0 \in 0 .. MaxPackets
    BY <1>0, LongestIs, PacketsAre DEF Begun, LoaderT
  <1>5. /\ ld' \in LoaderT /\ ld'.st = "request" /\ ld'.cur = 0 /\ ld'.total = Packets(ld.size)
        /\ ld'.id = id /\ ld'.size = ld.size
    BY <1>0, <1>2, <1>3, <1>4 DEF LoaderT, LoaderSt
  <1>6. Types'
    BY <1>0, <1>2, <1>5 DEF Types
  <1>7. Transfer'
    <2>1. /\ have'[ld'.id] = Unset /\ ld'.size = host'.size /\ ld'.size \in Sizes
          /\ ld'.total = Packets(ld'.size) /\ ld'.cur <= ld'.total
      BY <1>0, <1>2, <1>3, <1>4, <1>5 DEF Begun
    <2>2. \A k \in 0 .. ld'.cur - 1 : FALSE
      BY <1>5
    <2> QED
      BY <2>1, <2>2, Zenon DEF Transfer
  <1>8. Requesting'
    BY <1>0, <1>2, <1>4, <1>5, <1>7 DEF Requesting, Begun, Confirmed, Silent
  <1> QED
    BY <1>2, <1>5, <1>6, <1>8, WholeSame DEF IInv, Line

LEMMA DrainKeeps ==
  ASSUME IInv, Drain
  PROVE  IInv'
  <1>0. Types /\ a2f \in Ring(A2fMsg) /\ f2a \in Ring(F2aEl) /\ ld \in LoaderT
    BY DEF IInv, Types
  <1>1. /\ Confirmed("last", "gone") /\ f2a.rd = f2a.wr /\ ld' = [ld EXCEPT !.st = "booted"]
        /\ UNCHANGED <<a2f, f2a, rram, host, have, seen, reqs, fails, resets>>
    BY DEF IInv, Line, Drain, At
  <1>2. ld' \in LoaderT /\ ld'.st = "booted"
    BY <1>0, <1>1 DEF LoaderT, LoaderSt
  <1>3. Types'
    BY <1>0, <1>1, <1>2 DEF Types
  <1>4. Booted'
    <2>1. Holds0(a2f) /\ Holds0(f2a) /\ Silent("gone")
      BY <1>0, <1>1, HoldsWaits DEF Confirmed
    <2> QED
      BY <1>1, <2>1 DEF Booted, Silent
  <1> QED
    BY <1>1, <1>2, <1>3, <1>4, WholeSame DEF IInv, Line

\* What is asked for is a packet of the image.
LEMMA XferIs ==
  ASSUME Types, Transfer, ld.cur < ld.total
  PROVE  /\ PacketLen \in 1 .. Chunk /\ ld.cur * Chunk \in Nat /\ Xfer \in F2aMsg
         /\ Data \in A2fMsg /\ Data # Empty
         /\ ld.cur * Chunk < ld.size =>
              PacketLen = IF ld.size - ld.cur * Chunk < Chunk THEN ld.size - ld.cur * Chunk ELSE Chunk
  <1>1. /\ ld.id \in Ids /\ ld.size \in Nat /\ ld.cur \in 0 .. MaxPackets /\ host.ver \in Nat
        /\ ld.total = Packets(ld.size) /\ Chunk \in Nat
    BY DfuAssumption DEF Types, LoaderT, HostT, Transfer
  <1>2. ld.cur \in Nat /\ ld.cur < Packets(ld.size) /\ ld.cur * Chunk \in Nat
    BY <1>1, LongestIs
  <1>3. PacketLen = IF ld.cur = Packets(ld.size) - 1 /\ ld.size % Chunk # 0
                    THEN ld.size % Chunk ELSE Chunk
    BY <1>1 DEF PacketLen
  <1>4. /\ PacketLen \in 1 .. Chunk
        /\ ld.cur * Chunk < ld.size =>
             PacketLen = IF ld.size - ld.cur * Chunk < Chunk THEN ld.size - ld.cur * Chunk ELSE Chunk
    <2>1. PICK n \in Nat : n = ld.size
      BY <1>1
    <2>2. PICK c \in Nat : c = ld.cur
      BY <1>2
    <2>3. PICK l : l = PacketLen
      OBVIOUS
    <2>4. c < Packets(n)
      BY <1>2, <2>1, <2>2
    <2>5. l = IF c = Packets(n) - 1 /\ n % Chunk # 0 THEN n % Chunk ELSE Chunk
      BY <1>3, <2>1, <2>2, <2>3
    <2>6. /\ l \in 1 .. Chunk
          /\ c * Chunk < n => l = IF n - c * Chunk < Chunk THEN n - c * Chunk ELSE Chunk
      BY <2>4, <2>5, PacketLenIs
    <2> QED
      BY <2>1, <2>2, <2>3, <2>6
  <1>5. Xfer \in F2aMsg
    BY <1>1, <1>4, F2aHas DEF Xfer
  <1>6. PacketLen \in Nat
    BY <1>1, <1>4
  <1>7. Data \in A2fMsg /\ Data # Empty
    BY <1>1, <1>2, <1>6, A2fHas DEF Data
  <1> QED
    BY <1>2, <1>4, <1>5, <1>7

LEMMA RequestKeeps ==
  ASSUME IInv, Request
  PROVE  IInv'
  <1>0. Types /\ Requesting /\ Send(Xfer, "program")
    BY DEF Request, At, IInv, Line, Xfer
  <1>1. "program" \in LoaderSt /\ Xfer \in F2aMsg
    BY <1>0, XferIs DEF LoaderSt, Requesting
  <1>2. /\ Types' /\ SameImage /\ UNCHANGED <<a2f, host>> /\ (DoneIsWhole => DoneIsWhole')
        /\ ld'.st = "publish" /\ ld'.out = "program"
        /\ Room' /\ f2a'.el[f2a'.wr] = Xfer /\ (Holds0(f2a) => Holds0(f2a'))
        /\ \A d : Holds1(f2a, d) => Holds1(f2a', d)
    BY <1>0, <1>1, SendIs
  <1>3. Transfer' /\ Xfer' = Xfer
    BY <1>0, <1>2, TransferSame DEF Requesting
  <1>4. Confirmed("cfm", "busy")' /\ (ld.cur = 0 \/ Silent("busy"))'
    BY <1>0, <1>2 DEF Requesting, Confirmed, Silent, SameImage, Cfm
  <1>5. Requesting'
    BY <1>0, <1>2, <1>3, <1>4 DEF Requesting, SameImage
  <1>6. Published'
    BY <1>2, <1>3, <1>5 DEF Published
  <1> QED
    BY <1>2, <1>6 DEF IInv, Line

LEMMA SendDoneKeeps ==
  ASSUME IInv, SendDone
  PROVE  IInv'
  <1>0. Types /\ Completed /\ Send(DoneInd, "confirm")
    BY DEF SendDone, At, IInv, Line, DoneInd
  <1>1. "confirm" \in LoaderSt /\ DoneInd \in F2aMsg
    BY <1>0, F2aHas DEF LoaderSt, DoneInd, Types, LoaderT
  <1>2. /\ Types' /\ SameImage /\ UNCHANGED <<a2f, host>> /\ (DoneIsWhole => DoneIsWhole')
        /\ ld'.st = "publish" /\ ld'.out = "confirm"
        /\ Room' /\ f2a'.el[f2a'.wr] = DoneInd /\ (Holds0(f2a) => Holds0(f2a'))
    BY <1>0, <1>1, SendIs
  <1>3. Transfer' /\ DoneInd' = DoneInd
    BY <1>0, <1>2, TransferSame DEF Completed
  <1>4. Completed'
    BY <1>0, <1>2, <1>3 DEF Completed, SameImage, Quiet, Silent
  <1>5. Published'
    BY <1>2, <1>3, <1>4 DEF Published
  <1> QED
    BY <1>2, <1>5 DEF IInv, Line

LEMMA SendRebootKeeps ==
  ASSUME IInv, SendReboot
  PROVE  IInv'
  <1>0. Types /\ Quiet("busy") /\ Send(Reboot, "booted")
    BY DEF SendReboot, At, IInv, Line, Reboot
  <1>1. "booted" \in LoaderSt /\ Reboot \in F2aMsg
    BY F2aHas DEF LoaderSt
  <1>2. /\ Types' /\ UNCHANGED <<a2f, host>> /\ (DoneIsWhole => DoneIsWhole')
        /\ ld'.st = "publish" /\ ld'.out = "booted"
        /\ Room' /\ f2a'.el[f2a'.wr] = Reboot /\ (Holds0(f2a) => Holds0(f2a'))
    BY <1>0, <1>1, SendIs
  <1>3. Quiet("busy")'
    BY <1>0, <1>2 DEF Quiet, Silent
  <1>4. Published'
    BY <1>2, <1>3 DEF Published, Reboot
  <1> QED
    BY <1>2, <1>4 DEF IInv, Line

LEMMA TakeDataKeeps ==
  ASSUME IInv, TakeData
  PROVE  IInv'
  <1>0. Types /\ a2f \in Ring(A2fMsg) /\ ld \in LoaderT /\ Program /\ a2f.rd # a2f.wr
    BY DEF IInv, Types, Line, TakeData, At, Waiting
  <1>1. /\ Transfer /\ ld.cur < ld.total /\ Holds0(f2a) /\ Holds1(a2f, Data) /\ Silent("busy")
    BY <1>0 DEF Program, Holds0
  <1>2. Msg = Data /\ Data.op = "data"
    BY <1>1 DEF Msg, Holds1, Data
  <1>3. /\ a2f' = [a2f EXCEPT !.rd = Succ(@), !.el[a2f.rd] = NoBuf]
        /\ \/ UNCHANGED ld
           \/ ld' = [ld EXCEPT !.st = "write", !.buf = Data, !.el = a2f.rd]
        /\ UNCHANGED <<f2a, rram, host, have, seen, reqs, fails, resets>>
    BY <1>2 DEF TakeData
  <1>4. a2f.rd \in Index /\ a2f.wr = Succ(a2f.rd) /\ a2f.wr \in Index /\ a2f.el \in [Index -> A2fMsg]
    BY <1>0, <1>1 DEF Ring, Holds1
  <1>5. a2f' \in Ring(A2fMsg) /\ Holds0(a2f')
    BY <1>0, <1>3, <1>4, A2fHas DEF Ring, Holds0
  <1>6. Data \in A2fMsg
    BY <1>0, <1>1, XferIs
  <1>7. CASE UNCHANGED ld
    <2>1. Types' /\ SameImage
      BY <1>0, <1>3, <1>5, <1>7 DEF Types, SameImage
    <2>2. Transfer'
      BY <1>1, <2>1, TransferSame
    <2>3. Program'
      BY <1>1, <1>3, <1>5, <1>7, <2>2 DEF Program, Silent
    <2>4. ld'.st = "program"
      BY <1>7 DEF TakeData, At
    <2> QED
      BY <1>3, <2>1, <2>3, <2>4, WholeSame DEF IInv, Line
  <1>8. CASE ld' = [ld EXCEPT !.st = "write", !.buf = Data, !.el = a2f.rd]
    <2>1. /\ ld' \in LoaderT /\ ld'.st = "write" /\ ld'.buf = Data
          /\ ld'.id = ld.id /\ ld'.size = ld.size /\ ld'.total = ld.total /\ ld'.cur = ld.cur
      BY <1>0, <1>4, <1>6, <1>8 DEF LoaderT, LoaderSt
    <2>2. Types' /\ SameImage
      BY <1>0, <1>3, <1>5, <2>1 DEF Types, SameImage
    <2>3. Transfer' /\ Data' = Data
      BY <1>1, <2>2, TransferSame
    <2>4. Writing'
      BY <1>1, <1>3, <1>5, <2>1, <2>3 DEF Writing, Quiet, Silent
    <2> QED
      BY <1>3, <2>1, <2>2, <2>4, WholeSame DEF IInv, Line
  <1> QED
    BY <1>3, <1>7, <1>8

\* A packet that is written, or lost, is the next of the image.
LEMMA CountedKeeps ==
  ASSUME IInv, ld.st = "write", NEW c \in Place, Write(c), Counted,
         UNCHANGED <<f2a, host, have, seen, reqs, resets>>, fails' \in 0 .. MaxFails,
         ld.cur * Chunk < ld.size => c \in {Lost, Good(host.ver, ld.size, ld.cur)}
  PROVE  IInv'
  <1>0. /\ Types /\ DoneIsWhole /\ a2f \in Ring(A2fMsg) /\ ld \in LoaderT
        /\ rram \in [Ids -> [0 .. MaxPackets - 1 -> Place]]
    BY DEF IInv, Types
  <1>1. Transfer /\ ld.cur < ld.total /\ Quiet("busy")
    BY DEF IInv, Line, Writing
  <1>2. /\ ld.id \in Ids /\ ld.cur \in 0 .. MaxPackets - 1 /\ ld.cur + 1 \in 0 .. MaxPackets
        /\ ld.cur + 1 <= ld.total /\ ld.cur \in Nat /\ ld.total \in Nat
    BY <1>0, <1>1, LongestIs DEF LoaderT
  <1>3. /\ rram' \in [Ids -> [0 .. MaxPackets - 1 -> Place]]
        /\ \A i \in Ids : i # ld.id => rram'[i] = rram[i]
        /\ rram'[ld.id][ld.cur] = c
        /\ \A k \in 0 .. MaxPackets - 1 : k # ld.cur => rram'[ld.id][k] = rram[ld.id][k]
    BY <1>0, <1>2 DEF Write
  <1>4. a2f' \in Ring(A2fMsg) /\ Holds0(a2f')
    <2>1. PICK m \in A2fMsg : m = IF a2f.el[ld.el] = NoBuf THEN Empty ELSE a2f.el[ld.el]
      BY <1>0, A2fHas DEF Ring, LoaderT
    <2>2. Swaps(a2f, a2f', ld.el, m) /\ ld.el \in Index
      BY <1>0, <2>1 DEF Counted, Swaps, LoaderT
    <2> QED
      BY <1>0, <1>1, <2>2, RingBuf DEF Quiet
  <1>5. PICK st \in {"request", "completed"} :
          /\ st = IF ld.cur + 1 < ld.total THEN "request" ELSE "completed"
          /\ ld' = [ld EXCEPT !.cur = @ + 1, !.buf = Empty, !.st = st]
    BY DEF Counted
  <1>6. /\ ld' \in LoaderT /\ ld'.st = st /\ ld'.cur = ld.cur + 1
        /\ ld'.id = ld.id /\ ld'.size = ld.size /\ ld'.total = ld.total
    BY <1>0, <1>2, <1>5, A2fHas DEF LoaderT, LoaderSt
  <1>7. Types'
    BY <1>0, <1>3, <1>4, <1>6 DEF Types
  <1>8. Transfer'
    <2>1. /\ have'[ld'.id] = Unset /\ ld'.size = host'.size /\ ld'.size \in Sizes
          /\ ld'.total = Packets(ld'.size) /\ ld'.cur <= ld'.total
      BY <1>1, <1>2, <1>6 DEF Transfer
    <2>2. ASSUME NEW k \in 0 .. ld'.cur - 1, k * Chunk < ld'.size
          PROVE  rram'[ld'.id][k] \in {Lost, Good(host'.ver, ld'.size, k)}
      <3>1. k \in 0 .. MaxPackets - 1 /\ (k = ld.cur \/ k \in 0 .. ld.cur - 1)
        BY <1>2, <1>6, LongestIs
      <3>2. CASE k = ld.cur
        BY <1>3, <1>6, <2>2, <3>2
      <3>3. CASE k # ld.cur
        <4>1. rram[ld.id][k] \in {Lost, Good(host.ver, ld.size, k)}
          BY <1>1, <1>6, <2>2, <3>1, <3>3 DEF Transfer
        <4> QED
          BY <1>3, <1>6, <3>1, <3>3, <4>1
      <3> QED
        BY <3>2, <3>3
    <2> QED
      BY <2>1, <2>2, Zenon DEF Transfer
  <1>9. Quiet("busy")'
    BY <1>1, <1>4 DEF Quiet, Silent
  <1>10. Line'
    <2>1. CASE st = "request"
      <3>1. ld'.cur < ld'.total
        BY <1>2, <1>5, <1>6, <2>1
      <3>2. Requesting'
        BY <1>8, <1>9, <3>1 DEF Requesting, Quiet, Confirmed
      <3> QED
        BY <1>6, <2>1, <3>2 DEF Line
    <2>2. CASE st = "completed"
      <3>1. ld'.cur = ld'.total
        BY <1>2, <1>5, <1>6, <2>2
      <3>2. Completed'
        BY <1>8, <1>9, <3>1 DEF Completed
      <3> QED
        BY <1>6, <2>2, <3>2 DEF Line
    <2> QED
      BY <2>1, <2>2
  <1>11. DoneIsWhole'
    <2>1. \A i \in Ids : have'[i] # Unset => have'[i] = have[i] /\ have[i] # Unset /\ rram'[i] = rram[i]
      BY <1>1, <1>3 DEF Transfer
    <2> QED
      BY <1>0, <2>1, Zenon DEF DoneIsWhole
  <1> QED
    BY <1>7, <1>10, <1>11 DEF IInv

LEMMA WriteKeeps ==
  ASSUME IInv, WriteData \/ WriteFails
  PROVE  IInv'
  <1>0. Types /\ ld \in LoaderT /\ host \in HostT /\ fails \in 0 .. MaxFails /\ ld.st = "write"
    BY DEF IInv, Types, WriteData, WriteFails, At
  <1>1. Transfer /\ ld.cur < ld.total /\ ld.buf = Data
    BY <1>0 DEF IInv, Line, Writing
  <1>2. CASE WriteData
    <2>1. \/ Written = Lost
          \/ Written = [ver |-> host.ver, off |-> ld.cur * Chunk, len |-> PacketLen]
      BY <1>1 DEF Written, Data
    <2>2. PICK c : c = Written
      OBVIOUS
    <2>3. c \in Place
      <3>1. CASE Written = Lost
        BY <2>2, <3>1 DEF Lost, Blank, Place
      <3>2. CASE Written # Lost
        BY <1>0, <1>1, <2>1, <2>2, <3>2, XferIs DEF Place, HostT
      <3> QED
        BY <3>1, <3>2
    <2>4. ld.cur * Chunk < ld.size => c \in {Lost, Good(host.ver, ld.size, ld.cur)}
      <3>1. CASE Written = Lost
        BY <2>2, <3>1
      <3>2. CASE Written # Lost
        BY <1>0, <1>1, <2>1, <2>2, <3>2, XferIs DEF Good
      <3> QED
        BY <3>1, <3>2
    <2>5. Write(c) /\ Counted /\ UNCHANGED <<f2a, host, have, seen, reqs, resets>> /\ fails' \in 0 .. MaxFails
      BY <1>0, <1>2, <2>2 DEF WriteData
    <2> QED
      BY <1>0, <2>3, <2>4, <2>5, CountedKeeps
  <1>3. CASE WriteFails
    <2>1. Lost \in Place
      BY DEF Lost, Blank, Place
    <2>2. /\ Write(Lost) /\ Counted /\ UNCHANGED <<f2a, host, have, seen, reqs, resets>>
          /\ fails' \in 0 .. MaxFails
      BY <1>0, <1>3, DfuAssumption DEF WriteFails
    <2>3. PICK c : c = Lost
      OBVIOUS
    <2> QED
      BY <1>0, <2>1, <2>2, <2>3, CountedKeeps
  <1> QED
    BY <1>2, <1>3

LEMMA RecvDoneKeeps ==
  ASSUME IInv, RecvDone
  PROVE  IInv'
  <1>0. Types /\ a2f \in Ring(A2fMsg) /\ ld \in LoaderT /\ Confirm /\ a2f.rd # a2f.wr
    BY DEF IInv, Types, Line, RecvDone, At, Waiting
  <1>1. PICK b \in BOOLEAN :
          /\ Holds0(f2a)
          /\ \/ /\ host.pc = IF b \/ ld.id # "nil" THEN "idle" ELSE "busy"
                /\ Holds1(a2f, Done(b)) /\ host.msg = Empty
             \/ /\ b \/ ld.id # "nil"
                /\ \E c \in Cmds, map \in SUBSET Names :
                     /\ Asking(c, map)
                     /\ \/ Holds1(a2f, Done(b)) /\ host.msg = Req(c, map)
                        \/ Holds2(a2f, Done(b), Req(c, map)) /\ host.msg = Empty
    BY <1>0 DEF Confirm, Holds0
  <1>2. Msg.more = b
    BY <1>1 DEF Msg, Holds1, Holds2, Done
  <1>3. PICK st \in {"wait", "reboot"} :
          /\ st = IF b \/ ld.id # "nil" THEN "wait" ELSE "reboot"
          /\ ld' = [ld EXCEPT !.st = st]
          /\ Takes(a2f, a2f')
          /\ UNCHANGED <<f2a, rram, host, have, seen, reqs, fails, resets>>
    BY <1>2 DEF RecvDone, Consume, Takes
  <1>4. ld' \in LoaderT /\ ld'.st = st
    BY <1>0, <1>3 DEF LoaderT, LoaderSt
  <1>5. /\ a2f' \in Ring(A2fMsg) /\ \A d : Holds1(a2f, d) => Holds0(a2f')
        /\ \A d, e : Holds2(a2f, d, e) => Holds1(a2f', e)
    BY <1>0, <1>3, RingTake
  <1>6. Types'
    BY <1>0, <1>3, <1>4, <1>5 DEF Types
  <1>7. CASE Holds1(a2f, Done(b)) /\ host.msg = Empty /\ host.pc = IF b \/ ld.id # "nil" THEN "idle" ELSE "busy"
    <2>1. Holds0(f2a)' /\ Holds0(a2f)' /\ Silent(IF b \/ ld.id # "nil" THEN "idle" ELSE "busy")
      BY <1>1, <1>3, <1>5, <1>7 DEF Silent
    <2>2. st = "wait" => Wait'
      BY <1>3, <2>1 DEF Wait, Silent
    <2>3. st = "reboot" => Quiet("busy")'
      BY <1>3, <2>1 DEF Quiet, Silent
    <2> QED
      BY <1>3, <1>4, <1>6, <2>2, <2>3, WholeSame DEF IInv, Line
  <1>8. ASSUME NEW c \in Cmds, NEW map \in SUBSET Names, Asking(c, map), b \/ ld.id # "nil",
               \/ Holds1(a2f, Done(b)) /\ host.msg = Req(c, map)
               \/ Holds2(a2f, Done(b), Req(c, map)) /\ host.msg = Empty
        PROVE  IInv'
    <2>1. Asking(c, map)' /\ Req(c, map)' = Req(c, map)
      BY <1>3, <1>8 DEF Asking, Req
    <2>2. \/ Holds0(a2f') /\ host'.msg = Req(c, map)
          \/ Holds1(a2f', Req(c, map)) /\ host'.msg = Empty
      BY <1>3, <1>5, <1>8
    <2>3. Wait'
      BY <1>1, <1>3, <2>1, <2>2 DEF Wait
    <2> QED
      BY <1>3, <1>4, <1>6, <1>8, <2>3, WholeSame DEF IInv, Line
  <1> QED
    BY <1>1, <1>7, <1>8

LEMMA PublishKeeps ==
  ASSUME IInv, Publish
  PROVE  IInv'
  <1>0. Types /\ f2a \in Ring(F2aEl) /\ ld \in LoaderT /\ Published /\ f2a.rd # Succ(f2a.wr)
    BY DEF IInv, Types, Line, Publish, At, Published, Room
  <1>1. /\ Moves(f2a, f2a') /\ ld' = [ld EXCEPT !.st = ld.out]
        /\ UNCHANGED <<a2f, rram, host, have, seen, reqs, fails, resets>>
    BY DEF Publish, Moves
  <1>2. PICK m : m = f2a.el[f2a.wr]
    OBVIOUS
  <1>3. /\ f2a' \in Ring(F2aEl) /\ (Holds0(f2a) => Holds1(f2a', m))
        /\ \A d : Holds1(f2a, d) => Holds2(f2a', d, m)
    BY <1>0, <1>1, <1>2, RingMove
  <1>4. /\ ld' \in LoaderT /\ ld'.st = ld.out /\ ld'.map = ld.map
        /\ ld'.id = ld.id /\ ld'.size = ld.size /\ ld'.total = ld.total /\ ld'.cur = ld.cur
    BY <1>0, <1>1 DEF LoaderT
  <1>5. Types' /\ SameImage /\ (DoneIsWhole => DoneIsWhole')
    BY <1>0, <1>1, <1>3, <1>4, WholeSame DEF Types, SameImage
  <1>6. Xfer' = Xfer /\ DoneInd' = DoneInd /\ (Transfer => Transfer')
    BY <1>5, TransferSame
  <1>7. CASE ld.out \in {"drain", "begin"} /\ Bitmap /\ m = Cfm /\ (ld.out = "drain") = (ld.map = {})
    <2>1. Holds1(f2a', Cfm) /\ Holds0(a2f') /\ host'.msg = Empty
      BY <1>1, <1>3, <1>7 DEF Bitmap
    <2>2. CASE ld.out = "drain"
      <3>1. Silent("last")'
        BY <1>1, <1>7, <2>1, <2>2 DEF Bitmap, Asking, Silent
      <3>2. Confirmed("last", "gone")'
        BY <2>1, <3>1 DEF Confirmed, Cfm
      <3> QED
        BY <1>4, <1>5, <2>2, <3>2 DEF IInv, Line
    <2>3. CASE ld.out = "begin"
      <3>1. ld.map # {} /\ Silent("cfm")'
        BY <1>1, <1>7, <2>1, <2>3 DEF Bitmap, Asking, Silent
      <3>2. Begun'
        BY <1>1, <1>4, <1>7, <2>1, <3>1 DEF Begun, Confirmed, Cfm, Bitmap, Asking
      <3> QED
        BY <1>4, <1>5, <2>3, <3>2 DEF IInv, Line
    <2> QED
      BY <1>7, <2>2, <2>3
  <1>8. CASE ld.out = "program" /\ Requesting /\ m = Xfer
    <2>1. Holds0(a2f') /\ \/ Holds2(f2a', Cfm, Xfer) /\ Silent("cfm")'
                          \/ Holds1(f2a', Xfer) /\ Silent("busy")'
      BY <1>1, <1>3, <1>8 DEF Requesting, Confirmed, Silent
    <2>2. Transfer' /\ ld'.cur < ld'.total
      BY <1>4, <1>6, <1>8 DEF Requesting
    <2>3. Program'
      BY <1>6, <2>1, <2>2 DEF Program, Cfm
    <2> QED
      BY <1>4, <1>5, <1>8, <2>3 DEF IInv, Line
  <1>9. CASE ld.out = "confirm" /\ Completed /\ m = DoneInd
    <2>1. /\ Holds0(a2f') /\ Holds1(f2a', DoneInd) /\ Silent("busy")' /\ Transfer'
          /\ ld'.cur = ld'.total
      BY <1>1, <1>3, <1>4, <1>6, <1>9 DEF Completed, Quiet, Silent
    <2>2. Confirm'
      BY <1>6, <2>1 DEF Confirm
    <2> QED
      BY <1>4, <1>5, <1>9, <2>2 DEF IInv, Line
  <1>10. CASE ld.out = "booted" /\ Quiet("busy") /\ m = Reboot
    <2>1. Booted'
      BY <1>1, <1>3, <1>10 DEF Booted, Quiet, Silent, Reboot
    <2> QED
      BY <1>4, <1>5, <1>10, <2>1 DEF IInv, Line
  <1> QED
    BY <1>0, <1>2, <1>7, <1>8, <1>9, <1>10 DEF Published

LEMMA LoaderKeeps ==
  ASSUME IInv, Loader
  PROVE  IInv'
  BY RecvReqKeeps, RecvSizeKeeps, SendConfirmKeeps, BeginKeeps, DrainKeeps, RequestKeeps,
     TakeDataKeeps, WriteKeeps, SendDoneKeeps, RecvDoneKeeps, SendRebootKeeps, PublishKeeps
     DEF Loader

-----------------------------------------------------------------------------
(* A start, and the host's steps.                                          *)

LEMMA StartIs ==
  /\ \A M : Empty \in M => NewRing \in Ring(M) /\ Holds0(NewRing)
  /\ NewLoader \in LoaderT /\ NewLoader.st = "wait"
  /\ Ready \in HostT /\ Ready.pc = "idle" /\ Ready.msg = Empty
  <1>0. 0 \in Index /\ 0 \in 0 .. MaxPackets /\ Empty \in A2fMsg
    BY DfuAssumption, LongestIs, A2fHas DEF Index
  <1>1. ASSUME NEW M, Empty \in M
        PROVE  NewRing \in Ring(M) /\ Holds0(NewRing)
    BY <1>0, <1>1 DEF NewRing, Ring, Holds0
  <1>2. NewLoader \in LoaderT /\ NewLoader.st = "wait"
    BY <1>0 DEF NewLoader, LoaderT, LoaderSt, Cmds, Names, Ids
  <1>3. Ready \in HostT /\ Ready.pc = "idle" /\ Ready.msg = Empty
    BY <1>0 DEF Ready, HostT
  <1> QED
    BY <1>1, <1>2, <1>3

LEMMA InitKeeps ==
  ASSUME Init
  PROVE  IInv
  <1>1. Empty \in A2fMsg /\ Empty \in F2aEl
    BY A2fHas DEF F2aEl
  <1>2. a2f = NewRing /\ f2a = NewRing /\ ld = NewLoader /\ host = Ready
    BY Zenon DEF Init
  <1>3. /\ a2f \in Ring(A2fMsg) /\ f2a \in Ring(F2aEl) /\ ld \in LoaderT /\ host \in HostT
        /\ Holds0(a2f) /\ Holds0(f2a) /\ ld.st = "wait" /\ Silent("idle")
    BY <1>1, <1>2, StartIs DEF Silent
  <1>4. rram \in [Ids -> [0 .. MaxPackets - 1 -> Place]]
    <2>1. PICK b \in Place : b = Blank
      BY DEF Blank, Place
    <2>2. rram = [i \in Ids |-> [k \in 0 .. MaxPackets - 1 |-> b]]
      BY <2>1, Zenon DEF Init
    <2> QED
      BY <2>2
  <1>5. have \in [Ids -> [ver : Nat, size : Nat]] /\ \A i \in Ids : have[i] = Unset
    <2>1. PICK u \in [ver : Nat, size : Nat] : u = Unset
      BY DEF Unset
    <2>2. have = [i \in Ids |-> u]
      BY <2>1, Zenon DEF Init
    <2> QED
      BY <2>1, <2>2
  <1>6. reqs \in 0 .. MaxReqs /\ fails \in 0 .. MaxFails /\ resets \in 0 .. MaxResets
    <2>1. reqs = 0 /\ fails = 0 /\ resets = 0
      BY Zenon DEF Init
    <2> QED
      BY <2>1, DfuAssumption
  <1>7. Types
    BY <1>3, <1>4, <1>5, <1>6 DEF Types
  <1>8. DoneIsWhole
    BY <1>5, Zenon DEF DoneIsWhole
  <1>9. Line
    BY <1>3 DEF Line, Wait
  <1> QED
    BY <1>7, <1>8, <1>9 DEF IInv

LEMMA RestartKeeps ==
  ASSUME IInv, SwReset \/ PowerFail
  PROVE  IInv'
  <1>1. /\ a2f' = NewRing /\ f2a' = NewRing /\ ld' = NewLoader /\ host' = Ready
        /\ UNCHANGED <<rram, have, reqs, fails>>
    BY DEF SwReset, PowerFail, Restart
  <1>2. resets' \in 0 .. MaxResets
    BY DfuAssumption DEF SwReset, PowerFail, IInv, Types
  <1>3. Empty \in A2fMsg /\ Empty \in F2aEl
    BY A2fHas DEF F2aEl
  <1>4. /\ a2f' \in Ring(A2fMsg) /\ f2a' \in Ring(F2aEl) /\ ld' \in LoaderT /\ host' \in HostT
        /\ Holds0(a2f') /\ Holds0(f2a') /\ ld'.st = "wait" /\ Silent("idle")'
    BY <1>1, <1>3, StartIs DEF Silent
  <1>5. Types'
    BY <1>1, <1>2, <1>4 DEF Types, IInv
  <1>6. Line'
    BY <1>4 DEF Line, Wait
  <1> QED
    BY <1>1, <1>5, <1>6, WholeSame DEF IInv

\* The host wants something only when the loader waits for it to, or is about to.
LEMMA IdleIs ==
  ASSUME IInv, Silent("idle")
  PROVE  /\ Holds0(f2a)
         /\ \/ ld.st = "wait" /\ Holds0(a2f)
            \/ /\ ld.st = "confirm"
               /\ \E b \in BOOLEAN : (b \/ ld.id # "nil") /\ Holds1(a2f, Done(b))
  <1>0. host.pc = "idle" /\ host.msg = Empty /\ Line /\ Types /\ host \in HostT /\ host.size \in Nat
    BY DEF IInv, Silent, Types, HostT
  <1>1. \A c, map : ~ Asking(c, map)
    BY <1>0 DEF Asking
  <1>2. \A pc : pc # "idle" => ~ Silent(pc)
    BY <1>0 DEF Silent
  <1>3. ld.st \notin {"size", "bitmap", "drain", "begin", "request", "write", "completed", "reboot",
                      "reset", "booted"}
    BY <1>0, <1>1, <1>2 DEF Line, Size, Bitmap, Confirmed, Begun, Requesting, Writing, Completed,
                            Quiet, Booted
  <1>4. ld.st # "program"
    BY <1>0, <1>2 DEF Line, Program
  <1>5. ld.st # "publish"
    BY <1>0, <1>1, <1>2 DEF Line, Published, Bitmap, Requesting, Confirmed, Completed, Quiet
  <1>6. CASE ld.st = "wait"
    BY <1>0, <1>1, <1>6 DEF Line, Wait
  <1>7. CASE ld.st = "confirm"
    <2>1. Confirm
      BY <1>0, <1>7 DEF Line
    <2>2. ~ Silent("busy")
      BY <1>2
    <2>3. \A b \in BOOLEAN : Done(b) # Empty
      BY A2fHas
    <2> QED
      BY <1>0, <1>1, <1>7, <2>1, <2>2, <2>3 DEF Confirm
  <1> QED
    BY <1>0, <1>3, <1>4, <1>5, <1>6, <1>7 DEF Types, LoaderT, LoaderSt

LEMMA HostWantsKeeps ==
  ASSUME IInv, NEW cmd \in Cmds, NEW map \in SUBSET Names, NEW n \in Nat, HostWants(cmd, map, n),
         cmd = "none" => n \in Sizes
  PROVE  IInv'
  <1>0. Types /\ DoneIsWhole /\ Silent("idle") /\ reqs \in Nat /\ reqs < MaxReqs /\ MaxReqs \in Nat
    BY DfuAssumption DEF IInv, Types, HostWants, Silent
  <1>1. PICK pc \in {"gone", "last", "cfm"} :
          pc = CASE cmd # "none" -> "gone" [] cmd = "none" /\ map = {} -> "last" [] OTHER -> "cfm"
    OBVIOUS
  <1>2. PICK m \in A2fMsg : m = [op |-> "req", cmd |-> cmd, map |-> map, size |-> n]
    BY A2fHas
  <1>3. host' = [pc |-> pc, msg |-> m, ver |-> reqs + 1, size |-> n]
    BY <1>1, <1>2, Zenon DEF HostWants
  <1>4. reqs' = reqs + 1 /\ UNCHANGED <<a2f, f2a, ld, rram, seen, fails, resets>>
    BY DEF HostWants
  <1>5. host' \in HostT /\ host'.pc = pc /\ host'.msg = m /\ host'.size = n
    BY <1>0, <1>1, <1>2, <1>3 DEF HostT
  <1>6. /\ have' \in [Ids -> [ver : Nat, size : Nat]]
        /\ \A i \in Ids : i \in map \/ (i = "nil" /\ "other" \in map) => have'[i] = Unset
        /\ \A i \in Ids : have'[i] = Unset \/ have'[i] = have[i]
    <2>1. PICK u \in [ver : Nat, size : Nat] : u = Unset
      BY DEF Unset
    <2>2. have' = [i \in Ids |-> IF i \in map \/ (i = "nil" /\ "other" \in map) THEN u ELSE have[i]]
      BY <2>1, Zenon DEF HostWants
    <2>3. have \in [Ids -> [ver : Nat, size : Nat]]
      BY <1>0 DEF Types
    <2> QED
      BY <2>1, <2>2, <2>3
  <1>7. Types'
    BY <1>0, <1>4, <1>5, <1>6 DEF Types
  <1>8. DoneIsWhole'
    BY <1>0, <1>4, <1>6, Zenon DEF DoneIsWhole
  <1>9. Asking(cmd, map)'
    BY <1>1, <1>5, <1>6 DEF Asking
  <1>10. m = Req(cmd, map)'
    BY <1>2, <1>5 DEF Req
  <1>11. CASE ld.st = "wait" /\ Holds0(a2f) /\ Holds0(f2a)
    <2>1. Wait'
      BY <1>4, <1>5, <1>9, <1>10, <1>11 DEF Wait
    <2> QED
      BY <1>4, <1>7, <1>8, <1>11, <2>1 DEF IInv, Line
  <1>12. ASSUME NEW b \in BOOLEAN, ld.st = "confirm", Holds0(f2a), b \/ ld.id # "nil", Holds1(a2f, Done(b))
         PROVE  IInv'
    <2>1. Confirm'
      BY <1>4, <1>5, <1>9, <1>10, <1>12 DEF Confirm, Done
    <2> QED
      BY <1>4, <1>7, <1>8, <1>12, <2>1 DEF IInv, Line
  <1> QED
    BY <1>0, <1>11, <1>12, IdleIs

\* The host has a message to send only in these states.
LEMMA ToSendIs ==
  ASSUME IInv, host.msg # Empty
  PROVE  /\ Holds0(f2a)
         /\ \/ /\ ld.st = "wait" /\ Holds0(a2f)
               /\ \E c \in Cmds, map \in SUBSET Names : Asking(c, map) /\ host.msg = Req(c, map)
            \/ /\ ld.st = "program" /\ Holds0(a2f) /\ host.msg = Data /\ host.pc = "busy"
               /\ Transfer /\ ld.cur < ld.total
            \/ /\ ld.st = "confirm" /\ Holds0(a2f)
               /\ \E b \in BOOLEAN : /\ host.msg = Done(b)
                                     /\ host.pc = IF b \/ ld.id # "nil" THEN "idle" ELSE "busy"
            \/ /\ ld.st = "confirm"
               /\ \E b \in BOOLEAN, c \in Cmds, map \in SUBSET Names :
                    /\ b \/ ld.id # "nil"
                    /\ Asking(c, map) /\ Holds1(a2f, Done(b)) /\ host.msg = Req(c, map)
  <1>0. Line /\ Types
    BY DEF IInv
  <1>1. \A pc : ~ Silent(pc)
    BY DEF Silent
  <1>2. ld.st \notin {"size", "bitmap", "drain", "begin", "request", "write", "completed", "reboot",
                      "reset", "booted"}
    BY <1>0, <1>1 DEF Line, Size, Bitmap, Confirmed, Begun, Requesting, Writing, Completed,
                      Quiet, Booted
  <1>3. ld.st # "publish"
    BY <1>0, <1>1 DEF Line, Published, Bitmap, Requesting, Confirmed, Completed, Quiet
  <1>4. CASE ld.st = "wait"
    BY <1>0, <1>1, <1>4 DEF Line, Wait
  <1>5. CASE ld.st = "program"
    BY <1>0, <1>1, <1>5 DEF Line, Program
  <1>6. CASE ld.st = "confirm"
    BY <1>0, <1>1, <1>6 DEF Line, Confirm
  <1> QED
    BY <1>0, <1>2, <1>3, <1>4, <1>5, <1>6 DEF Types, LoaderT, LoaderSt

LEMMA HostPutsKeeps ==
  ASSUME IInv, HostPuts
  PROVE  IInv'
  <1>0. Types /\ a2f \in Ring(A2fMsg) /\ host \in HostT
    BY DEF IInv, Types
  <1>1. /\ host.msg # Empty /\ a2f.rd # Succ(a2f.wr) /\ Puts(a2f, a2f', host.msg)
        /\ host' = [host EXCEPT !.pc = host.pc, !.msg = Empty]
        /\ UNCHANGED <<f2a, ld, rram, have, seen, reqs, fails, resets>>
    BY DEF HostPuts, Puts, Tell
  <1>2. host.msg \in A2fMsg
    BY <1>0 DEF HostT
  <1>3. /\ a2f' \in Ring(A2fMsg) /\ (Holds0(a2f) => Holds1(a2f', host.msg))
        /\ \A d : Holds1(a2f, d) => Holds2(a2f', d, host.msg)
    BY <1>0, <1>1, <1>2, RingPut
  <1>4. /\ host' \in HostT /\ host'.pc = host.pc /\ host'.msg = Empty
        /\ host'.ver = host.ver /\ host'.size = host.size
    BY <1>0, <1>1, A2fHas DEF HostT
  <1>5. Types' /\ SameImage /\ ld' = ld /\ f2a' = f2a
    BY <1>0, <1>1, <1>3, <1>4 DEF Types, SameImage
  <1>6. DoneIsWhole'
    BY <1>1, WholeSame DEF IInv
  <1>7. \A c \in Cmds, map \in SUBSET Names :
          (Asking(c, map) => Asking(c, map)') /\ Req(c, map)' = Req(c, map)
    BY <1>1, <1>4 DEF Asking, Req
  <1>8. CASE /\ ld.st = "wait" /\ Holds0(a2f) /\ Holds0(f2a)
             /\ \E c \in Cmds, map \in SUBSET Names : Asking(c, map) /\ host.msg = Req(c, map)
    <2>1. PICK c \in Cmds, map \in SUBSET Names : Asking(c, map) /\ host.msg = Req(c, map)
      BY <1>8
    <2>2. Asking(c, map)' /\ Req(c, map)' = Req(c, map) /\ Holds1(a2f', Req(c, map))
      BY <1>3, <1>7, <1>8, <2>1
    <2>3. Wait'
      BY <1>4, <1>5, <1>8, <2>2 DEF Wait
    <2> QED
      BY <1>5, <1>6, <1>8, <2>3 DEF IInv, Line
  <1>9. CASE /\ ld.st = "program" /\ Holds0(a2f) /\ Holds0(f2a) /\ host.msg = Data /\ host.pc = "busy"
             /\ Transfer /\ ld.cur < ld.total
    <2>1. Transfer' /\ Data' = Data
      BY <1>5, <1>9, TransferSame
    <2>2. Holds1(a2f', Data') /\ Silent("busy")' /\ ld'.cur < ld'.total
      BY <1>3, <1>4, <1>5, <1>9, <2>1 DEF Silent
    <2>3. Program'
      BY <1>5, <1>9, <2>1, <2>2 DEF Program
    <2> QED
      BY <1>5, <1>6, <1>9, <2>3 DEF IInv, Line
  <1>10. ASSUME NEW b \in BOOLEAN, ld.st = "confirm", Holds0(a2f), Holds0(f2a), host.msg = Done(b),
                host.pc = IF b \/ ld.id # "nil" THEN "idle" ELSE "busy"
         PROVE  IInv'
    <2>1. Holds1(a2f', Done(b))
      BY <1>3, <1>10
    <2>2. Confirm'
      BY <1>4, <1>5, <1>10, <2>1 DEF Confirm, Done
    <2> QED
      BY <1>5, <1>6, <1>10, <2>2 DEF IInv, Line
  <1>11. ASSUME NEW b \in BOOLEAN, NEW c \in Cmds, NEW map \in SUBSET Names, ld.st = "confirm",
                Holds0(f2a), b \/ ld.id # "nil", Asking(c, map), Holds1(a2f, Done(b)), host.msg = Req(c, map)
         PROVE  IInv'
    <2>1. Asking(c, map)' /\ Req(c, map)' = Req(c, map) /\ Holds2(a2f', Done(b), Req(c, map))
      BY <1>3, <1>7, <1>11
    <2>2. Confirm'
      BY <1>4, <1>5, <1>11, <2>1 DEF Confirm, Done
    <2> QED
      BY <1>5, <1>6, <1>11, <2>2 DEF IInv, Line
  <1> QED
    BY <1>1, <1>8, <1>9, <1>10, <1>11, ToSendIs

\* ... and one to read only in these.
LEMMA ToReadIs ==
  ASSUME IInv, host.msg = Empty, f2a.rd # f2a.wr
  PROVE  \/ /\ Holds1(f2a, Cfm) /\ Holds0(a2f)
            /\ \/ ld.st = "drain" /\ host.pc = "last"
               \/ ld.st = "begin" /\ host.pc = "cfm" /\ Begun
               \/ ld.st = "request" /\ host.pc = "cfm" /\ Requesting
               \/ /\ ld.st = "publish" /\ host.pc = "cfm" /\ Requesting
                  /\ Room /\ ld.out = "program" /\ f2a.el[f2a.wr] = Xfer
         \/ /\ ld.st = "program" /\ Transfer /\ ld.cur < ld.total /\ Holds0(a2f)
            /\ \/ Holds2(f2a, Cfm, Xfer) /\ host.pc = "cfm"
               \/ Holds1(f2a, Xfer) /\ host.pc = "busy"
         \/ /\ ld.st = "confirm" /\ Transfer /\ ld.cur = ld.total /\ Holds0(a2f)
            /\ Holds1(f2a, DoneInd) /\ host.pc = "busy"
         \/ ld.st = "booted" /\ Holds0(a2f) /\ Holds1(f2a, Reboot) /\ host.pc = "busy"
  <1>0. Line /\ Types /\ ~ Holds0(f2a) /\ \A pc : Silent(pc) => host.pc = pc
    BY DEF IInv, Holds0, Silent
  <1>1. ld.st \notin {"wait", "size", "bitmap", "write", "completed", "reboot", "reset"}
    BY <1>0 DEF Line, Wait, Size, Bitmap, Writing, Completed, Quiet
  <1>2. CASE ld.st = "publish"
    BY <1>0, <1>2 DEF Line, Published, Bitmap, Requesting, Confirmed, Completed, Quiet
  <1>3. CASE ld.st = "drain"
    BY <1>0, <1>3 DEF Line, Confirmed
  <1>4. CASE ld.st = "begin"
    BY <1>0, <1>4 DEF Line, Begun, Confirmed
  <1>5. CASE ld.st = "request"
    BY <1>0, <1>5 DEF Line, Requesting, Confirmed
  <1>6. CASE ld.st = "program"
    BY <1>0, <1>6 DEF Line, Program
  <1>7. CASE ld.st = "confirm"
    BY <1>0, <1>7 DEF Line, Confirm
  <1>8. CASE ld.st = "booted"
    BY <1>0, <1>8 DEF Line, Booted
  <1> QED
    BY <1>0, <1>1, <1>2, <1>3, <1>4, <1>5, <1>6, <1>7, <1>8 DEF Types, LoaderT, LoaderSt

\* A message other than the indication changes what the host waits for.
LEMMA HostHears ==
  ASSUME IInv, HostReads, have' = have, NEW pc \in {"gone", "busy"}, NEW m \in A2fMsg, Tell(pc, m)
  PROVE  /\ Types' /\ SameImage /\ DoneIsWhole' /\ UNCHANGED <<a2f, ld, rram, have>>
         /\ host'.pc = pc /\ host'.msg = m
         /\ \A d : Holds1(f2a, d) => Holds0(f2a')
         /\ \A d, e : Holds2(f2a, d, e) => Holds1(f2a', e)
         /\ Room' /\ f2a'.wr = f2a.wr /\ f2a'.el = f2a.el
  <1>0. Types /\ f2a \in Ring(F2aEl) /\ host \in HostT
    BY DEF IInv, Types
  <1>1. /\ f2a.rd # f2a.wr /\ Takes(f2a, f2a') /\ host' = [host EXCEPT !.pc = pc, !.msg = m]
        /\ UNCHANGED <<a2f, ld, rram, reqs, fails, resets>>
    BY DEF HostReads, Tell, Takes
  <1>2. /\ f2a' \in Ring(F2aEl)
        /\ \A d : Holds1(f2a, d) => Holds0(f2a')
        /\ \A d, e : Holds2(f2a, d, e) => Holds1(f2a', e)
    BY <1>0, <1>1, RingTake
  <1>3. f2a'.wr = f2a.wr /\ f2a'.el = f2a.el /\ f2a'.rd = Succ(f2a.rd)
    BY <1>0, <1>1 DEF Takes, Ring
  <1>4. Room'
    BY <1>0, <1>1, <1>3, SuccDiffers DEF Room, Ring
  <1>5. /\ host' \in HostT /\ host'.pc = pc /\ host'.msg = m
        /\ host'.ver = host.ver /\ host'.size = host.size
    BY <1>0, <1>1 DEF HostT
  <1>6. Types' /\ SameImage
    BY <1>0, <1>1, <1>2, <1>5 DEF Types, SameImage
  <1>7. DoneIsWhole'
    BY <1>1, WholeSame DEF IInv
  <1> QED
    BY <1>1, <1>2, <1>3, <1>4, <1>5, <1>6, <1>7

LEMMA HostReadsConfirm ==
  ASSUME IInv, HostReads, f2a.el[f2a.rd] = Cfm
  PROVE  IInv'
  <1>0. Line /\ host.msg = Empty /\ f2a.rd # f2a.wr /\ Empty \in A2fMsg
    BY A2fHas DEF IInv, HostReads
  <1>1. have' = have /\ Tell(IF host.pc = "last" THEN "gone" ELSE "busy", Empty)
    BY DEF HostReads, Cfm
  <1>2. PICK pc \in {"gone", "busy"} : pc = IF host.pc = "last" THEN "gone" ELSE "busy"
    OBVIOUS
  <1>3. /\ Types' /\ SameImage /\ DoneIsWhole' /\ UNCHANGED <<a2f, ld, rram, have>>
        /\ host'.pc = pc /\ host'.msg = Empty
        /\ \A d : Holds1(f2a, d) => Holds0(f2a')
        /\ \A d, e : Holds2(f2a, d, e) => Holds1(f2a', e)
        /\ Room' /\ f2a'.wr = f2a.wr /\ f2a'.el = f2a.el
    BY <1>0, <1>1, <1>2, HostHears
  <1>4. /\ Transfer => Transfer'
        /\ Xfer' = Xfer /\ Data' = Data
    BY <1>3, TransferSame
  <1>5. CASE ld.st = "drain" /\ host.pc = "last" /\ Holds1(f2a, Cfm) /\ Holds0(a2f)
    <2>1. Confirmed("last", "gone")'
      BY <1>2, <1>3, <1>5 DEF Confirmed, Silent
    <2> QED
      BY <1>3, <1>5, <2>1 DEF IInv, Line
  <1>6. CASE ld.st \in {"begin", "request", "publish"} /\ host.pc = "cfm" /\ Holds1(f2a, Cfm) /\ Holds0(a2f)
             /\ (ld.st = "begin" => Begun) /\ (ld.st # "begin" => Requesting)
             /\ (ld.st = "publish" => ld.out = "program" /\ f2a.el[f2a.wr] = Xfer)
    <2>1. Confirmed("cfm", "busy")' /\ Silent("busy")'
      BY <1>2, <1>3, <1>6 DEF Confirmed, Silent
    <2>2. CASE ld.st = "begin"
      <3>1. Begun'
        BY <1>3, <1>6, <2>1, <2>2 DEF Begun, SameImage
      <3> QED
        BY <1>3, <2>2, <3>1 DEF IInv, Line
    <2>3. CASE ld.st # "begin"
      <3>1. Requesting'
        BY <1>3, <1>4, <1>6, <2>1, <2>3 DEF Requesting
      <3>2. CASE ld.st = "request"
        BY <1>3, <3>1, <3>2 DEF IInv, Line
      <3>3. CASE ld.st = "publish"
        <4>1. Published'
          BY <1>3, <1>4, <1>6, <3>1, <3>3 DEF Published
        <4> QED
          BY <1>3, <3>3, <4>1 DEF IInv, Line
      <3> QED
        BY <1>6, <2>3, <3>2, <3>3
    <2> QED
      BY <2>2, <2>3
  <1>7. CASE /\ ld.st = "program" /\ Transfer /\ ld.cur < ld.total /\ Holds0(a2f)
             /\ Holds2(f2a, Cfm, Xfer) /\ host.pc = "cfm"
    <2>1. Holds1(f2a', Xfer) /\ Silent("busy")'
      BY <1>2, <1>3, <1>7 DEF Silent
    <2>2. Program'
      BY <1>3, <1>4, <1>7, <2>1 DEF Program
    <2> QED
      BY <1>3, <1>7, <2>2 DEF IInv, Line
  <1>8. Cfm # Xfer /\ Cfm # DoneInd /\ Cfm # Reboot
    BY DEF Cfm, Xfer, DoneInd, Reboot
  <1>9. \A d : Holds1(f2a, d) => d = Cfm
    BY DEF Holds1
  <1> QED
    BY <1>0, <1>5, <1>6, <1>7, <1>8, <1>9, ToReadIs

LEMMA HostReadsRequest ==
  ASSUME IInv, HostReads, ld.st = "program", Transfer, ld.cur < ld.total, Holds0(a2f),
         Holds1(f2a, Xfer), host.pc = "busy"
  PROVE  IInv'
  <1>0. Types /\ Data \in A2fMsg
    BY XferIs DEF IInv
  <1>1. have' = have /\ Tell("busy", Data)
    BY DEF HostReads, Holds1, Xfer, Data
  <1>2. /\ Types' /\ SameImage /\ DoneIsWhole' /\ UNCHANGED <<a2f, ld, rram, have>>
        /\ host'.pc = "busy" /\ host'.msg = Data /\ Holds0(f2a')
    BY <1>0, <1>1, HostHears
  <1>3. Transfer' /\ Data' = Data
    BY <1>2, TransferSame
  <1>4. Program'
    BY <1>2, <1>3 DEF Program
  <1> QED
    BY <1>2, <1>4 DEF IInv, Line

\* The indication comes when all packets are there.
LEMMA HostReadsDone ==
  ASSUME IInv, HostReads, ld.st = "confirm", Transfer, ld.cur = ld.total, Holds0(a2f),
         Holds1(f2a, DoneInd), host.pc = "busy"
  PROVE  IInv'
  <1>0. /\ Types /\ DoneIsWhole /\ f2a \in Ring(F2aEl) /\ host \in HostT /\ ld.id \in Ids
        /\ host.ver \in Nat /\ host.size \in Nat /\ have \in [Ids -> [ver : Nat, size : Nat]]
    BY DEF IInv, Types, HostT, LoaderT
  <1>1. PICK b \in BOOLEAN :
          /\ have' = [have EXCEPT ![ld.id] = [ver |-> host.ver, size |-> host.size]]
          /\ host' = [host EXCEPT !.pc = IF b \/ ld.id # "nil" THEN "idle" ELSE "busy", !.msg = Done(b)]
    <2>1. f2a.el[f2a.rd] = DoneInd /\ DoneInd.op = "doneind" /\ DoneInd.id = ld.id
      BY DEF Holds1, DoneInd
    <2> QED
      BY <2>1 DEF HostReads, Tell, Done
  <1>2. Takes(f2a, f2a') /\ UNCHANGED <<a2f, ld, rram, reqs, fails, resets>>
    BY DEF HostReads, Takes
  <1>3. f2a' \in Ring(F2aEl) /\ Holds0(f2a')
    BY <1>0, <1>2, RingTake
  <1>4. /\ host' \in HostT /\ host'.msg = Done(b)
        /\ host'.pc = IF b \/ ld.id # "nil" THEN "idle" ELSE "busy"
    BY <1>0, <1>1, A2fHas DEF HostT
  <1>5. /\ have' \in [Ids -> [ver : Nat, size : Nat]]
        /\ have'[ld.id] = [ver |-> host.ver, size |-> host.size]
        /\ \A i \in Ids : i # ld.id => have'[i] = have[i]
    BY <1>0, <1>1
  <1>6. Types'
    BY <1>0, <1>2, <1>3, <1>4, <1>5 DEF Types
  <1>7. Confirm'
    BY <1>2, <1>3, <1>4 DEF Confirm, Done
  <1>8. DoneIsWhole'
    <2>1. SUFFICES ASSUME NEW i \in Ids, have'[i] # Unset, NEW k \in 0 .. MaxPackets - 1,
                          k * Chunk < have'[i].size
                   PROVE  rram'[i][k] \in {Lost, Good(have'[i].ver, have'[i].size, k)}
      BY Zenon DEF DoneIsWhole, Good
    <2>2. CASE i = ld.id
      <3>1. have'[i].ver = host.ver /\ have'[i].size = host.size /\ ld.size = host.size
        BY <1>5, <2>2 DEF Transfer
      <3>2. k \in Nat /\ k < Packets(host.size)
        BY <1>0, <2>1, <3>1, PacketsAre, LongestIs
      <3>3. k \in 0 .. ld.cur - 1
        BY <1>0, <3>1, <3>2, LongestIs DEF Transfer, Types, LoaderT
      <3> QED
        BY <1>2, <2>1, <2>2, <3>1, <3>3 DEF Transfer
    <2>3. CASE i # ld.id
      <3>1. have'[i] = have[i] /\ rram'[i] = rram[i]
        BY <1>2, <1>5, <2>3
      <3>2. rram[i][k] \in {Lost, Good(have[i].ver, have[i].size, k)}
        BY <1>0, <2>1, <3>1 DEF DoneIsWhole, Good
      <3> QED
        BY <3>1, <3>2
    <2> QED
      BY <2>2, <2>3
  <1> QED
    BY <1>2, <1>6, <1>7, <1>8 DEF IInv, Line

LEMMA HostReadsReboot ==
  ASSUME IInv, HostReads, ld.st = "booted", Holds0(a2f), Holds1(f2a, Reboot), host.pc = "busy"
  PROVE  IInv'
  <1>0. Empty \in A2fMsg
    BY A2fHas
  <1>1. have' = have /\ Tell("gone", Empty)
    BY DEF HostReads, Holds1, Reboot
  <1>2. /\ Types' /\ DoneIsWhole' /\ UNCHANGED <<a2f, ld>>
        /\ host'.pc = "gone" /\ host'.msg = Empty /\ Holds0(f2a')
    BY <1>0, <1>1, HostHears
  <1>3. Booted'
    BY <1>2 DEF Booted, Silent
  <1> QED
    BY <1>2, <1>3 DEF IInv, Line

LEMMA HostReadsKeeps ==
  ASSUME IInv, HostReads
  PROVE  IInv'
  <1>1. host.msg = Empty /\ f2a.rd # f2a.wr
    BY DEF HostReads
  <1>2. \A e : Holds2(f2a, Cfm, e) => f2a.el[f2a.rd] = Cfm
    BY DEF Holds2
  <1>3. Holds1(f2a, Cfm) => f2a.el[f2a.rd] = Cfm
    BY DEF Holds1
  <1> QED
    BY <1>1, <1>2, <1>3, ToReadIs, HostReadsConfirm, HostReadsRequest, HostReadsDone, HostReadsReboot

-----------------------------------------------------------------------------
(* The theorems.                                                           *)

LEMMA Inductive == Spec => []IInv
  <1>1. IInv /\ [Next]_vars => IInv'
    <2> SUFFICES ASSUME IInv, [Next]_vars PROVE IInv'
      OBVIOUS
    <2>1. CASE Loader
      BY <2>1, LoaderKeeps
    <2>2. CASE SwReset \/ PowerFail
      BY <2>2, RestartKeeps
    <2>3. CASE HostPuts
      BY <2>3, HostPutsKeeps
    <2>4. CASE HostReads
      BY <2>4, HostReadsKeeps
    <2>5. ASSUME NEW map \in Bitmaps, NEW n \in Sizes, HostWants("none", map, n)
          PROVE  IInv'
      <3>1. map \in SUBSET Names /\ n \in Nat /\ "none" \in Cmds
        BY DfuAssumption DEF Names, Cmds
      <3> QED
        BY <2>5, <3>1, HostWantsKeeps
    <2>6. ASSUME NEW cmd \in {"reset", "boot"}, HostWants(cmd, {}, 0)
          PROVE  IInv'
      <3>1. {} \in SUBSET Names /\ 0 \in Nat /\ cmd \in Cmds /\ cmd # "none"
        BY DEF Cmds
      <3> QED
        BY <2>6, <3>1, HostWantsKeeps
    <2>7. CASE UNCHANGED vars
      <3>1. SameImage /\ Types' /\ DoneIsWhole'
        BY <2>7, WholeSame DEF vars, SameImage, IInv, Types
      <3>2. UNCHANGED <<a2f, f2a, ld, rram, host, have>> /\ Line
        BY <2>7 DEF vars, IInv
      <3>3. /\ (Transfer => Transfer') /\ Xfer' = Xfer /\ Data' = Data /\ DoneInd' = DoneInd
        BY <3>1, TransferSame
      <3>4. \A pc : Silent(pc)' <=> Silent(pc)
        BY <3>2 DEF Silent
      <3>5. \A c, map : (Asking(c, map)' <=> Asking(c, map)) /\ Req(c, map)' = Req(c, map)
        BY <3>2 DEF Asking, Req
      <3>6. Line'
        BY <3>2, <3>3, <3>4, <3>5 DEF Line, Wait, Size, Bitmap, Confirmed, Begun, Requesting, Program,
          Writing, Completed, Confirm, Quiet, Published, Booted, Room
      <3> QED
        BY <3>1, <3>6 DEF IInv
    <2> QED
      BY <2>1, <2>2, <2>3, <2>4, <2>5, <2>6, <2>7 DEF Next
  <1> QED
    BY <1>1, InitKeeps, PTL DEF Spec

\* For every ring size, packet size and set of images: an image that the loader
\* has reported is in RRAM, but for packets whose write failed, whatever was
\* transferred, reset or lost since.
THEOREM DoneMeansWhole == Spec => []DoneIsWhole
  <1>1. IInv => DoneIsWhole
    BY DEF IInv
  <1> QED
    BY <1>1, Inductive, PTL

-----------------------------------------------------------------------------
(* The ring to the host is a channel.                                      *)

Cnt(rd, wr) == IF rd <= wr THEN wr - rd ELSE wr + N - rd
Pos(rd, k)  == IF (rd + k) - 1 < N THEN (rd + k) - 1 ELSE ((rd + k) - 1) - N

LEMMA ModIs ==
  ASSUME NEW a \in Nat, a < 2 * N
  PROVE  a % N = IF a < N THEN a ELSE a - N
  <1>0. N \in Nat /\ N > 0
    BY DfuAssumption
  <1>1. CASE a < N
    BY <1>0, <1>1
  <1>2. CASE ~ (a < N)
    <2>1. PICK b \in 0 .. N - 1 : a = N + b
      BY <1>0, <1>2
    <2>2. (N + b) % N = b
      BY <1>0
    <2> QED
      BY <1>0, <1>2, <2>1, <2>2
  <1> QED
    BY <1>1, <1>2

LEMMA CntIs ==
  ASSUME NEW rd \in Index, NEW wr \in Index
  PROVE  /\ Cnt(rd, wr) \in 0 .. N - 1 /\ ((wr + N) - rd) % N = Cnt(rd, wr)
         /\ \A k \in 1 .. N : ((rd + k) - 1) % N = Pos(rd, k) /\ Pos(rd, k) \in Index
         /\ \A k \in 1 .. Cnt(rd, wr) : Pos(rd, k) # wr
  <1>0. N \in Nat /\ N > 0
    BY DfuAssumption
  <1>1. Cnt(rd, wr) \in 0 .. N - 1 /\ \A k \in 1 .. Cnt(rd, wr) : Pos(rd, k) # wr
    BY <1>0 DEF Cnt, Pos, Index
  <1>2. ((wr + N) - rd) % N = Cnt(rd, wr)
    <2>1. PICK a \in Nat : a = (wr + N) - rd /\ a < 2 * N
      BY <1>0 DEF Index
    <2>2. a % N = IF a < N THEN a ELSE a - N
      BY <2>1, ModIs
    <2> QED
      BY <1>0, <2>1, <2>2 DEF Cnt, Index
  <1>3. ASSUME NEW k \in 1 .. N
        PROVE  ((rd + k) - 1) % N = Pos(rd, k) /\ Pos(rd, k) \in Index
    <2>1. PICK a \in Nat : a = (rd + k) - 1 /\ a < 2 * N
      BY <1>0 DEF Index
    <2>2. a % N = IF a < N THEN a ELSE a - N
      BY <2>1, ModIs
    <2> QED
      BY <1>0, <2>1, <2>2 DEF Pos, Index
  <1> QED
    BY <1>1, <1>2, <1>3

LEMMA CntMoves ==
  ASSUME NEW rd \in Index, NEW wr \in Index
  PROVE  /\ rd # Succ(wr) => /\ Cnt(rd, wr) < N - 1 /\ Cnt(rd, Succ(wr)) = Cnt(rd, wr) + 1
                             /\ Pos(rd, Cnt(rd, wr) + 1) = wr
         /\ rd # wr => /\ Cnt(rd, wr) > 0 /\ Cnt(Succ(rd), wr) = Cnt(rd, wr) - 1
                       /\ \A k \in 1 .. N - 1 : Pos(Succ(rd), k) = Pos(rd, k + 1)
         /\ Pos(rd, 1) = rd
  <1>0. N \in Nat /\ N >= 2
    BY DfuAssumption
  <1>1. Succ(rd) = (IF rd + 1 < N THEN rd + 1 ELSE 0) /\ Succ(wr) = IF wr + 1 < N THEN wr + 1 ELSE 0
    BY SuccIs
  <1> QED
    BY <1>0, <1>1 DEF Cnt, Pos, Index

\* The messages under way, without the remainders.
Chan == [k \in 1 .. Cnt(f2a.rd, f2a.wr) |-> f2a.el[Pos(f2a.rd, k)]]

LEMMA PendingIs ==
  ASSUME f2a \in Ring(F2aEl)
  PROVE  /\ Pending = Chan /\ Chan \in Seq(F2aEl) /\ Len(Chan) = Cnt(f2a.rd, f2a.wr)
         /\ Cnt(f2a.rd, f2a.wr) \in 0 .. N - 1 /\ f2a.rd \in Index /\ f2a.wr \in Index
  <1>0. f2a.rd \in Index /\ f2a.wr \in Index /\ f2a.el \in [Index -> F2aEl] /\ N \in Nat
    BY DfuAssumption DEF Ring
  <1>1. /\ Cnt(f2a.rd, f2a.wr) \in 0 .. N - 1 /\ (f2a.wr + N - f2a.rd) % N = Cnt(f2a.rd, f2a.wr)
        /\ \A k \in 1 .. Cnt(f2a.rd, f2a.wr) :
             (f2a.rd + k - 1) % N = Pos(f2a.rd, k) /\ Pos(f2a.rd, k) \in Index
    <2>1. PICK rd \in Index : rd = f2a.rd
      BY <1>0
    <2>2. PICK wr \in Index : wr = f2a.wr
      BY <1>0
    <2>3. wr + N - rd = (wr + N) - rd /\ \A k \in 1 .. N : rd + k - 1 = (rd + k) - 1
      BY <1>0 DEF Index
    <2>4. /\ Cnt(rd, wr) \in 0 .. N - 1 /\ ((wr + N) - rd) % N = Cnt(rd, wr)
          /\ \A k \in 1 .. N : ((rd + k) - 1) % N = Pos(rd, k) /\ Pos(rd, k) \in Index
      BY CntIs
    <2>5. \A k \in 1 .. Cnt(rd, wr) : k \in 1 .. N
      BY <1>0, <2>4
    <2> QED
      BY <2>1, <2>2, <2>3, <2>4, <2>5
  <1>2. Pending = Chan
    BY <1>1 DEF Pending, Chan
  <1>3. Chan \in Seq(F2aEl) /\ Len(Chan) = Cnt(f2a.rd, f2a.wr)
    BY <1>0, <1>1 DEF Chan
  <1> QED
    BY <1>0, <1>1, <1>2, <1>3

\* Writing a message to its element is no step of the channel.
LEMMA ChanSame ==
  ASSUME f2a \in Ring(F2aEl), NEW m, f2a' = [f2a EXCEPT !.el[f2a.wr] = m]
  PROVE  Chan' = Chan
  <1>0. f2a.rd \in Index /\ f2a.wr \in Index /\ f2a.el \in [Index -> F2aEl]
    BY DEF Ring
  <1>1. f2a'.rd = f2a.rd /\ f2a'.wr = f2a.wr /\ \A i \in Index : i # f2a.wr => f2a'.el[i] = f2a.el[i]
    BY <1>0 DEF Ring
  <1>2. \A k \in 1 .. Cnt(f2a.rd, f2a.wr) : Pos(f2a.rd, k) # f2a.wr /\ Pos(f2a.rd, k) \in Index
    BY <1>0, CntIs, DfuAssumption
  <1> QED
    BY <1>1, <1>2 DEF Chan

\* Moving the write index puts the message.
LEMMA PublishPuts ==
  ASSUME f2a \in Ring(F2aEl), Room, Moves(f2a, f2a'), f2a.el[f2a.wr] \in F2aMsg
  PROVE  Len(Chan) < N - 1 /\ \E m \in F2aMsg : Chan' = Append(Chan, m)
  <1>0. /\ f2a.rd \in Index /\ f2a.wr \in Index /\ f2a.el \in [Index -> F2aEl]
        /\ Chan \in Seq(F2aEl) /\ Len(Chan) = Cnt(f2a.rd, f2a.wr) /\ N \in Nat /\ N >= 2
    BY PendingIs, DfuAssumption DEF Ring
  <1>1. f2a'.rd = f2a.rd /\ f2a'.wr = Succ(f2a.wr) /\ f2a'.el = f2a.el
    BY DEF Moves, Ring
  <1>2. f2a.rd # Succ(f2a.wr)
    BY DEF Room
  <1>3. /\ Cnt(f2a.rd, f2a.wr) < N - 1 /\ Cnt(f2a'.rd, f2a'.wr) = Cnt(f2a.rd, f2a.wr) + 1
        /\ Pos(f2a.rd, Cnt(f2a.rd, f2a.wr) + 1) = f2a.wr
    BY <1>0, <1>1, <1>2, CntMoves
  <1>4. PICK n \in Nat : n = Cnt(f2a.rd, f2a.wr)
    BY <1>0, PendingIs
  <1>5. Chan' = [k \in 1 .. n + 1 |-> f2a.el[Pos(f2a.rd, k)]]
    BY <1>1, <1>3, <1>4 DEF Chan
  <1>6. Chan' = Append(Chan, f2a.el[f2a.wr])
    BY <1>0, <1>3, <1>4, <1>5 DEF Chan
  <1> QED
    BY <1>0, <1>3, <1>6

\* The host's read takes the first.
LEMMA ReadTakes ==
  ASSUME f2a \in Ring(F2aEl), f2a.rd # f2a.wr, Takes(f2a, f2a')
  PROVE  Chan # <<>> /\ f2a.el[f2a.rd] = Head(Chan) /\ Chan' = Tail(Chan)
  <1>0. /\ f2a.rd \in Index /\ f2a.wr \in Index /\ f2a.el \in [Index -> F2aEl]
        /\ Chan \in Seq(F2aEl) /\ Len(Chan) = Cnt(f2a.rd, f2a.wr) /\ N \in Nat /\ N >= 2
    BY PendingIs, DfuAssumption DEF Ring
  <1>1. f2a'.rd = Succ(f2a.rd) /\ f2a'.wr = f2a.wr /\ f2a'.el = f2a.el
    BY DEF Takes, Ring
  <1>3. PICK n \in Nat : n + 1 = Cnt(f2a.rd, f2a.wr) /\ n < N - 1
    BY <1>0, PendingIs, CntMoves
  <1>4. Cnt(f2a'.rd, f2a'.wr) = n /\ Pos(f2a.rd, 1) = f2a.rd
    BY <1>0, <1>1, <1>3, CntMoves
  <1>5. \A k \in 1 .. n : Pos(f2a'.rd, k) = Pos(f2a.rd, k + 1)
    BY <1>0, <1>1, <1>3, CntMoves
  <1>6. Chan # <<>> /\ Head(Chan) = f2a.el[f2a.rd]
    BY <1>0, <1>3, <1>4 DEF Chan
  <1>7. Chan' = [k \in 1 .. n |-> f2a.el[Pos(f2a.rd, k + 1)]]
    BY <1>1, <1>4, <1>5 DEF Chan
  <1>8. /\ Tail(Chan) \in Seq(F2aEl) /\ Len(Tail(Chan)) = n
        /\ \A k \in 1 .. n : Tail(Chan)[k] = Chan[k + 1]
    BY <1>0, <1>3, <1>6, HeadTailProperties
  <1>9. \A k \in 1 .. n : Chan[k + 1] = f2a.el[Pos(f2a.rd, k + 1)]
    BY <1>3 DEF Chan
  <1>10. Tail(Chan) \in [1 .. n -> F2aEl]
    BY <1>8, LenProperties
  <1>11. Chan' = Tail(Chan)
    BY <1>7, <1>8, <1>9, <1>10
  <1> QED
    BY <1>6, <1>11

\* A step that leaves the ring alone leaves the channel alone.
LEMMA ChanStays ==
  ASSUME f2a' = f2a
  PROVE  Chan' = Chan
  BY DEF Chan

LEMMA PublishSends ==
  ASSUME IInv, Publish
  PROVE  /\ seen' = seen
         /\ Len(Chan) < N - 1 /\ \E m \in F2aMsg : Chan' = Append(Chan, m)
  <1>1. Types /\ f2a \in Ring(F2aEl) /\ Published /\ Moves(f2a, f2a') /\ seen' = seen
    BY DEF IInv, Types, Line, Publish, At, Moves
  <1>2. Room /\ f2a.el[f2a.wr] \in F2aMsg
    <2>1. Requesting => Xfer \in F2aMsg
      BY <1>1, XferIs DEF Requesting
    <2>2. DoneInd \in F2aMsg
      BY <1>1, F2aHas DEF DoneInd, Types, LoaderT
    <2> QED
      BY <1>1, <2>1, <2>2, F2aHas DEF Published
  <1> QED
    BY <1>1, <1>2, PublishPuts

\* For every ring size, the ring to the host implements HostChannel between two
\* starts of the loader: the host reads every message once and in order, and
\* the loader never writes over one the host has not read.
THEOREM RepliesAreKept == Spec => RepliesKept
  <1>1. Init => ToHost!Init
    <2> SUFFICES ASSUME Init PROVE Pending = <<>> /\ seen = Empty
      BY DEF ToHost!Init
    <2>1. IInv /\ f2a \in Ring(F2aEl) /\ f2a = NewRing
      BY InitKeeps, Zenon DEF IInv, Types, Init
    <2>2. f2a.rd = 0 /\ f2a.wr = 0
      BY <2>1 DEF NewRing
    <2>3. Cnt(f2a.rd, f2a.wr) = 0
      BY <2>2 DEF Cnt
    <2>4. Pending = Chan /\ Chan = <<>>
      BY <2>1, <2>3, PendingIs DEF Chan
    <2> QED
      BY <2>4, Zenon DEF Init
  <1>2. IInv /\ IInv' /\ [Next]_vars => [ToHost!Next \/ Restarted]_<<Pending, seen>>
    <2> SUFFICES ASSUME IInv, IInv', [Next]_vars, ~ (Pending' = Pending /\ seen' = seen)
                 PROVE  ToHost!Next \/ Restarted
      OBVIOUS
    <2>0. f2a \in Ring(F2aEl) /\ f2a' \in Ring(F2aEl)
      BY DEF IInv, Types
    <2>1. Pending = Chan /\ Pending' = Chan'
      <3>1. Pending = Chan
        BY <2>0, PendingIs
      <3>2. (f2a \in Ring(F2aEl) => Pending = Chan)'
        BY PendingIs, PTL
      <3> QED
        BY <2>0, <3>1, <3>2
    <2>2. CASE Publish
      BY <2>1, <2>2, PublishSends DEF ToHost!Next, ToHost!Put
    <2>3. CASE HostReads
      <3>1. f2a.rd # f2a.wr /\ Takes(f2a, f2a') /\ seen' = f2a.el[f2a.rd]
        BY <2>3 DEF HostReads, Takes
      <3> QED
        BY <2>0, <2>1, <3>1, ReadTakes DEF ToHost!Next, ToHost!Take
    <2>4. CASE SwReset \/ PowerFail
      BY <2>4 DEF SwReset, PowerFail, Restart, Restarted
    <2>5. ASSUME NEW m, NEW next, Send(m, next)
          PROVE  FALSE
      <3>1. f2a' = [f2a EXCEPT !.el[f2a.wr] = m] /\ seen' = seen
        BY <2>5 DEF Send
      <3> QED
        BY <2>0, <2>1, <3>1, ChanSame
    <2>6. CASE SendConfirm \/ Request \/ SendDone \/ SendReboot
      BY <2>5, <2>6 DEF SendConfirm, Request, SendDone, SendReboot
    <2>7. ASSUME UNCHANGED <<f2a, seen>>
          PROVE  FALSE
      BY <2>1, <2>7, ChanStays
    <2>8. CASE RecvReq \/ RecvSize \/ Begin \/ Drain \/ TakeData \/ WriteData \/ WriteFails \/ RecvDone
      BY <2>7, <2>8 DEF RecvReq, RecvSize, Begin, Drain, TakeData, WriteData, WriteFails, RecvDone
    <2>9. CASE HostPuts \/ \E cmd, map, n : HostWants(cmd, map, n)
      BY <2>7, <2>9 DEF HostPuts, HostWants
    <2>10. CASE UNCHANGED vars
      BY <2>7, <2>10 DEF vars
    <2> QED
      BY <2>2, <2>3, <2>4, <2>6, <2>8, <2>9, <2>10 DEF Next, Loader
  <1> QED
    BY <1>1, <1>2, Inductive, PTL DEF Spec, RepliesKept

-----------------------------------------------------------------------------
(* Type correctness.                                                       *)

\* What of the context IInv leaves open.
Context == ld.cur <= ld.total /\ (ld.buf = Empty \/ ld.buf.op = "data")

LEMMA ContextKept ==
  ASSUME IInv, IInv', Context, [Next]_vars
  PROVE  Context'
  <1>0. ld \in LoaderT
    BY DEF IInv, Types
  <1>1. ASSUME ld'.cur = ld.cur, ld'.total = ld.total, ld'.buf = ld.buf
        PROVE  Context'
    BY <1>1 DEF Context
  <1>2. ASSUME NEW m, NEW next, Send(m, next)
        PROVE  Context'
    <2>1. ld' = [ld EXCEPT !.st = "publish", !.out = next]
      BY <1>2 DEF Send
    <2> QED
      BY <1>0, <1>1, <2>1 DEF LoaderT
  <1>3. CASE SendConfirm \/ Request \/ SendDone \/ SendReboot
    BY <1>2, <1>3 DEF SendConfirm, Request, SendDone, SendReboot
  <1>4. CASE RecvReq \/ Drain \/ Publish
    BY <1>0, <1>1, <1>4 DEF RecvReq, Drain, Publish, LoaderT
  <1>5. CASE RecvSize \/ RecvDone
    <2>1. \E s, n : ld' = [ld EXCEPT !.size = n, !.st = s] \/ ld' = [ld EXCEPT !.st = s]
      BY <1>5, Zenon DEF RecvSize, RecvDone
    <2> QED
      BY <1>0, <1>1, <2>1 DEF LoaderT
  <1>6. CASE Begin
    <2>1. Requesting'
      <3>1. ld'.st = "request"
        BY <1>0, <1>6 DEF Begin, LoaderT
      <3> QED
        BY <3>1 DEF IInv, Line
    <2>2. ld'.buf = ld.buf
      BY <1>0, <1>6 DEF Begin, LoaderT
    <2> QED
      BY <2>1, <2>2 DEF Requesting, Transfer, Context
  <1>7. CASE TakeData
    <2>1. UNCHANGED ld \/ ld'.st = "write"
      BY <1>0, <1>7 DEF TakeData, LoaderT
    <2>2. CASE UNCHANGED ld
      BY <2>2 DEF Context
    <2>3. CASE ld'.st = "write"
      BY <2>3 DEF IInv, Line, Writing, Transfer, Context, Data
    <2> QED
      BY <2>1, <2>2, <2>3
  <1>8. CASE WriteData \/ WriteFails
    <2>1. ld'.buf = Empty /\ ld'.st \in {"request", "completed"}
      BY <1>0, <1>8 DEF WriteData, WriteFails, Counted, LoaderT
    <2>2. Transfer'
      BY <2>1 DEF IInv, Line, Requesting, Completed
    <2> QED
      BY <2>1, <2>2 DEF Context, Transfer
  <1>9. CASE SwReset \/ PowerFail
    BY <1>9 DEF SwReset, PowerFail, Restart, NewLoader, Context
  <1>10. CASE UNCHANGED ld
    BY <1>10 DEF Context
  <1> QED
    BY <1>3, <1>4, <1>5, <1>6, <1>7, <1>8, <1>9, <1>10
       DEF Next, Loader, HostPuts, HostReads, HostWants, vars

\* Type correctness: indices stay in their ring, packets within the image.
THEOREM TypeCorrect == Spec => []TypeOK
  <1>1. Init => Context
    <2> SUFFICES ASSUME Init PROVE Context
      OBVIOUS
    <2>1. ld = NewLoader
      BY Zenon DEF Init
    <2> QED
      BY <2>1 DEF NewLoader, Context
  <1>2. IInv /\ Context => TypeOK
    <2> SUFFICES ASSUME IInv, Context PROVE TypeOK
      OBVIOUS
    <2>1. /\ a2f \in Ring(A2fMsg) /\ f2a \in Ring(F2aEl) /\ ld \in LoaderT /\ host \in HostT
          /\ reqs \in 0 .. MaxReqs /\ fails \in 0 .. MaxFails /\ resets \in 0 .. MaxResets
      BY DEF IInv, Types
    <2>2. /\ {a2f.rd, a2f.wr, f2a.rd, f2a.wr, ld.el} \subseteq Index
          /\ \A i \in Index : f2a.el[i] \in F2aMsg \cup {Empty}
          /\ \A i \in Index : a2f.el[i] \in A2fMsg
      BY <2>1 DEF Ring, LoaderT, F2aEl
    <2>3. \A m \in A2fMsg : m.op \in {"empty", "nobuf", "req", "data", "done"}
      BY DEF A2fMsg, Empty, NoBuf
    <2>4. /\ ld.st \in LoaderSt /\ ld.id \in Ids /\ ld.total \in 0 .. MaxPackets
          /\ host.pc \in {"idle", "cfm", "last", "busy", "gone"}
      BY <2>1 DEF LoaderT, HostT
    <2>5. ld.cur \in 0 .. ld.total
      BY <2>1, LongestIs DEF LoaderT, Context
    <2>6. ld.buf.op \in {"empty", "data"}
      BY DEF Context, Empty
    <2>7. \A i \in Index : a2f.el[i].op \in {"empty", "nobuf", "req", "data", "done"}
      BY <2>2, <2>3
    <2> QED
      BY <2>1, <2>2, <2>4, <2>5, <2>6, <2>7 DEF TypeOK, LoaderSt
  <1> QED
    BY <1>1, <1>2, ContextKept, Inductive, PTL DEF Spec
=============================================================================

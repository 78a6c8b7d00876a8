------------------------------- MODULE DfuLoader -------------------------------
(***************************************************************************)
(* The hosted boot loader's download of images from the host:              *)
(* bootloader/HOSTED_SBL/src/wifi_fw_sys_img_loader.c, entered from        *)
(* loader_start (sbl_main.c) at every boot.  Loader and host exchange      *)
(* messages over two rings in the loader's memory, A2F to the loader and   *)
(* F2A to the host; nothing is locked and no interrupts are used, both     *)
(* poll.  The loader asks for an image packet by packet and writes each to *)
(* RRAM, which survives a reset; the rings and the loader's state do not.  *)
(*                                                                         *)
(* Lengths are in units, Chunk units to a packet.  The host (external)     *)
(* keeps to the protocol: it answers what it is asked and waits for the    *)
(* table header after a reset.  check_config_table_integrity and           *)
(* check_dfu_ring_integrity compare the rings' set-up with a shadow copy,  *)
(* and a ring that differs looks empty, or full: only a host that writes   *)
(* over it makes it differ, and the checks are left out.                   *)
(***************************************************************************)
EXTENDS Naturals, Sequences

CONSTANTS
  N,         \* NUMBER_OF_ELEMENTS of a ring
  Chunk,     \* DFU_BUFF_SIZE
  Rooms,     \* packets the areas of "wlan" and "bdf" hold
  Sizes,     \* lengths of the host's images
  Bitmaps,   \* the sets of images it may name in a request
  MaxReqs,   \* bound on its requests; they number the images
  MaxFails,  \* bound on the RRAM writes that fail
  MaxResets  \* bound on the losses of power

Ids == {"wlan", "bdf", "nil"}       \* WLAN_IMG_ID, BDF_ID, IMG_NIL

ASSUME DfuAssumption ==
  /\ N \in Nat /\ N >= 2 /\ Chunk \in Nat \ {0} /\ Rooms \in [{"wlan", "bdf"} -> Nat]
  /\ Sizes \subseteq Nat /\ Bitmaps \subseteq SUBSET {"wlan", "bdf", "other"}
  /\ MaxReqs \in Nat /\ MaxFails \in Nat /\ MaxResets \in Nat

VARIABLES
  a2f,     \* the ring to the loader: rd, wr, el; an element without buffer holds NoBuf
  f2a,     \* the ring to the host
  ld,      \* the loader: state and sys_loader_cntxt
  rram,    \* RRAM: for each image what each of its packets' places holds
  host,    \* the host: what it waits for, the message it is to send, the image's size
  have,    \* the images the host has been told are there
  seen,    \* the message the host read last
  reqs, fails, resets

vars == <<a2f, f2a, ld, rram, host, have, seen, reqs, fails, resets>>

Index == 0 .. N - 1
Empty == [op |-> "empty"]
NoBuf == [op |-> "nobuf"]
NewRing == [rd |-> 0, wr |-> 0, el |-> [i \in Index |-> Empty]]

\* sys_loader_cntxt; out is the state to go to when a message has been sent, el
\* the element a message is in, buf a packet's detached buffer.
NewLoader == [st |-> "wait", out |-> "wait", cmd |-> "none", map |-> {}, size |-> 0,
              id |-> "nil", total |-> 0, cur |-> 0, el |-> 0, buf |-> Empty]
Ready == [pc |-> "idle", msg |-> Empty, ver |-> 0, size |-> 0]
Blank == [ver |-> 0, off |-> 0, len |-> 0]
Lost  == [Blank EXCEPT !.len = 1]         \* a write has failed
Unset == [ver |-> 0, size |-> 0]

\* The packets of an image of n units, at least one: total_pkts.
Packets(n) == IF n = 0 THEN 1 ELSE n \div Chunk + (IF n % Chunk = 0 THEN 0 ELSE 1)
MaxPackets == CHOOSE m \in {Packets(n) : n \in Sizes} : \A n \in Sizes : Packets(n) <= m

\* One of the host's images is the longest.
ASSUME LongestAssumption == \E k \in Sizes : \A n \in Sizes : Packets(n) <= Packets(k)

Init ==
  /\ a2f = NewRing /\ f2a = NewRing /\ ld = NewLoader
  /\ rram = [i \in Ids |-> [k \in 0 .. MaxPackets - 1 |-> Blank]]
  /\ host = Ready /\ have = [i \in Ids |-> Unset] /\ seen = Empty
  /\ reqs = 0 /\ fails = 0 /\ resets = 0

\* increment_read_index, increment_write_index.
Succ(i) == (i + 1) % N

-----------------------------------------------------------------------------
(* The loader's side of the rings.                                         *)

At(s) == ld.st = s

\* a2f_dfu_ring_check_empty finds a message; the next one.
Waiting == a2f.rd # a2f.wr
Msg     == a2f.el[a2f.rd]
Consume == a2f' = [a2f EXCEPT !.rd = Succ(@)]

\* f2a_dfu_ring_check_occupancy.
\* Mutant: there always is room.
RoomAlways == TRUE

Room == f2a.rd # Succ(f2a.wr)

\* A message is written to its element, then the index is moved; without room
\* the loader tries again.
Send(m, next) ==
  /\ Room
  /\ f2a' = [f2a EXCEPT !.el[f2a.wr] = m]
  /\ ld' = [ld EXCEPT !.st = "publish", !.out = next]
  /\ UNCHANGED <<a2f, rram, host, have, seen, reqs, fails, resets>>

Publish ==
  /\ At("publish")
  /\ f2a' = [f2a EXCEPT !.wr = Succ(@)]
  /\ ld' = [ld EXCEPT !.st = ld.out]
  /\ UNCHANGED <<a2f, rram, host, have, seen, reqs, fails, resets>>

-----------------------------------------------------------------------------
(* The states of sys_loader.                                               *)

\* WAIT_FOR_DFU: recieve_dfu_req takes the bitmap, gives the element back ...
RecvReq ==
  /\ At("wait") /\ Waiting /\ Msg.op = "req"
  /\ Consume
  /\ ld' = [ld EXCEPT !.st = "size", !.cmd = Msg.cmd, !.map = Msg.map, !.el = a2f.rd]
  /\ UNCHANGED <<f2a, rram, host, have, seen, reqs, fails, resets>>

\* ... and reads the size from it.  HOST_CMD_RESET and HOST_CMD_BOOT are values
\* of the bitmap.
RecvSize ==
  /\ At("size")
  /\ ld' = [ld EXCEPT !.size = a2f.el[ld.el].size,
                      !.st = CASE ld.cmd = "reset" -> "reset"
                               [] ld.cmd = "boot"  -> "booted"
                               [] OTHER            -> "bitmap"]
  /\ UNCHANGED <<a2f, f2a, rram, host, have, seen, reqs, fails, resets>>

\* CHECK_FOR_DFU_BITMAP: one image of those named is asked for.
SendConfirm ==
  /\ At("bitmap")
  /\ Send([op |-> "cfm"], IF ld.map = {} THEN "drain" ELSE "begin")

Begin ==
  /\ At("begin")
  /\ ld' = [ld EXCEPT !.st = "request", !.cur = 0, !.total = Packets(ld.size),
                      !.id = CASE "wlan" \in ld.map -> "wlan"
                               [] "wlan" \notin ld.map /\ "bdf" \in ld.map -> "bdf"
                               [] OTHER -> "nil"]
  /\ UNCHANGED <<a2f, f2a, rram, host, have, seen, reqs, fails, resets>>

\* No image is named: boot, once the host has read its messages.
Drain ==
  /\ At("drain") /\ f2a.rd = f2a.wr
  /\ ld' = [ld EXCEPT !.st = "booted"]
  /\ UNCHANGED <<a2f, f2a, rram, host, have, seen, reqs, fails, resets>>

\* REQUEST_PROGRAM: the next packet; the last one may be shorter.
PacketLen ==
  IF ld.cur = ld.total - 1 /\ ld.size % Chunk # 0 THEN ld.size % Chunk ELSE Chunk

Request ==
  /\ At("request")
  /\ Send([op |-> "xfer", id |-> ld.id, off |-> ld.cur * Chunk, len |-> PacketLen], "program")

\* Where the packet goes is checked: behind the area's end, but not at it.
OutOfRange == ld.id # "nil" /\ ld.cur > Rooms[ld.id]

\* WAIT_FOR_PROGRAM: recieve_dfu_data_transfer_confirm gives the element back,
\* whatever the message, a packet's without its buffer.  A packet out of range is
\* left there, without a word to the host.
TakeData ==
  LET data == Msg.op = "data"
  IN  /\ At("program") /\ Waiting
      /\ a2f' = [a2f EXCEPT !.rd = Succ(@), !.el[a2f.rd] = IF data THEN NoBuf ELSE @]
      /\ ld' = IF OutOfRange THEN ld
               ELSE [ld EXCEPT !.st = "write", !.buf = Msg, !.el = IF data THEN a2f.rd ELSE 0]
      /\ UNCHANGED <<f2a, rram, host, have, seen, reqs, fails, resets>>

\* boot_sbl_rram_write copies from the buffer; another message has no data.
\* Mutant: the packet's number is counted before it is used.
WriteNext(c) ==
  rram' = [rram EXCEPT ![ld.id] =
             [k \in DOMAIN @ |-> IF k = ld.cur + 1 THEN c ELSE @[k]]]
Write(c) == rram' = [rram EXCEPT ![ld.id][ld.cur] = c]

\* An image that is neither of the two would go to address 0, which
\* rram_verify_address refuses every time.
Written ==
  CASE ld.id = "nil" -> Lost
    [] ld.id # "nil" /\ ld.buf.op = "data" ->
         [ver |-> ld.buf.ver, off |-> ld.buf.off, len |-> ld.buf.len]
    [] OTHER -> rram[ld.id][ld.cur]

\* The buffer is attached again, and the packet counted.
Counted ==
  /\ a2f' = [a2f EXCEPT !.el[ld.el] = IF @ = NoBuf THEN Empty ELSE @]
  /\ ld' = [ld EXCEPT !.cur = @ + 1, !.buf = Empty,
                      !.st = IF ld.cur + 1 < ld.total THEN "request" ELSE "completed"]

WriteData ==
  /\ At("write")
  /\ Write(Written)
  /\ Counted
  /\ UNCHANGED <<f2a, host, have, seen, reqs, fails, resets>>

\* The write fails; that is only printed.
WriteFails ==
  /\ At("write") /\ fails < MaxFails
  /\ fails' = fails + 1
  /\ Write(Lost)
  /\ Counted
  /\ UNCHANGED <<f2a, host, have, seen, reqs, resets>>

\* RESOURCE_TRANSFER_COMPLETED
SendDone == At("completed") /\ Send([op |-> "doneind", id |-> ld.id], "confirm")

\* RESOURCE_TRANSFER_CONFIRM: on to the next request, or, when it was neither
\* of the two images and the host has no more, to SEND_REBOOT_CMD.
\* Mutant: the message is looked at and left in the ring.
RecvDoneLooks ==
  /\ At("confirm") /\ Waiting /\ Msg.op = "done"
  /\ UNCHANGED a2f
  /\ ld' = [ld EXCEPT !.st = IF Msg.more \/ ld.id # "nil" THEN "wait" ELSE "reboot"]
  /\ UNCHANGED <<f2a, rram, host, have, seen, reqs, fails, resets>>

RecvDone ==
  /\ At("confirm") /\ Waiting /\ Msg.op = "done"
  /\ Consume
  /\ ld' = [ld EXCEPT !.st = IF Msg.more \/ ld.id # "nil" THEN "wait" ELSE "reboot"]
  /\ UNCHANGED <<f2a, rram, host, have, seen, reqs, fails, resets>>

SendReboot == At("reboot") /\ Send([op |-> "reboot"], "booted")

Loader ==
  \/ Publish \/ RecvReq \/ RecvSize \/ SendConfirm \/ Begin \/ Drain \/ Request \/ TakeData
  \/ WriteData \/ WriteFails \/ SendDone \/ RecvDone \/ SendReboot

-----------------------------------------------------------------------------
(* The start of the loader, and what ends it.                              *)

\* init_config_table
Restart ==
  /\ a2f' = NewRing /\ f2a' = NewRing /\ ld' = NewLoader
  /\ host' = Ready /\ seen' = Empty
  /\ UNCHANGED <<rram, have, reqs, fails>>

\* sbl_sw_reset
SwReset == At("reset") /\ Restart /\ UNCHANGED resets

PowerFail == resets < MaxResets /\ resets' = resets + 1 /\ Restart

-----------------------------------------------------------------------------
(* The host.                                                               *)

Tell(pc, m) == host' = [host EXCEPT !.pc = pc, !.msg = m]

\* It wants images to be loaded, or only a reset or a boot; from then on it does
\* not count on the images it is about to replace.
HostWants(cmd, map, n) ==
  /\ host.pc = "idle" /\ host.msg = Empty /\ reqs < MaxReqs
  /\ reqs' = reqs + 1
  /\ host' = [pc |-> CASE cmd # "none" -> "gone"
                       [] cmd = "none" /\ map = {} -> "last"
                       [] OTHER -> "cfm",
              msg |-> [op |-> "req", cmd |-> cmd, map |-> map, size |-> n],
              ver |-> reqs + 1, size |-> n]
  /\ have' = [i \in Ids |->
                IF i \in map \/ (i = "nil" /\ "other" \in map) THEN Unset ELSE have[i]]
  /\ UNCHANGED <<a2f, f2a, ld, rram, seen, fails, resets>>

HostPuts ==
  /\ host.msg # Empty /\ a2f.rd # Succ(a2f.wr) /\ a2f.el[a2f.wr] # NoBuf
  /\ a2f' = [a2f EXCEPT !.el[a2f.wr] = host.msg, !.wr = Succ(@)]
  /\ Tell(host.pc, Empty)
  /\ UNCHANGED <<f2a, ld, rram, have, seen, reqs, fails, resets>>

\* It reads a message and prepares its answer.
HostReads ==
  LET m == f2a.el[f2a.rd]
  IN  /\ f2a.rd # f2a.wr /\ host.msg = Empty
      /\ f2a' = [f2a EXCEPT !.rd = Succ(@)]
      /\ seen' = m
      /\ CASE m.op = "cfm" -> Tell(IF host.pc = "last" THEN "gone" ELSE "busy", Empty) /\ UNCHANGED have
           [] m.op = "xfer" ->
                /\ Tell("busy", [op |-> "data", ver |-> host.ver, id |-> m.id,
                                 off |-> m.off, len |-> m.len])
                /\ UNCHANGED have
           [] m.op = "doneind" ->
                /\ have' = [have EXCEPT ![m.id] = [ver |-> host.ver, size |-> host.size]]
                /\ \E more \in BOOLEAN :
                     Tell(IF more \/ m.id # "nil" THEN "idle" ELSE "busy",
                          [op |-> "done", more |-> more])
           [] m.op = "reboot" -> Tell("gone", Empty) /\ UNCHANGED have
      /\ UNCHANGED <<a2f, ld, rram, reqs, fails, resets>>

Next ==
  \/ Loader \/ SwReset \/ PowerFail \/ HostPuts \/ HostReads
  \/ \E map \in Bitmaps, n \in Sizes : HostWants("none", map, n)
  \/ \E cmd \in {"reset", "boot"} : HostWants(cmd, {}, 0)

Spec == Init /\ [][Next]_vars

\* The loader's loop runs, and the host goes on with what it has begun.
FairSpec ==
  /\ Spec
  /\ WF_vars(Loader) /\ WF_vars(SwReset) /\ WF_vars(HostPuts) /\ WF_vars(HostReads)

-----------------------------------------------------------------------------
(* Properties.                                                             *)

F2aMsg ==
  {[op |-> o] : o \in {"cfm", "reboot"}} \cup {[op |-> "doneind", id |-> i] : i \in Ids}
  \cup {[op |-> "xfer", id |-> i, off |-> k * Chunk, len |-> l] :
          i \in Ids, k \in 0 .. MaxPackets, l \in 1 .. Chunk}

\* The values of the variables.
TypeOK ==
  /\ {a2f.rd, a2f.wr, f2a.rd, f2a.wr, ld.el} \subseteq Index
  /\ \A i \in Index : f2a.el[i] \in F2aMsg \cup {Empty}
  /\ \A i \in Index : a2f.el[i].op \in {"empty", "nobuf", "req", "data", "done"}
  /\ ld.st \in {"wait", "size", "bitmap", "begin", "drain", "request", "program", "write",
                "completed", "confirm", "reboot", "publish", "reset", "booted"}
  /\ ld.id \in Ids /\ ld.buf.op \in {"empty", "data"} /\ ld.total \in 0 .. MaxPackets /\ ld.cur \in 0 .. ld.total
  /\ host.pc \in {"idle", "cfm", "last", "busy", "gone"}
  /\ reqs \in 0 .. MaxReqs /\ fails \in 0 .. MaxFails /\ resets \in 0 .. MaxResets

\* "msg id for DFU transfer done indication": an image the loader has reported
\* is in RRAM, every packet in its place and of this transfer, but for those
\* whose write failed or was refused, whatever was transferred, reset or booted
\* since.  The size is read from an element that has been given back already.
DoneIsWhole ==
  \A i \in Ids : have[i] # Unset =>
    \A k \in 0 .. MaxPackets - 1 : k * Chunk < have[i].size =>
      rram[i][k] \in {Lost,
        [ver |-> have[i].ver, off |-> k * Chunk,
         len |-> IF have[i].size - k * Chunk < Chunk THEN have[i].size - k * Chunk ELSE Chunk]}

\* The F2A ring is a channel, between two starts of the loader: the host reads
\* every message once and in order.
Pending == [k \in 1 .. (f2a.wr + N - f2a.rd) % N |-> f2a.el[(f2a.rd + k - 1) % N]]
ToHost == INSTANCE HostChannel
  WITH Msg <- F2aMsg, Cap <- N - 1, None <- Empty, last <- seen, chan <- Pending
Restarted == ld' = NewLoader /\ host' = Ready /\ f2a' = NewRing
RepliesKept == ToHost!Init /\ [][ToHost!Next \/ Restarted]_<<Pending, seen>>

\* "this is for confiming that host has processed all commands in f2a ring",
\* and so on in each state: a host that has begun a transfer gets to its end,
\* unless a packet was out of range: then the loader waits for ever, with one
\* element less.
Refused == ld.st = "program" /\ \E i \in Index : a2f.el[i] = NoBuf
Served == []<>((host.pc \in {"idle", "gone"} /\ host.msg = Empty) \/ Refused)

\* "rram write error" (sys_loader): nothing is written behind an image's area.
AreaKept ==
  \A i \in {"wlan", "bdf"} : \A k \in 0 .. MaxPackets - 1 : k >= Rooms[i] => rram[i][k] = Blank
=============================================================================

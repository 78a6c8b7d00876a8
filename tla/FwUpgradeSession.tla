--------------------------- MODULE FwUpgradeSession ---------------------------
(***************************************************************************)
(* A firmware upgrade session (modules/fw_upgrade/fw_upgrade.c) and the    *)
(* tasks around it.  qapi_Fw_Upgrade and qapi_Fw_Upgrade_Resume block, so  *)
(* an application runs them in tasks of their own (demo/common/ota does):  *)
(* the workers.  The console task makes the calls and issues cancel and    *)
(* suspend itself, at any moment.  All of them share one session context,  *)
(* whose fields are read and written under a mutex, one access at a time:  *)
(* between two accesses another task may run.                              *)
(*                                                                         *)
(* Lengths are counted in chunks; the content of a chunk is abstracted to  *)
(* whether it is the chunk that belongs at the place it is written to.     *)
(* The download plugin (TFTP, HTTP) and the server are external.           *)
(***************************************************************************)
EXTENDS Integers, Sequences, FiniteSets

CONSTANTS
  Workers,    \* tasks that run qapi_Fw_Upgrade and qapi_Fw_Upgrade_Resume
  ImgLen,     \* image lengths of the set the server offers
  FsImages,   \* which of the images are file systems (FS1_IMG_ID)
  CfgLen,     \* length of the config file or image-set header
  BufLen,     \* FW_UPGRADE_BUF_SIZE
  Formats,    \* the formats a server may offer: TRUE, all-in-one; FALSE, partial
  EnvFails,   \* TRUE: flash, memory and network may fail, data may be damaged
  AutoReboot, \* FW_UPGRADE_FLAG_AUTO_REBOOT
  Calls,      \* the calls the console makes
  Polite,     \* TRUE: it waits for a call to take effect before the next one
  MaxCalls    \* bound on its calls

Images == 1 .. Len(ImgLen)

ASSUME SessionAssumption ==
  /\ ImgLen \in Seq(Nat) /\ ImgLen # <<>> /\ FsImages \subseteq Images
  /\ CfgLen \in Nat \ {0} /\ BufLen \in Nat \ {0} /\ MaxCalls \in Nat
  /\ Formats \subseteq BOOLEAN /\ EnvFails \in BOOLEAN /\ AutoReboot \in BOOLEAN /\ Polite \in BOOLEAN
  /\ Calls \subseteq {"start", "cancel", "suspend", "resume"}

VARIABLES
  ctx,     \* fw_upgrade_sess_cxt; live is FALSE for NULL
  hdr,     \* fw_upgrade_image_hdr is allocated
  wk,      \* the workers
  con,     \* the console's call in progress
  asked,   \* the console has asked this session to cancel or suspend
  link,    \* the plugin's connection: the file and the position it reads
  img,     \* flash: the trial images, and whether their entries exist
  valid,   \* flash: the status of the trial FWD is VALID
  bad,     \* undefined behaviour met: "stale" context, "null" pointer
  calls,   \* the console's calls so far
  allInOne \* the server: one file for everything, or a file for each image

vars == <<ctx, hdr, wk, con, asked, link, img, valid, bad, calls, allInOne>>

\* The states below FW_UPGRADE_STATE_RESUME_SERVICE_E, and the others.
EarlyState == {"not_start", "trial_info", "erase_fwd", "erase_fs", "prepare_fs",
               "prepare_connect", "connect"}
State == EarlyState \cup
         {"resume_service", "resume_server", "receive", "disconnect", "config", "image",
          "dup_images", "dup_fs", "finish"}

NoBuf  == [n |-> 0, off |-> 0, file |-> 0, pos |-> 0, good |-> TRUE]
NoDig  == [on |-> FALSE, n |-> 0, good |-> TRUE]
NewDig == [on |-> TRUE, n |-> 0, good |-> TRUE]
NoCtx  == [live |-> FALSE, status |-> "not_start", state |-> "not_start", first |-> TRUE,
           cfgbuf |-> FALSE, cfgok |-> TRUE, idx |-> 1, len |-> 0, wrt |-> 0, read |-> 0,
           hdl |-> FALSE, dig |-> NoDig, dl |-> {}, buf |-> NoBuf]
NewCtx == [NoCtx EXCEPT !.live = TRUE, !.status = "running", !.dig = NewDig, !.dl = Images]
NoLink == [open |-> FALSE, file |-> 0, pos |-> 0]
NoImg  == [made |-> FALSE, n |-> 0, good |-> TRUE, blind |-> FALSE]
NoWk   == [pc |-> "idle", ret |-> "ok", mine |-> FALSE, marked |-> FALSE]

Init ==
  /\ ctx = NoCtx /\ hdr = FALSE /\ wk = [w \in Workers |-> NoWk]
  /\ con = "idle" /\ asked = FALSE /\ link = NoLink
  /\ img = [i \in Images |-> NoImg] /\ valid = FALSE /\ bad = "none" /\ calls = 0
  /\ allInOne \in Formats

-----------------------------------------------------------------------------
(* Steps of a worker.                                                      *)

At(w, p)       == bad = "none" /\ wk[w].pc = p
Go(w, p)       == wk' = [wk EXCEPT ![w].pc = p]
Fin(w, r)      == wk' = [wk EXCEPT ![w].pc = "fin", ![w].ret = r]
Return(w, r)   == wk' = [wk EXCEPT ![w].pc = "idle", ![w].ret = r, ![w].mine = FALSE]

\* fw_upgrade_session_fin: context, header table, handle and digest are freed.
\* Whoever still works with the context holds a stale pointer (Orphaned).
\* Mutant: the header table is forgotten.
SessionFinKeepsTable == ctx' = NoCtx /\ UNCHANGED hdr

SessionFin == ctx' = NoCtx /\ hdr' = FALSE

Orphaned == [w \in Workers |-> [wk[w] EXCEPT !.mine = FALSE]]

\* fw_upgrade: refused while a session exists, ...
StartCheck(w) ==
  /\ At(w, "start")
  /\ IF ctx.live THEN Return(w, "err") ELSE Go(w, "init")
  /\ UNCHANGED <<ctx, hdr, con, asked, link, img, valid, bad, calls, allInOne>>

\* ... then fw_upgrade_session_init allocates it, and the buffer of
\* fw_upgrade_session_process.
SessionInit(w) ==
  /\ At(w, "init")
  /\ \/ /\ ctx' = NewCtx /\ UNCHANGED hdr
        /\ \E p \in {"check"} \cup (IF EnvFails THEN {"fin"} ELSE {}) :
             wk' = [Orphaned EXCEPT ![w] = [pc |-> p, mine |-> TRUE, marked |-> FALSE,
                                            ret |-> IF p = "fin" THEN "err" ELSE "ok"]]
     \/ /\ EnvFails /\ SessionFin
        /\ wk' = [Orphaned EXCEPT ![w].pc = "idle", ![w].ret = "err"]
  /\ UNCHANGED <<con, asked, link, img, valid, bad, calls, allInOne>>

\* fw_upgrade_session_resume: only a suspended session ...
ResumeCheck(w) ==
  /\ At(w, "resume")
  /\ IF ctx.live /\ ctx.status = "suspend" THEN Go(w, "resume2") ELSE Return(w, "err")
  /\ UNCHANGED <<ctx, hdr, con, asked, link, img, valid, bad, calls, allInOne>>

\* ... goes on, in RESUME_SERVICE if it was past it.
ResumeGo(w) ==
  /\ At(w, "resume2")
  /\ \/ ~ ctx.live /\ Return(w, "err") /\ UNCHANGED ctx
     \/ /\ ctx.live
        /\ ctx' = [ctx EXCEPT !.status = "running",
                     !.state = IF @ \in EarlyState THEN @ ELSE "resume_service"]
        /\ wk' = [wk EXCEPT ![w] = [NoWk EXCEPT !.pc = "check", !.mine = TRUE]]
     \/ /\ ctx.live /\ EnvFails
        /\ ctx' = [ctx EXCEPT !.status = "not_start"]
        /\ wk' = [wk EXCEPT ![w] = [NoWk EXCEPT !.pc = "fin", !.ret = "err", !.mine = TRUE]]
  /\ UNCHANGED <<hdr, con, asked, link, img, valid, bad, calls, allInOne>>

\* The loop of fw_upgrade_session_process goes on while the session is running.
LoopCheck(w) ==
  /\ At(w, "check")
  /\ IF ctx.live /\ ctx.status = "running" THEN Go(w, "body") ELSE Fin(w, "ok")
  /\ UNCHANGED <<ctx, hdr, con, asked, link, img, valid, bad, calls, allInOne>>

\* A worker inside the switch, or writing the result, whose context is gone:
\* fw_upgrade_set_state asserts that this never happens.
StaleContext(w) ==
  /\ At(w, "body") \/ At(w, "mark")
  /\ ~ wk[w].mine
  /\ bad' = "stale"
  /\ UNCHANGED <<ctx, hdr, wk, con, asked, link, img, valid, calls, allInOne>>

-----------------------------------------------------------------------------
(* The cases of the state switch.                                          *)

Body(w, s) == At(w, "body") /\ wk[w].mine /\ ctx.state = s
Next2(w, c, s) == ctx' = [c EXCEPT !.state = s] /\ Go(w, "check")

\* Flash, memory or plugin report an error: run = 0.
BodyFail(w, s) == Body(w, s) /\ EnvFails /\ Fin(w, "err")

\* States that only do their work and move on.
Follow == [not_start |-> "trial_info", trial_info |-> "erase_fwd", erase_fs |-> "prepare_fs",
           prepare_fs |-> "prepare_connect", dup_fs |-> "finish"]

BodyPlain(w) ==
  /\ \E s \in DOMAIN Follow :
       \/ Body(w, s) /\ Next2(w, ctx, Follow[s])
       \/ s # "not_start" /\ BodyFail(w, s) /\ UNCHANGED ctx
  /\ UNCHANGED <<hdr, con, asked, link, img, valid, bad, calls, allInOne>>

BodyEraseFwd(w) ==
  /\ \/ Body(w, "erase_fwd") /\ Next2(w, ctx, "erase_fs")
        /\ valid' = FALSE /\ img' = [i \in Images |-> NoImg]
     \/ BodyFail(w, "erase_fwd") /\ UNCHANGED <<ctx, valid, img>>
  /\ UNCHANGED <<hdr, con, asked, link, bad, calls, allInOne>>

\* The next image to download; past the last one all are there.  (The code looks
\* at the table entry even then; what lies beyond it is not an empty FS image.)
NextImage(c) ==
  LET S == {i \in Images : i >= c.idx /\ i \in c.dl}
  IN  IF S = {} THEN Len(ImgLen) + 1 ELSE CHOOSE i \in S : \A j \in S : i <= j

\* An empty file system needs no download, only an entry.
\* Mutant: the index is not advanced past it.
BodyPrepareConnectStays(w) ==
  LET i == NextImage(ctx) IN
  /\ Body(w, "prepare_connect")
  /\ IF ~ ctx.first /\ i \in FsImages /\ ImgLen[i] = 0
     THEN /\ img' = [img EXCEPT ![i] = [NoImg EXCEPT !.made = TRUE]]
          /\ Next2(w, [ctx EXCEPT !.idx = i], "prepare_connect")
     ELSE /\ UNCHANGED img
          /\ IF ctx.first THEN Next2(w, ctx, "connect")
             ELSE Next2(w, [ctx EXCEPT !.idx = i],
                        IF i \in Images THEN "connect" ELSE "dup_images")
  /\ UNCHANGED <<hdr, con, asked, link, valid, bad, calls, allInOne>>

BodyPrepareConnect(w) ==
  LET i == NextImage(ctx) IN
  /\ Body(w, "prepare_connect")
  /\ IF ctx.first THEN Next2(w, ctx, "connect") /\ UNCHANGED img
     ELSE IF i \in FsImages /\ ImgLen[i] = 0
     THEN \/ /\ img' = [img EXCEPT ![i] = [NoImg EXCEPT !.made = TRUE]]
             /\ Next2(w, [ctx EXCEPT !.idx = i + 1], "prepare_connect")
          \/ EnvFails /\ Fin(w, "err") /\ UNCHANGED <<ctx, img>>
     ELSE /\ Next2(w, [ctx EXCEPT !.idx = i],
                   IF i \in Images THEN "connect" ELSE "dup_images")
          /\ UNCHANGED img
  /\ UNCHANGED <<hdr, con, asked, link, valid, bad, calls, allInOne>>

\* fw_upgrade_plugin_init: the config file first, then the image's own file.
BodyConnect(w) ==
  /\ \/ /\ Body(w, "connect") /\ Next2(w, [ctx EXCEPT !.read = 0], "receive")
        /\ link' = [open |-> TRUE, file |-> IF ctx.first THEN 0 ELSE ctx.idx, pos |-> 0]
     \/ BodyFail(w, "connect") /\ ctx' = [ctx EXCEPT !.read = 0] /\ UNCHANGED link
  /\ UNCHANGED <<hdr, con, asked, img, valid, bad, calls, allInOne>>

\* RESUME_SERVICE: find the current image, hash again what was written of it.
\* Without a header table this reads through NULL; past the last image it reads
\* beyond the table, where no identifier of an existing entry is found.
BodyResumeService(w) ==
  /\ Body(w, "resume_service")
  /\ IF ~ hdr THEN bad' = "null" /\ UNCHANGED <<ctx, wk>>
     ELSE /\ UNCHANGED bad
          /\ IF ctx.idx \in Images /\ img[ctx.idx].made
             THEN LET c == [ctx EXCEPT !.hdl = TRUE,
                              !.dig = [on |-> TRUE, n |-> ctx.wrt, good |-> img[ctx.idx].good]]
                  IN  \/ Next2(w, c, "resume_server")
                      \/ EnvFails /\ Fin(w, "err") /\ ctx' = c
             ELSE Fin(w, "err") /\ UNCHANGED ctx
  /\ UNCHANGED <<hdr, con, asked, link, img, valid, calls, allInOne>>

\* fw_upgrade_plugin_resume: the file is opened again where reading stopped.
\* Mutant: at the offset within the image.
BodyResumeServerAtImage(w) ==
  /\ Body(w, "resume_server") /\ Next2(w, ctx, "receive")
  /\ link' = [open |-> TRUE, file |-> IF allInOne THEN 0 ELSE ctx.idx, pos |-> ctx.wrt]
  /\ UNCHANGED <<hdr, con, asked, img, valid, bad, calls, allInOne>>

BodyResumeServer(w) ==
  /\ \/ /\ Body(w, "resume_server") /\ Next2(w, ctx, "receive")
        /\ link' = [open |-> TRUE, file |-> IF allInOne THEN 0 ELSE ctx.idx, pos |-> ctx.read]
     \/ BodyFail(w, "resume_server") /\ UNCHANGED <<ctx, link>>
  /\ UNCHANGED <<hdr, con, asked, img, valid, bad, calls, allInOne>>

\* Where image i starts in the all-in-one file, and how long a file is.
Start[i \in Nat] == IF i <= 1 THEN CfgLen ELSE Start[i - 1] + ImgLen[i - 1]
FileLen(f) == IF f # 0 THEN ImgLen[f]
              ELSE IF allInOne THEN Start[Len(ImgLen) + 1] ELSE CfgLen

\* fw_upgrade_plugin_recv_data: some of what is left of the file, or nothing.
BodyReceive(w) ==
  /\ Body(w, "receive")
  /\ \/ \E n \in 1 .. BufLen, good \in (IF EnvFails THEN BOOLEAN ELSE {TRUE}) :
          /\ link.open /\ link.pos + n <= FileLen(link.file)
          /\ Next2(w, [ctx EXCEPT !.buf = [n |-> n, off |-> 0, file |-> link.file,
                                           pos |-> link.pos, good |-> good]],
                   IF ctx.first THEN "config" ELSE "image")
          /\ link' = [link EXCEPT !.pos = @ + n]
     \/ /\ link.open /\ (EnvFails \/ link.pos >= FileLen(link.file))
        /\ Fin(w, "ok") /\ UNCHANGED <<ctx, link>>
     \/ /\ EnvFails \/ ~ link.open
        /\ Fin(w, "err") /\ UNCHANGED <<ctx, link>>
  /\ UNCHANGED <<hdr, con, asked, img, valid, bad, calls, allInOne>>

\* fw_upgrade_process_config_file: collect the header, check its hash, write it
\* to the FWD, allocate the table, and, in the partial format, compare with the
\* running images to see which ones to download.
BodyConfig(w) ==
  LET got  == IF ctx.cfgbuf THEN ctx.wrt ELSE 0
      b    == ctx.buf
      take == IF b.n < CfgLen - got THEN b.n ELSE CfgLen - got
      ok   == ctx.cfgok /\ b.good /\ b.file = 0 /\ b.pos = got
      c    == [ctx EXCEPT !.cfgok = ok, !.buf.off = take]
      full == [c EXCEPT !.first = FALSE, !.cfgbuf = FALSE, !.read = CfgLen,
                        !.wrt = IF ctx.cfgbuf THEN CfgLen ELSE @]
      abort == Fin(w, "err") /\ ctx' = [c EXCEPT !.cfgbuf = FALSE] /\ link' = NoLink
  IN
  /\ Body(w, "config")
  /\ IF got + take < CfgLen
     THEN /\ \/ Next2(w, [c EXCEPT !.cfgbuf = TRUE, !.wrt = got + take], "receive")
                /\ UNCHANGED link
             \/ EnvFails /\ abort
          /\ UNCHANGED <<hdr, bad>>
     ELSE IF ~ ctx.dig.on THEN bad' = "null" /\ UNCHANGED <<ctx, wk, link, hdr>>
     ELSE /\ UNCHANGED bad
          /\ \/ /\ ok /\ hdr' = TRUE
                /\ IF allInOne
                   THEN /\ Next2(w, full, IF take < b.n THEN "image" ELSE "receive")
                        /\ UNCHANGED link
                   ELSE /\ \E D \in SUBSET Images :
                             FsImages \subseteq D /\ Next2(w, [full EXCEPT !.dl = D], "disconnect")
                        /\ UNCHANGED link
             \/ ~ ok /\ abort /\ UNCHANGED hdr
             \/ EnvFails /\ ok /\ abort /\ hdr' \in {hdr, TRUE}
  /\ UNCHANGED <<con, asked, img, valid, calls, allInOne>>

\* The chunk at offset off of the buffer is the one image i needs next.
Fits(c) ==
  /\ c.buf.good
  /\ IF allInOne THEN c.buf.file = 0 /\ c.buf.pos + c.buf.off = Start[c.idx] + c.wrt
     ELSE c.buf.file = c.idx /\ c.buf.pos + c.buf.off = c.wrt

\* What follows a finished image.
\* Mutant: image_wrt_length keeps the length of the finished image.
ImageDoneKeepsLength(w, c) ==
  LET d == [c EXCEPT !.hdl = FALSE, !.idx = @ + 1] IN
  IF ~ allInOne THEN Next2(w, d, "disconnect")
  ELSE IF d.idx \notin Images THEN Next2(w, d, "dup_fs")
  ELSE ctx' = d /\ UNCHANGED wk

ImageDone(w, c) ==
  LET d == [c EXCEPT !.hdl = FALSE, !.idx = @ + 1, !.len = 0] IN
  IF ~ allInOne THEN Next2(w, d, "disconnect")
  ELSE IF d.idx \notin Images THEN Next2(w, d, "dup_fs")
  ELSE ctx' = d /\ UNCHANGED wk

\* fw_upgrade_process_receive_image, one turn of its loop: the rest of the
\* buffer, as far as the current image goes, is hashed and written; the last
\* chunk of an image completes its hash.
\* Mutant: the hash is not compared.
BodyImageUnverified(w) ==
  LET c0 == IF ctx.len = 0 THEN [ctx EXCEPT !.hdl = TRUE, !.wrt = 0, !.dig = NewDig,
                                            !.len = ImgLen[ctx.idx]]
            ELSE ctx
      k  == IF c0.buf.n - c0.buf.off < c0.len - c0.wrt THEN c0.buf.n - c0.buf.off
            ELSE c0.len - c0.wrt
      c1 == [c0 EXCEPT !.buf.off = @ + k, !.read = @ + k, !.wrt = @ + k]
  IN
  /\ Body(w, "image")
  /\ ctx.buf.off < ctx.buf.n /\ ctx.dig.on
  /\ img' = [img EXCEPT ![ctx.idx] = [made |-> TRUE, n |-> c1.wrt,
                                      good |-> (ctx.len = 0 \/ @.good) /\ Fits(c0), blind |-> FALSE]]
  /\ IF c1.wrt >= c1.len THEN ImageDone(w, c1) ELSE Next2(w, c1, "receive")
  /\ UNCHANGED <<hdr, con, asked, link, valid, bad, calls, allInOne>>

BodyImage(w) ==
  LET new == ctx.len = 0
      L   == ImgLen[ctx.idx]
      c0  == IF new THEN [ctx EXCEPT !.hdl = TRUE, !.wrt = 0, !.len = L, !.dig = NewDig] ELSE ctx
      rest == c0.buf.n - c0.buf.off
      k   == IF allInOne /\ c0.len - c0.wrt < rest THEN c0.len - c0.wrt ELSE rest
      fit == Fits(c0)
      c1  == [c0 EXCEPT !.buf.off = @ + k, !.read = @ + k, !.wrt = @ + k,
                        !.dig.n = @ + k, !.dig.good = @ /\ fit]
      old == IF new THEN [NoImg EXCEPT !.made = TRUE] ELSE img[ctx.idx]
      abort == Fin(w, "err") /\ link' = NoLink
  IN
  /\ Body(w, "image")
  /\ IF allInOne /\ ctx.buf.off >= ctx.buf.n
     THEN Next2(w, ctx, "receive") /\ UNCHANGED <<img, link, bad>>
     ELSE IF allInOne /\ new /\ L = 0
     THEN /\ img' = [img EXCEPT ![ctx.idx] = old]
          /\ ImageDone(w, [c0 EXCEPT !.dig = ctx.dig])
          /\ UNCHANGED <<link, bad>>
     ELSE IF ~ ctx.dig.on THEN bad' = "null" /\ UNCHANGED <<ctx, wk, img, link>>
     ELSE /\ UNCHANGED bad
          /\ \/ /\ k > c0.len - c0.wrt
                /\ abort /\ ctx' = c0 /\ img' = [img EXCEPT ![ctx.idx] = old]
             \/ /\ k <= c0.len - c0.wrt
                /\ img' = [img EXCEPT ![ctx.idx] = [old EXCEPT !.n = c1.wrt, !.good = @ /\ fit]]
                /\ IF c1.wrt < c1.len
                   THEN /\ UNCHANGED link
                        /\ IF allInOne THEN ctx' = c1 /\ UNCHANGED wk
                           ELSE Next2(w, c1, "receive")
                   ELSE IF c1.dig.n = L /\ c1.dig.good THEN ImageDone(w, c1) /\ UNCHANGED link
                   ELSE abort /\ ctx' = c1
             \/ /\ EnvFails
                /\ abort /\ ctx' = c0 /\ img' \in {img, [img EXCEPT ![ctx.idx] = old]}
  /\ UNCHANGED <<hdr, con, asked, valid, calls, allInOne>>

BodyDisconnect(w) ==
  /\ Body(w, "disconnect") /\ Next2(w, ctx, "prepare_connect")
  /\ link' = NoLink
  /\ UNCHANGED <<hdr, con, asked, img, valid, bad, calls, allInOne>>

\* Images that need no download are copied from the running set.  A failed
\* create, erase or write is reported at the end, with the entries made so far
\* left in the FWD.  A failed read is not looked at: what the buffer held before
\* is written (the images of R), and the state machine goes on.
BodyDupImages(w) ==
  /\ \E C \in SUBSET (Images \ ctx.dl) : \E W \in SUBSET C, R \in SUBSET C :
       /\ EnvFails \/ R = {}
       /\ \/ C = Images \ ctx.dl /\ W = C /\ Body(w, "dup_images") /\ Next2(w, ctx, "dup_fs")
          \/ BodyFail(w, "dup_images") /\ UNCHANGED ctx
       /\ img' = [i \in Images |-> IF i \notin C THEN img[i]
                                   ELSE [made |-> TRUE, n |-> IF i \in W THEN ImgLen[i] ELSE 0,
                                         good |-> i \notin R, blind |-> i \in R]]
  /\ UNCHANGED <<hdr, con, asked, link, valid, bad, calls, allInOne>>

BodyFinish(w) ==
  /\ Body(w, "finish") /\ Fin(w, "ok")
  /\ UNCHANGED <<ctx, hdr, con, asked, link, img, valid, bad, calls, allInOne>>

-----------------------------------------------------------------------------
(* fw_upgrade_session_finalize.                                            *)

\* The connection is closed and the result decided.
Finalize(w) ==
  /\ At(w, "fin")
  /\ IF ~ ctx.live THEN Return(w, "err") /\ UNCHANGED link
     ELSE LET r == IF ctx.status = "cancel" THEN "cancelled"
                   ELSE IF wk[w].ret = "ok" /\ ctx.state # "finish" THEN "incomplete"
                   ELSE wk[w].ret
          IN  /\ wk' = [wk EXCEPT ![w].ret = r, ![w].pc = IF r = "ok" THEN "mark" ELSE "status"]
              /\ link' = NoLink
  /\ UNCHANGED <<ctx, hdr, con, asked, img, valid, bad, calls, allInOne>>

\* Everything is good: the FWD becomes valid.  The result of the write is ignored.
\* (The trial SBL entry, written next, is in OtaBoot.)
\* Mutant: a cancel that comes now still changes the result.
FinalizeMarkRecheck(w) ==
  /\ At(w, "mark") /\ wk[w].mine
  /\ valid' \in {TRUE} \cup (IF EnvFails THEN {valid} ELSE {})
  /\ wk' = [wk EXCEPT ![w].pc = "status", ![w].marked = valid',
                      ![w].ret = IF ctx.status = "cancel" THEN "cancelled" ELSE @]
  /\ UNCHANGED <<ctx, hdr, con, asked, link, img, bad, calls, allInOne>>

FinalizeMark(w) ==
  /\ At(w, "mark") /\ wk[w].mine
  /\ valid' \in {TRUE} \cup (IF EnvFails THEN {valid} ELSE {})
  /\ wk' = [wk EXCEPT ![w].pc = IF AutoReboot THEN "reboot" ELSE "status", ![w].marked = valid']
  /\ UNCHANGED <<ctx, hdr, con, asked, link, img, bad, calls, allInOne>>

\* The system reset: no task survives it, flash does.
FinalizeReboot(w) ==
  /\ At(w, "reboot")
  /\ SessionFin /\ link' = NoLink /\ wk' = [v \in Workers |-> NoWk]
  /\ con' = "idle" /\ asked' = FALSE
  /\ UNCHANGED <<img, valid, bad, calls, allInOne>>

\* A suspended session is kept, any other one freed; decided here ...
FinalizeStatus(w) ==
  /\ At(w, "status")
  /\ Go(w, IF ctx.live /\ ctx.status = "suspend" THEN "suspend" ELSE "free")
  /\ UNCHANGED <<ctx, hdr, con, asked, link, img, valid, bad, calls, allInOne>>

\* ... and done here.
FinalizeSuspend(w) ==
  /\ At(w, "suspend")
  /\ ctx' = [ctx EXCEPT !.hdl = FALSE, !.dig = NoDig]
  /\ Return(w, "suspended")
  /\ UNCHANGED <<hdr, con, asked, link, img, valid, bad, calls, allInOne>>

FinalizeFree(w) ==
  /\ At(w, "free")
  /\ SessionFin
  /\ wk' = [Orphaned EXCEPT ![w].pc = "idle"]
  /\ UNCHANGED <<con, asked, link, img, valid, bad, calls, allInOne>>

Worker(w) ==
  \/ StartCheck(w) \/ SessionInit(w) \/ ResumeCheck(w) \/ ResumeGo(w)
  \/ LoopCheck(w) \/ StaleContext(w)
  \/ BodyPlain(w) \/ BodyEraseFwd(w) \/ BodyPrepareConnect(w) \/ BodyConnect(w)
  \/ BodyResumeService(w) \/ BodyResumeServer(w) \/ BodyReceive(w) \/ BodyConfig(w)
  \/ BodyImage(w) \/ BodyDisconnect(w) \/ BodyDupImages(w) \/ BodyFinish(w)
  \/ Finalize(w) \/ FinalizeMark(w) \/ FinalizeReboot(w) \/ FinalizeStatus(w)
  \/ FinalizeSuspend(w) \/ FinalizeFree(w)

-----------------------------------------------------------------------------
(* The console.                                                            *)

Idle     == \A w \in Workers : wk[w].pc = "idle"
Entering == \E w \in Workers : wk[w].pc \in {"start", "init", "resume", "resume2"}

ConAt(p) == bad = "none" /\ con = p
Call(c)  == ConAt("idle") /\ c \in Calls /\ calls < MaxCalls /\ calls' = calls + 1

CallStart(w) ==
  /\ Call("start") /\ At(w, "idle") /\ (Polite => ~ Entering)
  /\ wk' = [wk EXCEPT ![w] = [NoWk EXCEPT !.pc = "start"]]
  /\ asked' = (asked /\ ctx.live)
  /\ UNCHANGED <<ctx, hdr, con, link, img, valid, bad, allInOne>>

CallResume(w) ==
  /\ Call("resume") /\ At(w, "idle") /\ (Polite => Idle)
  /\ wk' = [wk EXCEPT ![w] = [NoWk EXCEPT !.pc = "resume"]]
  /\ asked' = FALSE
  /\ UNCHANGED <<ctx, hdr, con, link, img, valid, bad, allInOne>>

\* fw_upgrade_session_cancel: no session, no effect; a running one is flagged,
\* any other one freed at once.
CallCancel ==
  /\ Call("cancel") /\ (Polite => ~ Entering /\ (asked => Idle))
  /\ con' = IF ctx.live THEN "cancel" ELSE "idle"
  /\ UNCHANGED <<ctx, hdr, wk, asked, link, img, valid, bad, allInOne>>

CancelStatus ==
  /\ ConAt("cancel")
  /\ con' = IF ctx.live /\ ctx.status = "running" THEN "set_cancel" ELSE "fin"
  /\ UNCHANGED <<ctx, hdr, wk, asked, link, img, valid, bad, calls, allInOne>>

\* Mutant: the session is freed under its worker.
CancelSetFrees ==
  /\ ConAt("set_cancel")
  /\ SessionFin /\ wk' = Orphaned
  /\ con' = "idle" /\ asked' = TRUE
  /\ UNCHANGED <<link, img, valid, bad, calls, allInOne>>

CancelSet ==
  /\ ConAt("set_cancel")
  /\ ctx' = IF ctx.live THEN [ctx EXCEPT !.status = "cancel"] ELSE ctx
  /\ con' = "idle" /\ asked' = ctx.live
  /\ UNCHANGED <<hdr, wk, link, img, valid, bad, calls, allInOne>>

CancelFin ==
  /\ ConAt("fin")
  /\ SessionFin /\ wk' = Orphaned
  /\ con' = "idle" /\ asked' = FALSE
  /\ UNCHANGED <<link, img, valid, bad, calls, allInOne>>

\* fw_upgrade_session_suspend.
CallSuspend ==
  /\ Call("suspend") /\ (Polite => ~ Entering)
  /\ con' = IF ctx.live /\ ctx.status = "running" THEN "set_suspend" ELSE "idle"
  /\ UNCHANGED <<ctx, hdr, wk, asked, link, img, valid, bad, allInOne>>

SuspendSet ==
  /\ ConAt("set_suspend")
  /\ ctx' = IF ctx.live THEN [ctx EXCEPT !.status = "suspend"] ELSE ctx
  /\ con' = "idle" /\ asked' = ctx.live
  /\ UNCHANGED <<hdr, wk, link, img, valid, bad, calls, allInOne>>

ConsoleCall == CallCancel \/ CallSuspend \/ \E w \in Workers : CallStart(w) \/ CallResume(w)
ConsoleStep == CancelStatus \/ CancelSet \/ CancelFin \/ SuspendSet

\* Undefined behaviour ends what the model says; a console may stop calling.
Halted == (bad # "none" \/ (Idle /\ con = "idle")) /\ UNCHANGED vars

Next ==
  \/ ConsoleCall
  \/ ConsoleStep
  \/ \E w \in Workers : Worker(w)
  \/ Halted

Spec == Init /\ [][Next]_vars

\* Tasks are scheduled: each one goes on with the call it is in.  Receiving
\* ends too, the plugins have timeouts.
FairSpec ==
  /\ Spec
  /\ WF_vars(ConsoleStep)
  /\ \A w \in Workers : WF_vars(Worker(w))

-----------------------------------------------------------------------------
(* Properties.                                                             *)

WkPc  == {"idle", "start", "init", "resume", "resume2", "check", "body", "fin", "mark",
          "reboot", "status", "suspend", "free"}
Dig   == [on : BOOLEAN, n : Nat, good : BOOLEAN]
Buf   == [n : Nat, off : Nat, file : Nat, pos : Nat, good : BOOLEAN]

Ctx   == [live : BOOLEAN, status : {"not_start", "running", "cancel", "suspend"},
          state : State, first : BOOLEAN, cfgbuf : BOOLEAN, cfgok : BOOLEAN,
          idx : 1 .. Len(ImgLen) + 1, len : Nat, wrt : Nat, read : Nat, hdl : BOOLEAN, dig : Dig,
          dl : SUBSET Images, buf : Buf]
Wk    == [pc : WkPc, mine : BOOLEAN, marked : BOOLEAN,
          ret : {"ok", "err", "cancelled", "incomplete", "suspended"}]

\* Type correctness; image_index never goes further than one past the last
\* image, where the search of PREPARE_CONNECT leaves it.
TypeOK ==
  /\ ctx \in Ctx
  /\ hdr \in BOOLEAN /\ valid \in BOOLEAN /\ asked \in BOOLEAN /\ calls \in Nat
  /\ allInOne \in Formats
  /\ wk \in [Workers -> Wk]
  /\ con \in {"idle", "cancel", "set_cancel", "fin", "set_suspend"}
  /\ link \in [open : BOOLEAN, file : Nat, pos : Nat]
  /\ img \in [Images -> [made : BOOLEAN, n : Nat, good : BOOLEAN, blind : BOOLEAN]]
  /\ bad \in {"none", "stale", "null"}

\* The assertion in fw_upgrade_set_state: a worker inside the state machine
\* always finds the context, cancel or not.
ContextAlive == bad # "stale"

\* Suspending and resuming never makes the state machine use a table or a
\* digest context that is not there.
NoNullUse == bad # "null"

\* The FWD is valid only when every image of the set is complete and is what
\* its hash says, whatever was cancelled, suspended, resumed or damaged.  The one
\* way round the hash is a copy whose read failed unnoticed.
ValidIsVerified ==
  valid => \A i \in Images : img[i].made /\ img[i].n = ImgLen[i] /\ (img[i].good \/ img[i].blind)

\* The same without the exception.  The code does not keep it: the copy of
\* fw_upgrade_process_duplicate_images never looks whether its source was read.
ValidIsIntact == ValidIsVerified /\ (valid => \A i \in Images : img[i].good)

\* Whenever the worker waits for data of a half-written image, the connection
\* stands at exactly the next chunk: a resume neither skips nor repeats one.
StreamAligned ==
  ctx.live /\ ctx.state = "receive" /\ ctx.status = "running" /\ link.open /\ ctx.len > 0 =>
    link.pos = IF allInOne THEN Start[ctx.idx] + ctx.wrt ELSE ctx.wrt

\* A session that is over holds nothing: no header table, no connection.
NothingHeld == ~ ctx.live /\ Idle => ~ hdr /\ ~ link.open

\* A call that made the FWD valid never reports a failed or a cancelled upgrade
\* when the next reset will boot it.  A suspend that comes too late hides the
\* success, and nothing else does.
SuccessReported ==
  \A w \in Workers : wk[w].pc = "idle" /\ wk[w].marked => wk[w].ret \in {"ok", "suspended"}

\* "On success, QAPI_OK is returned": a call that returns OK made the FWD valid.
OkMeansValid ==
  \A w \in Workers : wk[w].pc \in {"reboot", "status"} /\ wk[w].ret = "ok" => wk[w].marked

\* Every call returns: cancel and suspend, errors and damaged data end the loop.
CallsReturn ==
  \A w \in Workers : wk[w].pc # "idle" ~> (wk[w].pc = "idle" \/ bad # "none")

\* With a working server, flash and network an upgrade that nobody cancels or
\* suspends ends with a valid FWD.
Completes == \A w \in Workers : wk[w].pc = "check" ~> valid
=============================================================================

------------------------ MODULE FwUpgradeSessionProofs ------------------------
(***************************************************************************)
(* FwUpgradeSession for every set of images, any buffer and any number of  *)
(* tasks and calls.                                                        *)
(*                                                                         *)
(* IInv says who works with the session (Unique), where the context stands *)
(* (Bounds), what of the images is in flash (Written), what a valid FWD    *)
(* stands for (Verdict) and where the connection reads (Stream).  It needs *)
(* that no two workers are let into one session (OneAtATime).  Report, on  *)
(* its own, follows the result of one call.  Held, over IInv, adds what a  *)
(* console that waits for its calls can rely on: who owns the session and  *)
(* what its status says about that.                                        *)
(***************************************************************************)
EXTENDS FwUpgradeSession, TLAPS, SequenceTheorems, WellFoundedInduction

-----------------------------------------------------------------------------
(* Who works with the session.                                             *)

\* The calls that are made do not let two workers into one session: a caller
\* waits before it resumes, or has one task for both calls.
OneAtATime == Polite \/ \A v, w \in Workers : v = w

InsidePc == {"check", "body", "fin", "mark", "reboot", "status", "suspend", "free"}

Unique ==
  /\ \A w \in Workers : wk[w].mine => ctx.live /\ wk[w].pc \in InsidePc
  /\ \A v, w \in Workers : wk[v].mine /\ wk[w].mine => v = w
  /\ \A v, w \in Workers : v # w /\ wk[v].pc \in {"resume", "resume2"} => wk[w].pc = "idle"

-----------------------------------------------------------------------------
(* What the session context says.                                          *)

Past == State \ {"not_start", "trial_info", "erase_fwd"}
Last == Len(ImgLen) + 1
Whole(i) == img[i].made /\ img[i].n = ImgLen[i] /\ (img[i].good \/ img[i].blind)
Complete == \A i \in Images : Whole(i)

\* What of the current image is written.
Pos == IF ctx.len = 0 THEN 0 ELSE ctx.wrt

\* The lengths, and the image the context stands at.
Bounds ==
  /\ ctx.first => ctx.idx = 1 /\ ctx.len = 0
  /\ ctx.cfgbuf => ctx.first /\ ctx.wrt < CfgLen
  /\ ctx.buf.off <= ctx.buf.n
  /\ ctx.len # 0 => ctx.idx \in Images /\ ctx.len = ImgLen[ctx.idx] /\ ctx.wrt <= ctx.len
  /\ ctx.state \in {"connect", "resume_server", "receive", "config", "image"} => ctx.idx \in Images
  /\ ctx.state \in EarlyState \cup {"disconnect"} => ctx.len = 0
  /\ ctx.state = "config" => ctx.first
  /\ ctx.state \in {"image", "resume_server", "disconnect", "dup_images", "dup_fs", "finish"} => ~ ctx.first
  /\ ctx.state \notin Past => ctx.first
  /\ ctx.state \in {"dup_images", "dup_fs", "finish"} => ctx.idx = Last

\* The images before the current one are there, those after it are not; the
\* digest is right about the current one.
Written ==
  ctx.state \in Past =>
    /\ \A i \in Images : i > ctx.idx => ~ img[i].made /\ img[i].good
    /\ \A i \in Images : i < ctx.idx /\ i \in ctx.dl => Whole(i)
    /\ ctx.idx \in Images =>
         /\ ctx.first \/ ctx.state \in EarlyState \cup {"disconnect"} => ~ img[ctx.idx].made
         /\ ImgLen[ctx.idx] # 0 /\ (ctx.len = 0 \/ (ctx.dig.on /\ ctx.dig.good)) => img[ctx.idx].good
         /\ /\ ctx.len # 0 /\ ctx.state \in {"receive", "image", "resume_server"}
            /\ \E w \in Workers : wk[w].mine /\ wk[w].pc \in {"check", "body"}
            => img[ctx.idx].made

\* The FWD is valid only with all images, and no image is written then.
Verdict ==
  /\ valid => Complete
  /\ valid /\ ctx.state \in Past => ctx.state \in {"finish", "resume_service"} /\ ctx.idx = Last
  /\ ctx.state \in {"dup_fs", "finish"} => Complete
  /\ \A w \in Workers : wk[w].mine /\ wk[w].pc = "mark" => ctx.state = "finish"
  /\ ctx.live /\ allInOne => ctx.dl = Images

\* The connection, the buffer, the count of what was read, and the image.
Stream ==
  /\ ~ ctx.first /\ allInOne => /\ ctx.state \notin EarlyState \cup {"disconnect", "dup_images"}
                                /\ ctx.read = Start[ctx.idx] + Pos
  /\ ~ ctx.first /\ ~ allInOne /\ ctx.idx \in Images
     /\ (img[ctx.idx].made \/ ctx.len # 0 \/ ctx.state \in {"receive", "image", "resume_server"})
       => ctx.read = Pos
  /\ ctx.state = "image" => ctx.buf.pos + ctx.buf.off = ctx.read
  /\ ctx.state = "receive" /\ ~ ctx.first /\ link.open => link.pos = ctx.read
  /\ ctx.state \in {"config", "image"} /\ link.open => link.pos = ctx.buf.pos + ctx.buf.n

IInv == TypeOK /\ Unique /\ Bounds /\ Written /\ Verdict /\ Stream

-----------------------------------------------------------------------------
(* Who holds what, when calls are polite.                                  *)

\* A resume that is begun goes on: the flash it needs is there.
ResumeWorks == "resume" \notin Calls \/ ~ EnvFails

Inside(w) == wk[w].pc \in InsidePc
Nobody    == \A w \in Workers : ~ Inside(w)
Resuming  == \E w \in Workers : wk[w].pc \in {"resume", "resume2"}

\* The session belongs to the worker inside it; one call enters at a time.
Owned ==
  /\ \A w \in Workers : Inside(w) => wk[w].mine
  /\ \A v, w \in Workers :
       v # w /\ wk[v].pc \in {"start", "init"} => wk[w].pc \notin {"start", "init"}
  /\ \A w \in Workers : wk[w].pc = "init" => ~ ctx.live
  /\ Resuming => ~ EnvFails

\* What the status says about the worker, the call that changed it and the call
\* that is about to.
Agreed ==
  /\ con # "idle" => ~ Entering
  /\ ctx.live /\ ctx.status # "running" => asked \/ Resuming
  /\ ctx.live /\ Nobody => ctx.status = "suspend"
  /\ con = "cancel" /\ ctx.live => ctx.status = "running" \/ Nobody
  /\ con \in {"set_cancel", "set_suspend"} /\ ctx.live => ctx.status = "running"
  /\ con = "fin" /\ ctx.live => Nobody
  /\ \A w \in Workers : wk[w].pc = "suspend" => ctx.status = "suspend"

\* The table and the connection are not left behind.
Kept ==
  /\ link.open => \E w \in Workers : wk[w].mine /\ wk[w].pc \in {"check", "body", "fin"}
  /\ hdr => ctx.live

Held == Owned /\ Agreed /\ Kept /\ bad # "stale"

-----------------------------------------------------------------------------
(* What a call reports.                                                    *)

Report ==
  /\ wk \in [Workers -> Wk] /\ valid \in BOOLEAN
  /\ \A w \in Workers :
    /\ wk[w].pc = "mark" => wk[w].ret = "ok" /\ ~ wk[w].marked
    /\ wk[w].marked => \/ wk[w].pc \in {"reboot", "status", "suspend", "free"} /\ wk[w].ret = "ok"
                       \/ wk[w].pc = "idle" /\ wk[w].ret \in {"ok", "suspended"}

-----------------------------------------------------------------------------
(* Where the images of an all-in-one file begin.                           *)

LEMMA Least ==
  ASSUME NEW T \in SUBSET Nat, T # {}
  PROVE  \E x \in T : \A y \in T : x <= y
<1> DEFINE R == OpToRel(<, Nat)
<1>1. PICK x \in T : \A y \in T : ~ (<<y, x>> \in R)
  <2>1. IsWellFoundedOn(R, Nat)
    BY NatLessThanWellFounded, Zenon
  <2> HIDE DEF R
  <2>2. QED
    BY <2>1, WFMin, Zenon
<1>2. \A y \in T : ~ (y < x)
  <2>1. ASSUME NEW y \in T, y < x PROVE FALSE
    <3>1. y \in Nat /\ x \in Nat
      OBVIOUS
    <3>2. <<y, x>> \in R
      BY <2>1, <3>1 DEF OpToRel
    <3>3. QED
      BY <3>2, <1>1
  <2>2. QED
    BY <2>1
<1>3. QED
  BY <1>2

Step(x, i) == x + ImgLen[i - 1]
Upto(n, f) ==
  /\ f = [i \in 0 .. n |-> f[i]]
  /\ \A i \in 0 .. n : f[i] = IF i <= 1 THEN CfgLen ELSE Step(f[i - 1], i)

LEMMA UptoSame ==
  ASSUME NEW n \in Nat, NEW m \in Nat, NEW f, NEW g, Upto(n, f), Upto(m, g), NEW k \in Nat,
         k <= n, k <= m
  PROVE  f[k] = g[k]
<1> DEFINE S == {j \in 0 .. k : f[j] # g[j]}
<1>1. SUFFICES ASSUME S # {} PROVE FALSE
  OBVIOUS
<1>2. S \in SUBSET Nat
  OBVIOUS
<1> HIDE DEF S
<1>3. PICK j \in S : \A i \in S : j <= i
  BY <1>1, <1>2, Least
<1>4. j \in 0 .. k /\ f[j] # g[j]
  BY <1>3 DEF S
<1>5. CASE j <= 1
  <2>1. j \in 0 .. n /\ j \in 0 .. m
    BY <1>4
  <2>2. f[j] = CfgLen /\ g[j] = CfgLen
    BY <1>5, <2>1 DEF Upto
  <2>3. QED
    BY <1>4, <2>2
<1>6. CASE j > 1
  <2>1. j - 1 \in 0 .. k /\ j - 1 \notin S
    BY <1>3, <1>4, <1>6
  <2>2. f[j - 1] = g[j - 1]
    BY <2>1 DEF S
  <2>3. /\ j \in 0 .. n /\ j \in 0 .. m /\ ~ (j <= 1)
    BY <1>4, <1>6
  <2>4. f[j] = Step(f[j - 1], j) /\ g[j] = Step(g[j - 1], j)
    BY <2>3 DEF Upto
  <2>5. QED
    BY <1>4, <2>2, <2>4
<1>7. QED
  BY <1>4, <1>5, <1>6

LEMMA UptoExists ==
  ASSUME NEW n \in Nat
  PROVE  \E f : Upto(n, f)
<1> DEFINE S == {m \in Nat : ~ \E f : Upto(m, f)}
<1>1. SUFFICES ASSUME S # {} PROVE FALSE
  BY DEF S
<1>2. S \in SUBSET Nat
  OBVIOUS
<1> HIDE DEF S
<1>3. PICK m \in S : \A i \in S : m <= i
  BY <1>1, <1>2, Least
<1>4. m \in Nat /\ ~ \E f : Upto(m, f)
  BY <1>3 DEF S
<1>5. CASE m = 0
  <2> DEFINE g == [i \in 0 .. 0 |-> CfgLen]
  <2>1. Upto(0, g)
    BY DEF Upto
  <2>2. QED
    BY <1>4, <1>5, <2>1
<1>6. CASE m > 0
  <2>1. m - 1 \in Nat /\ m - 1 \notin S
    BY <1>3, <1>4, <1>6
  <2>2. PICK f : Upto(m - 1, f)
    BY <2>1 DEF S
  <2> DEFINE g == [i \in 0 .. m |-> IF i < m THEN f[i]
                                    ELSE IF i <= 1 THEN CfgLen ELSE Step(f[m - 1], m)]
  <2>3. g = [i \in 0 .. m |-> g[i]]
    OBVIOUS
  <2>4. ASSUME NEW i \in 0 .. m PROVE g[i] = IF i <= 1 THEN CfgLen ELSE Step(g[i - 1], i)
    <3>1. CASE i < m
      <4>1. g[i] = f[i] /\ i \in 0 .. m - 1
        BY <1>4, <3>1
      <4>2. f[i] = IF i <= 1 THEN CfgLen ELSE Step(f[i - 1], i)
        BY <2>2, <4>1 DEF Upto
      <4>3. ~ (i <= 1) => g[i - 1] = f[i - 1]
        BY <1>4, <3>1
      <4>4. QED
        BY <4>1, <4>2, <4>3
    <3>2. CASE i = m
      <4>1. g[i] = IF i <= 1 THEN CfgLen ELSE Step(f[m - 1], m)
        BY <1>4, <3>2
      <4>2. ~ (i <= 1) => g[i - 1] = f[m - 1]
        BY <1>4, <1>6, <3>2
      <4>3. QED
        BY <3>2, <4>1, <4>2
    <3>3. QED
      BY <1>4, <3>1, <3>2
  <2> HIDE DEF g
  <2>5. Upto(m, g)
    BY <2>3, <2>4, Zenon DEF Upto
  <2>6. QED
    BY <1>4, <2>5
<1>7. QED
  BY <1>4, <1>5, <1>6

\* The recursion that defines Start has a solution.
LEMMA StartIs ==
  /\ Start[1] = CfgLen
  /\ \A i \in Images : Start[i + 1] = Start[i] + ImgLen[i]
<1> DEFINE c(n) == CHOOSE f : Upto(n, f)
           F == [n \in Nat |-> c(n)[n]]
<1>1. ASSUME NEW n \in Nat PROVE Upto(n, c(n))
  BY UptoExists, Zenon
<1> HIDE DEF c
<1>2. ASSUME NEW n \in Nat PROVE F[n] = IF n <= 1 THEN CfgLen ELSE Step(F[n - 1], n)
  <2>1. F[n] = c(n)[n] /\ n \in 0 .. n
    OBVIOUS
  <2>2. c(n)[n] = IF n <= 1 THEN CfgLen ELSE Step(c(n)[n - 1], n)
    BY <1>1, <2>1 DEF Upto
  <2>3. ~ (n <= 1) => c(n)[n - 1] = F[n - 1]
    <3>1. SUFFICES ASSUME ~ (n <= 1) PROVE c(n)[n - 1] = F[n - 1]
      OBVIOUS
    <3>2. n - 1 \in Nat /\ n - 1 <= n /\ n - 1 <= n - 1
      BY <3>1
    <3>3. c(n)[n - 1] = c(n - 1)[n - 1]
      <4>1. Upto(n, c(n)) /\ Upto(n - 1, c(n - 1))
        BY <1>1, <3>2
      <4>2. QED
        BY <3>2, <4>1, UptoSame
    <3>4. QED
      BY <3>2, <3>3
  <2>4. QED
    BY <2>1, <2>2, <2>3
<1>3. F = [n \in Nat |-> IF n <= 1 THEN CfgLen ELSE F[n - 1] + ImgLen[n - 1]]
  <2>1. \A n \in Nat : F[n] = IF n <= 1 THEN CfgLen ELSE F[n - 1] + ImgLen[n - 1]
    BY <1>2 DEF Step
  <2>2. F = [n \in Nat |-> F[n]]
    OBVIOUS
  <2> HIDE DEF F
  <2>3. QED
    BY <2>1, <2>2
<1> HIDE DEF F
<1>4. Start = [n \in Nat |-> IF n <= 1 THEN CfgLen ELSE Start[n - 1] + ImgLen[n - 1]]
  BY <1>3, Zenon DEF Start
<1>5. \A n \in Nat : Start[n] = IF n <= 1 THEN CfgLen ELSE Start[n - 1] + ImgLen[n - 1]
  BY <1>4, Zenon
<1>6. Len(ImgLen) \in Nat
  BY SessionAssumption, LenProperties
<1>7. Start[1] = CfgLen
  BY <1>5
<1>8. ASSUME NEW i \in Images PROVE Start[i + 1] = Start[i] + ImgLen[i]
  <2>1. i \in Nat /\ i + 1 \in Nat /\ ~ (i + 1 <= 1) /\ (i + 1) - 1 = i
    BY <1>6 DEF Images
  <2>2. QED
    BY <1>5, <2>1
<1>9. QED
  BY <1>7, <1>8

-----------------------------------------------------------------------------
(* Steps that change where a worker is.                                    *)

\* Only worker w has moved, to p.
Moved(w, p) ==
  /\ wk' \in [Workers -> Wk] /\ wk'[w].pc = p /\ wk'[w].mine = wk[w].mine
  /\ \A v \in Workers : v # w => wk'[v] = wk[v]

\* ... and is not in the session any more.
Left(w) ==
  /\ wk' \in [Workers -> Wk] /\ wk'[w].pc = "idle" /\ ~ wk'[w].mine
  /\ \A v \in Workers : v # w => wk'[v] = wk[v]

LEMMA GoIs ==
  ASSUME wk \in [Workers -> Wk], NEW w \in Workers, NEW p \in WkPc, Go(w, p)
  PROVE  Moved(w, p) /\ wk'[w].ret = wk[w].ret /\ wk'[w].marked = wk[w].marked
  BY DEF Go, Moved, Wk

LEMMA FinIs ==
  ASSUME wk \in [Workers -> Wk], NEW w \in Workers, NEW r \in {"ok", "err"}, Fin(w, r)
  PROVE  Moved(w, "fin") /\ wk'[w].ret = r /\ wk'[w].marked = wk[w].marked
  <1>1. "fin" \in WkPc
    BY DEF WkPc
  <1> QED
    BY <1>1 DEF Fin, Moved, Wk

LEMMA ReturnIs ==
  ASSUME wk \in [Workers -> Wk], NEW w \in Workers, NEW r \in {"err", "suspended"}, Return(w, r)
  PROVE  Left(w) /\ wk'[w].ret = r /\ wk'[w].marked = wk[w].marked
  <1>1. "idle" \in WkPc
    BY DEF WkPc
  <1> QED
    BY <1>1 DEF Return, Left, Wk

LEMMA OrphanIs ==
  ASSUME wk \in [Workers -> Wk]
  PROVE  /\ Orphaned \in [Workers -> Wk]
         /\ \A v \in Workers : /\ Orphaned[v].pc = wk[v].pc /\ ~ Orphaned[v].mine
                               /\ Orphaned[v].ret = wk[v].ret /\ Orphaned[v].marked = wk[v].marked
  BY DEF Orphaned, Wk

\* The same for a state of the right type.
LEMMA GoMoves ==
  ASSUME TypeOK, NEW w \in Workers, NEW p \in WkPc, Go(w, p)
  PROVE  Moved(w, p)
  BY GoIs DEF TypeOK

LEMMA FinMoves ==
  ASSUME TypeOK, NEW w \in Workers, NEW r \in {"ok", "err"}, Fin(w, r)
  PROVE  Moved(w, "fin")
  BY FinIs DEF TypeOK

LEMMA ReturnMoves ==
  ASSUME TypeOK, NEW w \in Workers, NEW r \in {"err", "suspended"}, Return(w, r)
  PROVE  Left(w)
  BY ReturnIs DEF TypeOK

LEMMA OrphanedIs ==
  ASSUME TypeOK
  PROVE  /\ Orphaned \in [Workers -> Wk]
         /\ \A v \in Workers : Orphaned[v].pc = wk[v].pc /\ ~ Orphaned[v].mine
  BY OrphanIs DEF TypeOK

\* A call that fails.
LEMMA Dropped ==
  ASSUME NEW q \in [Workers -> Wk], NEW w \in Workers, NEW r \in {"ok", "err"},
         wk' = [q EXCEPT ![w].pc = "idle", ![w].ret = r]
  PROVE  /\ wk' \in [Workers -> Wk] /\ wk'[w].pc = "idle" /\ wk'[w].mine = q[w].mine
         /\ wk'[w].ret = r /\ wk'[w].marked = q[w].marked
         /\ \A v \in Workers : v # w => wk'[v] = q[v]
  <1>1. "idle" \in WkPc
    BY DEF WkPc
  <1> QED
    BY <1>1 DEF Wk

LEMMA MovedUnique ==
  ASSUME Unique, NEW w \in Workers, NEW p \in WkPc, Moved(w, p), wk[w].mine => p \in InsidePc,
         wk[w].pc # "idle", p \in {"resume", "resume2"} => wk[w].pc \in {"resume", "resume2"},
         ctx.live => ctx'.live
  PROVE  Unique'
  BY DEF Unique, Moved

LEMMA LeftUnique ==
  ASSUME Unique, NEW w \in Workers, Left(w), ctx.live => ctx'.live
  PROVE  Unique'
  BY DEF Unique, Left

\* The part of the context that the invariant is about.
Seen == <<ctx.live, ctx.state, ctx.first, ctx.cfgbuf, ctx.idx, ctx.len, ctx.wrt, ctx.read, ctx.dl,
          ctx.buf>>

\* A step that leaves it, the images and the FWD alone; it may free the digest
\* and close the connection.
LEMMA Quiet ==
  ASSUME IInv, TypeOK', Unique', UNCHANGED <<Seen, img, valid, allInOne>>,
         ctx'.dig = ctx.dig \/ ~ ctx'.dig.on, link' = link \/ ~ link'.open,
         \A w \in Workers : wk'[w].mine /\ wk'[w].pc \in {"check", "body"} =>
                              wk[w].mine /\ wk[w].pc \in {"check", "body"},
         \A w \in Workers : wk'[w].mine /\ wk'[w].pc = "mark" =>
                              (wk[w].mine /\ wk[w].pc = "mark") \/ ctx.state = "finish"
  PROVE  IInv'
  <1>1. /\ ctx'.live = ctx.live /\ ctx'.state = ctx.state /\ ctx'.first = ctx.first
        /\ ctx'.cfgbuf = ctx.cfgbuf /\ ctx'.idx = ctx.idx /\ ctx'.len = ctx.len
        /\ ctx'.wrt = ctx.wrt /\ ctx'.read = ctx.read /\ ctx'.dl = ctx.dl /\ ctx'.buf = ctx.buf
        /\ img' = img /\ valid' = valid /\ allInOne' = allInOne
    BY DEF Seen
  <1>2. Bounds'
    BY <1>1 DEF IInv, Bounds
  <1>3. \A i : Whole(i)' <=> Whole(i)
    BY <1>1 DEF Whole
  <1>4. Complete' <=> Complete
    BY <1>3 DEF Complete
  <1>5. Written'
    BY <1>1, <1>3 DEF IInv, Written
  <1>6. Verdict'
    BY <1>1, <1>4 DEF IInv, Verdict
  <1>7. Pos' = Pos
    BY <1>1 DEF Pos
  <1>8. Stream'
    BY <1>1, <1>7 DEF IInv, Stream
  <1> QED
    BY <1>2, <1>5, <1>6, <1>8 DEF IInv

\* A session that has just begun, or none.
LEMMA Fresh ==
  ASSUME IInv, TypeOK', Unique', UNCHANGED <<img, valid, allInOne>>,
         ctx'.state = "not_start", ctx'.first, ~ ctx'.cfgbuf, ctx'.idx = 1, ctx'.len = 0,
         ctx'.buf = NoBuf, ctx'.live => ctx'.dl = Images,
         \A w \in Workers : wk'[w].mine => wk'[w].pc # "mark"
  PROVE  IInv'
  <1>1. Bounds'
    BY DEF Bounds, NoBuf, Past
  <1>2. Written'
    BY DEF Written, Past
  <1>3. Complete' <=> Complete
    BY DEF Complete, Whole
  <1>4. Verdict'
    BY <1>3 DEF IInv, Verdict, Past
  <1>5. Stream'
    BY DEF Stream
  <1> QED
    BY <1>1, <1>2, <1>4, <1>5 DEF IInv

LEMMA NoCtxIs ==
  /\ NoCtx \in Ctx /\ NoCtx.state = "not_start" /\ NoCtx.first /\ ~ NoCtx.cfgbuf /\ NoCtx.idx = 1
  /\ NoCtx.len = 0 /\ NoCtx.buf = NoBuf /\ ~ NoCtx.live
  <1>1. 1 \in 1 .. Len(ImgLen) + 1 /\ NoDig \in Dig /\ NoBuf \in Buf
    BY SessionAssumption, LenProperties DEF NoDig, Dig, NoBuf, Buf
  <1>2. "not_start" \in State
    BY DEF State, EarlyState
  <1> QED
    BY <1>1, <1>2 DEF NoCtx, Ctx

LEMMA NewCtxIs ==
  /\ NewCtx \in Ctx /\ NewCtx.state = "not_start" /\ NewCtx.first /\ ~ NewCtx.cfgbuf
  /\ NewCtx.idx = 1 /\ NewCtx.len = 0 /\ NewCtx.buf = NoBuf /\ NewCtx.live /\ NewCtx.dl = Images
  /\ NewCtx.status = "running"
  <1>1. PICK c : c = NoCtx
    OBVIOUS
  <1>2. c \in Ctx /\ c.state = "not_start" /\ c.first /\ ~ c.cfgbuf /\ c.idx = 1
        /\ c.len = 0 /\ c.buf = NoBuf
    BY <1>1, NoCtxIs
  <1>3. PICK d : d = NewDig
    OBVIOUS
  <1>4. d \in Dig
    BY <1>3 DEF NewDig, Dig
  <1>5. NewCtx = [c EXCEPT !.live = TRUE, !.status = "running", !.dig = d, !.dl = Images]
    BY <1>1, <1>3 DEF NewCtx
  <1> QED
    BY <1>2, <1>4, <1>5 DEF Ctx

LEMMA NoWkIs ==
  /\ NoWk \in Wk /\ NoWk.pc = "idle" /\ ~ NoWk.mine /\ ~ NoWk.marked /\ NoWk.ret = "ok"
  BY DEF NoWk, Wk, WkPc

LEMMA NoLinkIs == NoLink \in [open : BOOLEAN, file : Nat, pos : Nat] /\ ~ NoLink.open
  BY DEF NoLink

-----------------------------------------------------------------------------
(* The steps outside the state machine.                                    *)

\* A worker goes on, or leaves, and changes nothing else but the connection.
LEMMA Walk ==
  ASSUME IInv, NEW w \in Workers, NEW p \in WkPc, Moved(w, p), wk[w].mine => p \in InsidePc,
         wk[w].pc # "idle", p \in {"resume", "resume2"} => wk[w].pc \in {"resume", "resume2"},
         wk[w].mine /\ p \in {"check", "body"} => wk[w].pc \in {"check", "body"},
         p = "mark" => ctx.state = "finish",
         UNCHANGED <<ctx, hdr, con, asked, img, valid, bad, calls, allInOne>>,
         link' = link \/ link' = NoLink
  PROVE  IInv'
  <1>1. TypeOK'
    BY NoLinkIs DEF IInv, TypeOK, Moved
  <1>2. Unique'
    BY MovedUnique DEF IInv
  <1>3. link' = link \/ ~ link'.open
    BY NoLinkIs
  <1>4. UNCHANGED <<Seen, img, valid, allInOne>> /\ ctx'.dig = ctx.dig
    BY DEF Seen
  <1>5. \A v \in Workers : /\ wk'[v].mine /\ wk'[v].pc \in {"check", "body"} =>
                                wk[v].mine /\ wk[v].pc \in {"check", "body"}
                           /\ wk'[v].mine /\ wk'[v].pc = "mark" =>
                                (wk[v].mine /\ wk[v].pc = "mark") \/ ctx.state = "finish"
    BY DEF Moved
  <1> QED
    BY <1>1, <1>2, <1>3, <1>4, <1>5, Quiet

LEMMA Leave ==
  ASSUME IInv, NEW w \in Workers, Left(w),
         ctx' = ctx \/ ctx' = [ctx EXCEPT !.hdl = FALSE, !.dig = NoDig],
         UNCHANGED <<hdr, con, asked, link, img, valid, bad, calls, allInOne>>
  PROVE  IInv'
  <1>0. PICK d : d = NoDig
    OBVIOUS
  <1>1. d \in Dig /\ ~ d.on
    BY <1>0 DEF NoDig, Dig
  <1>2. ctx \in Ctx
    BY DEF IInv, TypeOK
  <1>3. ctx' = ctx \/ ctx' = [ctx EXCEPT !.hdl = FALSE, !.dig = d]
    BY <1>0
  <1>4. ctx' \in Ctx /\ UNCHANGED Seen /\ (ctx'.dig = ctx.dig \/ ~ ctx'.dig.on) /\ ctx'.live = ctx.live
    BY <1>1, <1>2, <1>3, ZenonT(60) DEF Ctx, Seen
  <1>5. TypeOK'
    BY <1>4 DEF IInv, TypeOK, Left
  <1>6. Unique'
    BY <1>4, LeftUnique DEF IInv
  <1>7. \A v \in Workers : /\ wk'[v].mine /\ wk'[v].pc \in {"check", "body"} =>
                                wk[v].mine /\ wk[v].pc \in {"check", "body"}
                           /\ wk'[v].mine /\ wk'[v].pc = "mark" =>
                                (wk[v].mine /\ wk[v].pc = "mark") \/ ctx.state = "finish"
    BY DEF Left
  <1> QED
    BY <1>4, <1>5, <1>6, <1>7, Quiet

LEMMA Pcs ==
  /\ {"idle", "start", "init", "resume", "resume2", "check", "body", "fin", "mark", "reboot",
      "status", "suspend", "free"} = WkPc
  /\ InsidePc \subseteq WkPc
  BY DEF WkPc, InsidePc

LEMMA InitIInv == Init => IInv
  <1> SUFFICES ASSUME Init PROVE IInv
    OBVIOUS
  <1>1. /\ ctx = NoCtx /\ hdr = FALSE /\ wk = [w \in Workers |-> NoWk] /\ con = "idle" /\ asked = FALSE
        /\ link = NoLink /\ img = [i \in Images |-> NoImg] /\ valid = FALSE /\ bad = "none"
        /\ calls = 0 /\ allInOne \in Formats
    BY Zenon DEF Init
  <1>2. TypeOK
    <2>1. wk \in [Workers -> Wk]
      BY <1>1, NoWkIs
    <2>2. img \in [Images -> [made : BOOLEAN, n : Nat, good : BOOLEAN, blind : BOOLEAN]]
      <3>1. NoImg \in [made : BOOLEAN, n : Nat, good : BOOLEAN, blind : BOOLEAN]
        BY DEF NoImg
      <3> QED
        BY <1>1, <3>1
    <2>3. ctx \in Ctx /\ link \in [open : BOOLEAN, file : Nat, pos : Nat]
      BY <1>1, NoCtxIs, NoLinkIs
    <2> QED
      BY <1>1, <2>1, <2>2, <2>3 DEF TypeOK
  <1>3. \A w \in Workers : ~ wk[w].mine /\ wk[w].pc = "idle"
    BY <1>1, NoWkIs
  <1>4. /\ ctx.state = "not_start" /\ ctx.first /\ ~ ctx.cfgbuf /\ ctx.idx = 1 /\ ctx.len = 0
        /\ ctx.buf = NoBuf /\ ~ ctx.live
    BY <1>1, NoCtxIs
  <1>5. Unique
    BY <1>3 DEF Unique
  <1>6. Bounds
    BY <1>4 DEF Bounds, NoBuf, Past
  <1>7. Written
    BY <1>4 DEF Written, Past
  <1>8. Verdict
    BY <1>1, <1>3, <1>4 DEF Verdict
  <1>9. Stream
    BY <1>4 DEF Stream
  <1> QED
    BY <1>2, <1>5, <1>6, <1>7, <1>8, <1>9 DEF IInv

LEMMA EnterIInv ==
  ASSUME IInv, NEW w \in Workers,
         StartCheck(w) \/ ResumeCheck(w) \/ LoopCheck(w) \/ StaleContext(w)
  PROVE  IInv'
  <1> USE Pcs
  <1>0. TypeOK /\ Unique
    BY DEF IInv
  <1>1. CASE StartCheck(w)
    <2>1. Left(w) \/ Moved(w, "init")
      BY <1>0, <1>1, GoMoves, ReturnMoves DEF StartCheck
    <2>2. wk[w].pc = "start" /\ ~ wk[w].mine
      BY <1>0, <1>1 DEF StartCheck, At, Unique, InsidePc
    <2>3. UNCHANGED <<ctx, hdr, con, asked, link, img, valid, bad, calls, allInOne>>
      BY <1>1 DEF StartCheck
    <2>4. CASE Left(w)
      BY <2>3, <2>4, Leave
    <2>5. CASE Moved(w, "init")
      BY <2>2, <2>3, <2>5, Walk
    <2> QED
      BY <2>1, <2>4, <2>5
  <1>2. CASE ResumeCheck(w)
    <2>1. Left(w) \/ Moved(w, "resume2")
      BY <1>0, <1>2, GoMoves, ReturnMoves DEF ResumeCheck
    <2>2. wk[w].pc = "resume" /\ ~ wk[w].mine
      BY <1>0, <1>2 DEF ResumeCheck, At, Unique, InsidePc
    <2>3. UNCHANGED <<ctx, hdr, con, asked, link, img, valid, bad, calls, allInOne>>
      BY <1>2 DEF ResumeCheck
    <2>4. CASE Left(w)
      BY <2>3, <2>4, Leave
    <2>5. CASE Moved(w, "resume2")
      BY <2>2, <2>3, <2>5, Walk
    <2> QED
      BY <2>1, <2>4, <2>5
  <1>3. CASE LoopCheck(w)
    <2>1. Moved(w, "body") \/ Moved(w, "fin")
      BY <1>0, <1>3, GoMoves, FinMoves DEF LoopCheck
    <2>2. wk[w].pc = "check"
      BY <1>3 DEF LoopCheck, At
    <2>3. UNCHANGED <<ctx, hdr, con, asked, link, img, valid, bad, calls, allInOne>>
      BY <1>3 DEF LoopCheck
    <2>4. CASE Moved(w, "body")
      BY <2>2, <2>3, <2>4, Walk DEF InsidePc
    <2>5. CASE Moved(w, "fin")
      BY <2>2, <2>3, <2>5, Walk DEF InsidePc
    <2> QED
      BY <2>1, <2>4, <2>5
  <1>4. CASE StaleContext(w)
    <2>1. UNCHANGED <<ctx, hdr, wk, con, asked, link, img, valid, calls, allInOne>> /\ bad' = "stale"
      BY <1>4 DEF StaleContext
    <2>2. TypeOK' /\ Unique'
      BY <1>0, <2>1 DEF TypeOK, Unique
    <2> QED
      BY <2>1, <2>2, Quiet DEF Seen
  <1> QED
    BY <1>1, <1>2, <1>3, <1>4

LEMMA SessionInitIInv ==
  ASSUME IInv, NEW w \in Workers, SessionInit(w)
  PROVE  IInv'
  <1> USE Pcs
  <1>0. /\ TypeOK /\ Unique /\ wk[w].pc = "init"
        /\ UNCHANGED <<con, asked, link, img, valid, bad, calls, allInOne>>
    BY DEF IInv, SessionInit, At
  <1>9. /\ Orphaned \in [Workers -> Wk]
        /\ \A v \in Workers : Orphaned[v].pc = wk[v].pc /\ ~ Orphaned[v].mine
    BY <1>0, OrphanedIs
  <1>1. CASE /\ ctx' = NewCtx /\ UNCHANGED hdr
             /\ \E p \in {"check"} \cup (IF EnvFails THEN {"fin"} ELSE {}) :
                  wk' = [Orphaned EXCEPT ![w] = [pc |-> p, mine |-> TRUE, marked |-> FALSE,
                                                 ret |-> IF p = "fin" THEN "err" ELSE "ok"]]
    <2>1. PICK p \in {"check", "fin"} :
            wk' = [Orphaned EXCEPT ![w] = [pc |-> p, mine |-> TRUE, marked |-> FALSE,
                                           ret |-> IF p = "fin" THEN "err" ELSE "ok"]]
      BY <1>1
    <2> DEFINE r == [pc |-> p, mine |-> TRUE, marked |-> FALSE, ret |-> IF p = "fin" THEN "err" ELSE "ok"]
    <2>2. r \in Wk /\ r.pc = p /\ r.mine
      BY DEF Wk
    <2>3. wk' = [Orphaned EXCEPT ![w] = r]
      BY <2>1
    <2> HIDE DEF r
    <2>4. /\ wk' \in [Workers -> Wk] /\ wk'[w] = r
          /\ \A v \in Workers : v # w => wk'[v] = Orphaned[v]
      BY <1>9, <2>2, <2>3
    <2>5. /\ wk'[w].pc = p /\ wk'[w].mine
          /\ \A v \in Workers : v # w => wk'[v].pc = wk[v].pc /\ ~ wk'[v].mine
      BY <1>9, <2>2, <2>4
    <2>6. ctx' = NewCtx /\ hdr' = hdr
      BY <1>1
    <2>7. ctx' \in Ctx /\ ctx'.live
      BY <2>6, NewCtxIs
    <2>8. TypeOK'
      BY <1>0, <2>4, <2>6, <2>7 DEF TypeOK
    <2>9. Unique'
      BY <1>0, <2>5, <2>7 DEF Unique, InsidePc
    <2>10. \A v \in Workers : wk'[v].mine => wk'[v].pc # "mark"
      BY <2>5
    <2>11. /\ ctx'.state = "not_start" /\ ctx'.first /\ ~ ctx'.cfgbuf /\ ctx'.idx = 1
           /\ ctx'.len = 0 /\ ctx'.buf = NoBuf /\ ctx'.dl = Images
      BY <2>6, NewCtxIs
    <2> QED
      BY <1>0, <2>8, <2>9, <2>10, <2>11, Fresh
  <1>2. CASE SessionFin /\ wk' = [Orphaned EXCEPT ![w].pc = "idle", ![w].ret = "err"]
    <2>1. ctx' = NoCtx /\ hdr' = FALSE
      BY <1>2 DEF SessionFin
    <2>2. /\ wk' \in [Workers -> Wk] /\ wk'[w].pc = "idle"
          /\ \A v \in Workers : ~ wk'[v].mine /\ (v # w => wk'[v].pc = wk[v].pc)
      <3>1. PICK q : q = Orphaned
        OBVIOUS
      <3>2. q \in [Workers -> Wk] /\ \A v \in Workers : q[v].pc = wk[v].pc /\ ~ q[v].mine
        BY <1>9, <3>1
      <3>3. wk' = [q EXCEPT ![w].pc = "idle", ![w].ret = "err"]
        BY <1>2, <3>1
      <3>4. /\ wk' \in [Workers -> Wk] /\ wk'[w].pc = "idle" /\ wk'[w].mine = q[w].mine
            /\ \A v \in Workers : v # w => wk'[v] = q[v]
        BY <3>2, <3>3, Dropped
      <3> QED
        BY <3>2, <3>4
    <2>3. TypeOK'
      BY <1>0, <2>1, <2>2, NoCtxIs DEF TypeOK
    <2>4. Unique'
      BY <1>0, <2>2 DEF Unique
    <2>5. /\ ctx'.state = "not_start" /\ ctx'.first /\ ~ ctx'.cfgbuf /\ ctx'.idx = 1
          /\ ctx'.len = 0 /\ ctx'.buf = NoBuf /\ ~ ctx'.live
      BY <2>1, NoCtxIs
    <2> QED
      BY <1>0, <2>2, <2>3, <2>4, <2>5, Fresh
  <1> QED
    BY <1>1, <1>2 DEF SessionInit

\* A context whose status alone has changed.
LEMMA StatusIs ==
  ASSUME ctx \in Ctx, NEW t \in {"not_start", "running", "cancel", "suspend"},
         ctx' = [ctx EXCEPT !.status = t]
  PROVE  ctx' \in Ctx /\ UNCHANGED Seen /\ ctx'.dig = ctx.dig /\ ctx'.status = t /\ ctx'.live = ctx.live
  BY DEF Ctx, Seen

\* A worker's record is replaced.
LEMMA Replaced ==
  ASSUME NEW q \in [Workers -> Wk], NEW w \in Workers, NEW r \in Wk, wk' = [q EXCEPT ![w] = r]
  PROVE  /\ wk' \in [Workers -> Wk] /\ wk'[w] = r
         /\ \A v \in Workers : v # w => wk'[v] = q[v]
  OBVIOUS

LEMMA NewWkIs ==
  ASSUME NEW p \in WkPc
  PROVE  /\ [NoWk EXCEPT !.pc = p] \in Wk
         /\ [NoWk EXCEPT !.pc = p].pc = p /\ ~ [NoWk EXCEPT !.pc = p].mine
         /\ ~ [NoWk EXCEPT !.pc = p].marked
         /\ [NoWk EXCEPT !.pc = p, !.mine = TRUE] \in Wk
         /\ [NoWk EXCEPT !.pc = p, !.mine = TRUE].pc = p /\ [NoWk EXCEPT !.pc = p, !.mine = TRUE].mine
         /\ ~ [NoWk EXCEPT !.pc = p, !.mine = TRUE].marked
         /\ [NoWk EXCEPT !.pc = p, !.ret = "err", !.mine = TRUE] \in Wk
         /\ [NoWk EXCEPT !.pc = p, !.ret = "err", !.mine = TRUE].pc = p
         /\ [NoWk EXCEPT !.pc = p, !.ret = "err", !.mine = TRUE].mine
         /\ ~ [NoWk EXCEPT !.pc = p, !.ret = "err", !.mine = TRUE].marked
  <1>1. PICK k : k = NoWk
    OBVIOUS
  <1>2. k \in Wk /\ ~ k.mine /\ ~ k.marked
    BY <1>1, NoWkIs
  <1>3. [k EXCEPT !.pc = p] \in Wk /\ [k EXCEPT !.pc = p].pc = p /\ ~ [k EXCEPT !.pc = p].mine
        /\ ~ [k EXCEPT !.pc = p].marked
    BY <1>2 DEF Wk
  <1>4. /\ [k EXCEPT !.pc = p, !.mine = TRUE] \in Wk
        /\ [k EXCEPT !.pc = p, !.mine = TRUE].pc = p /\ [k EXCEPT !.pc = p, !.mine = TRUE].mine
        /\ ~ [k EXCEPT !.pc = p, !.mine = TRUE].marked
    BY <1>2 DEF Wk
  <1>5. /\ [k EXCEPT !.pc = p, !.ret = "err", !.mine = TRUE] \in Wk
        /\ [k EXCEPT !.pc = p, !.ret = "err", !.mine = TRUE].pc = p
        /\ [k EXCEPT !.pc = p, !.ret = "err", !.mine = TRUE].mine
        /\ ~ [k EXCEPT !.pc = p, !.ret = "err", !.mine = TRUE].marked
    BY <1>2 DEF Wk
  <1> QED
    BY <1>1, <1>3, <1>4, <1>5

\* Worker w is let into a suspended session: nobody else is in it.
LEMMA EnterUnique ==
  ASSUME TypeOK, Unique, NEW w \in Workers, wk[w].pc \in {"resume", "resume2"}, NEW p \in InsidePc,
         wk' \in [Workers -> Wk], wk'[w].pc = p, ctx'.live,
         \A v \in Workers : v # w => wk'[v] = wk[v]
  PROVE  Unique' /\ \A v \in Workers : wk'[v].mine => v = w
  <1>1. \A v \in Workers : v # w => wk'[v].pc = "idle" /\ ~ wk'[v].mine
    BY DEF Unique, InsidePc
  <1> QED
    BY <1>1 DEF Unique, InsidePc

LEMMA ResumeGoIInv ==
  ASSUME IInv, NEW w \in Workers, ResumeGo(w)
  PROVE  IInv'
  <1>0. /\ TypeOK /\ Unique /\ wk[w].pc = "resume2" /\ ctx \in Ctx /\ wk \in [Workers -> Wk]
        /\ UNCHANGED <<hdr, con, asked, link, img, valid, bad, calls, allInOne>>
    BY DEF IInv, ResumeGo, At, TypeOK
  <1>1. CASE Return(w, "err") /\ UNCHANGED ctx
    <2>1. Left(w)
      BY <1>0, <1>1, ReturnMoves
    <2> QED
      BY <1>0, <1>1, <2>1, Leave
  <1>2. CASE /\ ctx.live
             /\ ctx' = [ctx EXCEPT !.status = "running",
                          !.state = IF @ \in EarlyState THEN @ ELSE "resume_service"]
             /\ wk' = [wk EXCEPT ![w] = [NoWk EXCEPT !.pc = "check", !.mine = TRUE]]
    <2>1. /\ wk' \in [Workers -> Wk] /\ wk'[w].pc = "check" /\ wk'[w].mine
          /\ \A v \in Workers : v # w => wk'[v] = wk[v]
      <3>1. "check" \in WkPc
        BY DEF WkPc
      <3>2. PICK r : r = [NoWk EXCEPT !.pc = "check", !.mine = TRUE]
        OBVIOUS
      <3>3. r \in Wk /\ r.pc = "check" /\ r.mine
        BY <3>1, <3>2, NewWkIs
      <3>4. wk' = [wk EXCEPT ![w] = r]
        BY <1>2, <3>2
      <3> QED
        BY <1>0, <3>3, <3>4, Replaced
    <2>2. /\ ctx' \in Ctx /\ ctx'.live /\ ctx'.first = ctx.first
          /\ ctx'.state = IF ctx.state \in EarlyState THEN ctx.state ELSE "resume_service"
          /\ ctx'.cfgbuf = ctx.cfgbuf /\ ctx'.idx = ctx.idx /\ ctx'.len = ctx.len
          /\ ctx'.wrt = ctx.wrt /\ ctx'.read = ctx.read /\ ctx'.dl = ctx.dl /\ ctx'.buf = ctx.buf
          /\ ctx'.dig = ctx.dig
      <3>1. "resume_service" \in State
        BY DEF State
      <3> QED
        BY <1>0, <1>2, <3>1 DEF Ctx
    <2>3. TypeOK'
      BY <1>0, <2>1, <2>2 DEF TypeOK
    <2>4. Unique' /\ \A v \in Workers : wk'[v].mine => v = w
      BY <1>0, <2>1, <2>2, EnterUnique DEF InsidePc
    <2>5. ctx.state \notin EarlyState => ctx.state \in Past /\ ctx'.state = "resume_service"
      BY <1>0, <2>2 DEF Ctx, Past, EarlyState
    <2>6. ctx.state \in EarlyState => ctx'.state = ctx.state
      BY <2>2
    <2>7. (\A i : Whole(i)' <=> Whole(i)) /\ (Complete' <=> Complete) /\ Pos' = Pos
      BY <1>0, <2>2 DEF Whole, Complete, Pos
    <2>8. Bounds'
      <3>1. CASE ctx.state \in EarlyState
        BY <2>2, <2>6, <3>1 DEF IInv, Bounds
      <3>2. CASE ctx.state \notin EarlyState
        BY <2>2, <2>5, <3>2 DEF IInv, Bounds, EarlyState, Past, State
      <3> QED
        BY <3>1, <3>2
    <2>9. Written'
      <3>1. ctx'.state \in Past => ctx.state \in Past
        BY <2>5, <2>6
      <3>2. ctx'.state \notin {"receive", "image", "resume_server"}
        BY <2>2 DEF EarlyState
      <3>3. ctx'.state \in EarlyState \cup {"disconnect"} => ctx'.state = ctx.state
        BY <2>2 DEF EarlyState
      <3> QED
        BY <1>0, <2>2, <2>7, <3>1, <3>2, <3>3 DEF IInv, Written
    <2>10. Verdict'
      <3>1. \A v \in Workers : wk'[v].mine => wk'[v].pc # "mark"
        BY <2>1, <2>4
      <3>2. valid' /\ ctx'.state \in Past =>
              ctx'.state \in {"finish", "resume_service"} /\ ctx'.idx = Last
        BY <1>0, <2>2, <2>5, <2>6 DEF IInv, Verdict
      <3>3. ctx'.state \notin {"dup_fs", "finish"}
        BY <2>2 DEF EarlyState
      <3>4. ctx'.live /\ allInOne' => ctx'.dl = Images
        BY <1>0, <1>2, <2>2 DEF IInv, Verdict
      <3> QED
        BY <1>0, <2>7, <3>1, <3>2, <3>3, <3>4 DEF IInv, Verdict
    <2>11. Stream'
      <3>1. CASE ctx.state \in EarlyState
        BY <1>0, <2>2, <2>6, <2>7, <3>1 DEF IInv, Stream
      <3>2. CASE ctx.state \notin EarlyState
        BY <1>0, <2>2, <2>5, <2>7, <3>2 DEF IInv, Stream, EarlyState
      <3> QED
        BY <3>1, <3>2
    <2> QED
      BY <2>3, <2>4, <2>8, <2>9, <2>10, <2>11 DEF IInv
  <1>3. CASE /\ ctx.live /\ ctx' = [ctx EXCEPT !.status = "not_start"]
             /\ wk' = [wk EXCEPT ![w] = [NoWk EXCEPT !.pc = "fin", !.ret = "err", !.mine = TRUE]]
    <2>1. /\ wk' \in [Workers -> Wk] /\ wk'[w].pc = "fin" /\ wk'[w].mine
          /\ \A v \in Workers : v # w => wk'[v] = wk[v]
      <3>1. "fin" \in WkPc
        BY DEF WkPc
      <3>2. PICK r : r = [NoWk EXCEPT !.pc = "fin", !.ret = "err", !.mine = TRUE]
        OBVIOUS
      <3>3. r \in Wk /\ r.pc = "fin" /\ r.mine
        BY <3>1, <3>2, NewWkIs
      <3>4. wk' = [wk EXCEPT ![w] = r]
        BY <1>3, <3>2
      <3> QED
        BY <1>0, <3>3, <3>4, Replaced
    <2>2. ctx' \in Ctx /\ UNCHANGED Seen /\ ctx'.dig = ctx.dig /\ ctx'.live
      BY <1>0, <1>3, StatusIs
    <2>3. TypeOK'
      BY <1>0, <2>1, <2>2 DEF TypeOK
    <2>4. Unique' /\ \A v \in Workers : wk'[v].mine => v = w
      BY <1>0, <2>1, <2>2, EnterUnique DEF InsidePc
    <2>5. \A v \in Workers : wk'[v].mine => wk'[v].pc = "fin"
      BY <2>1, <2>4
    <2> QED
      BY <1>0, <2>2, <2>3, <2>4, <2>5, Quiet
  <1> QED
    BY <1>1, <1>2, <1>3 DEF ResumeGo

LEMMA FinalizeIInv ==
  ASSUME IInv, NEW w \in Workers,
         \/ Finalize(w) \/ FinalizeMark(w) \/ FinalizeReboot(w) \/ FinalizeStatus(w)
         \/ FinalizeSuspend(w) \/ FinalizeFree(w)
  PROVE  IInv'
  <1>0. TypeOK /\ Unique /\ ctx \in Ctx /\ wk \in [Workers -> Wk]
    BY DEF IInv, TypeOK
  <1>1. CASE Finalize(w)
    <2>1. wk[w].pc = "fin" /\ UNCHANGED <<ctx, hdr, con, asked, img, valid, bad, calls, allInOne>>
      BY <1>1 DEF Finalize, At
    <2>2. CASE ~ ctx.live
      <3>1. Return(w, "err") /\ link' = link
        BY <1>1, <2>2 DEF Finalize
      <3>2. Left(w)
        BY <1>0, <3>1, ReturnMoves
      <3> QED
        BY <2>1, <3>1, <3>2, Leave
    <2>3. CASE ctx.live
      <3> DEFINE r == IF ctx.status = "cancel" THEN "cancelled"
                      ELSE IF wk[w].ret = "ok" /\ ctx.state # "finish" THEN "incomplete"
                      ELSE wk[w].ret
                 p == IF r = "ok" THEN "mark" ELSE "status"
      <3>1. wk' = [wk EXCEPT ![w].ret = r, ![w].pc = p] /\ link' = NoLink
        BY <1>1, <2>3 DEF Finalize
      <3>2. r \in {"ok", "err", "cancelled", "incomplete", "suspended"} /\ p \in WkPc
        BY <1>0 DEF Wk, WkPc
      <3>3. p \in {"mark", "status"} /\ (p = "mark" => ctx.state = "finish")
        OBVIOUS
      <3> HIDE DEF r, p
      <3>4. Moved(w, p)
        BY <1>0, <3>1, <3>2 DEF Wk, Moved
      <3>5. p \in InsidePc /\ p \notin {"check", "body", "resume", "resume2"}
        BY <3>3 DEF InsidePc
      <3> QED
        BY <2>1, <3>1, <3>2, <3>3, <3>4, <3>5, Walk
    <2> QED
      BY <2>2, <2>3
  <1>2. CASE FinalizeMark(w)
    <2>1. /\ wk[w].pc = "mark" /\ wk[w].mine
          /\ UNCHANGED <<ctx, hdr, con, asked, link, img, bad, calls, allInOne>>
      BY <1>2 DEF FinalizeMark, At
    <2>2. ctx.state = "finish" /\ Complete /\ ctx.idx = Last
      BY <2>1 DEF IInv, Verdict, Bounds
    <2> DEFINE p == IF AutoReboot THEN "reboot" ELSE "status"
    <2>3. valid' \in BOOLEAN /\ wk' = [wk EXCEPT ![w].pc = p, ![w].marked = valid']
      BY <1>0, <1>2 DEF FinalizeMark, TypeOK
    <2>4. p \in WkPc /\ p \in InsidePc /\ p \notin {"check", "body", "resume", "resume2", "mark", "idle"}
      BY DEF WkPc, InsidePc
    <2> HIDE DEF p
    <2>5. Moved(w, p)
      BY <1>0, <2>3, <2>4 DEF Wk, Moved
    <2>6. TypeOK'
      BY <1>0, <2>1, <2>3, <2>5 DEF TypeOK, Moved
    <2>7. Unique'
      BY <1>0, <2>1, <2>4, <2>5, MovedUnique
    <2>8. \A v \in Workers : wk'[v].mine => wk'[v].pc # "mark"
      BY <1>0, <2>1, <2>4, <2>5 DEF Moved, Unique
    <2>9. Bounds'
      BY <2>1 DEF IInv, Bounds
    <2>10. (\A i : Whole(i)' <=> Whole(i)) /\ (Complete' <=> Complete) /\ Pos' = Pos
      BY <2>1 DEF Whole, Complete, Pos
    <2>11. Written'
      <3>1. ctx' = ctx /\ img' = img /\ ctx.state = "finish"
        BY <2>1, <2>2
      <3> QED
        BY <2>10, <3>1 DEF IInv, Written
    <2>12. Verdict'
      BY <2>1, <2>2, <2>8, <2>10 DEF IInv, Verdict
    <2>13. Stream'
      BY <2>1, <2>10 DEF IInv, Stream
    <2> QED
      BY <2>6, <2>7, <2>9, <2>11, <2>12, <2>13 DEF IInv
  <1>3. CASE FinalizeReboot(w)
    <2>1. /\ ctx' = NoCtx /\ hdr' = FALSE /\ link' = NoLink /\ wk' = [v \in Workers |-> NoWk]
          /\ con' = "idle" /\ asked' = FALSE /\ UNCHANGED <<img, valid, bad, calls, allInOne>>
      BY <1>3 DEF FinalizeReboot, SessionFin
    <2>2. wk' \in [Workers -> Wk] /\ \A v \in Workers : wk'[v].pc = "idle" /\ ~ wk'[v].mine
      BY <2>1, NoWkIs
    <2>3. TypeOK'
      BY <1>0, <2>1, <2>2, NoCtxIs, NoLinkIs DEF TypeOK
    <2>4. Unique'
      BY <2>2 DEF Unique
    <2>5. /\ ctx'.state = "not_start" /\ ctx'.first /\ ~ ctx'.cfgbuf /\ ctx'.idx = 1
          /\ ctx'.len = 0 /\ ctx'.buf = NoBuf /\ ~ ctx'.live
      BY <2>1, NoCtxIs
    <2> QED
      BY <2>1, <2>2, <2>3, <2>4, <2>5, Fresh
  <1>4. CASE FinalizeStatus(w)
    <2>1. /\ wk[w].pc = "status"
          /\ UNCHANGED <<ctx, hdr, con, asked, link, img, valid, bad, calls, allInOne>>
      BY <1>4 DEF FinalizeStatus, At
    <2>2. PICK p \in {"suspend", "free"} : Go(w, p)
      BY <1>4 DEF FinalizeStatus
    <2>3. p \in WkPc /\ p \in InsidePc /\ p \notin {"check", "body", "resume", "resume2", "mark"}
      BY DEF WkPc, InsidePc
    <2>4. Moved(w, p)
      BY <1>0, <2>2, <2>3, GoMoves
    <2> QED
      BY <2>1, <2>3, <2>4, Walk
  <1>5. CASE FinalizeSuspend(w)
    <2>1. Left(w)
      BY <1>0, <1>5, ReturnMoves DEF FinalizeSuspend
    <2> QED
      BY <1>5, <2>1, Leave DEF FinalizeSuspend
  <1>6. CASE FinalizeFree(w)
    <2>1. /\ ctx' = NoCtx /\ hdr' = FALSE /\ wk' = [Orphaned EXCEPT ![w].pc = "idle"]
          /\ UNCHANGED <<con, asked, link, img, valid, bad, calls, allInOne>>
      BY <1>6 DEF FinalizeFree, SessionFin
    <2>2. /\ wk' \in [Workers -> Wk]
          /\ \A v \in Workers : ~ wk'[v].mine /\ (wk'[v].pc = wk[v].pc \/ wk'[v].pc = "idle")
      <3>1. PICK q : q = Orphaned
        OBVIOUS
      <3>2. q \in [Workers -> Wk] /\ \A v \in Workers : q[v].pc = wk[v].pc /\ ~ q[v].mine
        BY <1>0, <3>1, OrphanedIs
      <3>3. wk' = [q EXCEPT ![w].pc = "idle"] /\ "idle" \in WkPc
        BY <2>1, <3>1 DEF WkPc
      <3>4. /\ wk' \in [Workers -> Wk] /\ wk'[w].pc = "idle" /\ wk'[w].mine = q[w].mine
            /\ \A v \in Workers : v # w => wk'[v] = q[v]
        BY <3>2, <3>3 DEF Wk
      <3> QED
        BY <3>2, <3>4
    <2>3. TypeOK'
      BY <1>0, <2>1, <2>2, NoCtxIs DEF TypeOK
    <2>4. Unique'
      BY <1>0, <2>2 DEF Unique
    <2>5. /\ ctx'.state = "not_start" /\ ctx'.first /\ ~ ctx'.cfgbuf /\ ctx'.idx = 1
          /\ ctx'.len = 0 /\ ctx'.buf = NoBuf /\ ~ ctx'.live
      BY <2>1, NoCtxIs
    <2> QED
      BY <2>1, <2>2, <2>3, <2>4, <2>5, Fresh
  <1> QED
    BY <1>1, <1>2, <1>3, <1>4, <1>5, <1>6

LEMMA ConsoleIInv ==
  ASSUME OneAtATime, IInv, ConsoleCall \/ ConsoleStep
  PROVE  IInv'
  <1>0. /\ TypeOK /\ Unique /\ ctx \in Ctx /\ wk \in [Workers -> Wk] /\ calls \in Nat
    BY DEF IInv, TypeOK
  <1>1. ASSUME NEW w \in Workers, CallStart(w) \/ CallResume(w)
        PROVE  IInv'
    <2>1. /\ UNCHANGED <<ctx, hdr, con, link, img, valid, bad, allInOne>> /\ calls' = calls + 1
          /\ wk[w].pc = "idle" /\ asked' \in BOOLEAN
      BY <1>0, <1>1 DEF CallStart, CallResume, Call, At, TypeOK, Ctx
    <2>2. PICK p \in {"start", "resume"} :
            /\ wk' = [wk EXCEPT ![w] = [NoWk EXCEPT !.pc = p]]
            /\ p = "start" /\ Polite => ~ Entering
            /\ p = "resume" /\ Polite => Idle
      BY <1>1 DEF CallStart, CallResume
    <2>3. /\ wk' \in [Workers -> Wk] /\ wk'[w].pc = p /\ ~ wk'[w].mine
          /\ \A v \in Workers : v # w => wk'[v] = wk[v]
      <3>1. p \in WkPc
        BY DEF WkPc
      <3>2. PICK r : r = [NoWk EXCEPT !.pc = p]
        OBVIOUS
      <3>3. r \in Wk /\ r.pc = p /\ ~ r.mine
        BY <3>1, <3>2, NewWkIs
      <3>4. wk' = [wk EXCEPT ![w] = r]
        BY <2>2, <3>2
      <3> QED
        BY <1>0, <3>3, <3>4, Replaced
    <2>4. TypeOK'
      BY <1>0, <2>1, <2>3 DEF TypeOK
    <2>5. \A v \in Workers : v # w => /\ wk[v].pc \notin {"resume", "resume2"}
                                      /\ p = "resume" => wk[v].pc = "idle"
      BY <2>2 DEF OneAtATime, Entering, Idle
    <2>6. Unique'
      BY <1>0, <2>1, <2>3, <2>5 DEF Unique
    <2>7. \A v \in Workers : wk'[v].mine => wk'[v] = wk[v]
      BY <2>3
    <2> QED
      BY <2>1, <2>4, <2>6, <2>7, Quiet DEF Seen
  <1>2. CASE CallCancel \/ CallSuspend
    <2>1. /\ UNCHANGED <<ctx, hdr, wk, asked, link, img, valid, bad, allInOne>> /\ calls' = calls + 1
          /\ con' \in {"idle", "cancel", "set_suspend"}
      BY <1>2 DEF CallCancel, CallSuspend, Call
    <2>2. TypeOK' /\ Unique'
      BY <1>0, <2>1 DEF TypeOK, Unique
    <2> QED
      BY <2>1, <2>2, Quiet DEF Seen
  <1>3. CASE CancelStatus
    <2>1. /\ UNCHANGED <<ctx, hdr, wk, asked, link, img, valid, bad, calls, allInOne>>
          /\ con' \in {"set_cancel", "fin"}
      BY <1>3 DEF CancelStatus
    <2>2. TypeOK' /\ Unique'
      BY <1>0, <2>1 DEF TypeOK, Unique
    <2> QED
      BY <2>1, <2>2, Quiet DEF Seen
  <1>4. CASE CancelSet \/ SuspendSet
    <2>1. /\ UNCHANGED <<hdr, wk, link, img, valid, bad, calls, allInOne>>
          /\ con' = "idle" /\ asked' \in BOOLEAN
          /\ \/ ctx' = ctx \/ ctx' = [ctx EXCEPT !.status = "cancel"]
             \/ ctx' = [ctx EXCEPT !.status = "suspend"]
      BY <1>0, <1>4 DEF CancelSet, SuspendSet, Ctx
    <2>2. ctx' \in Ctx /\ UNCHANGED Seen /\ ctx'.dig = ctx.dig /\ ctx'.live = ctx.live
      <3>1. CASE ctx' = ctx
        BY <1>0, <3>1 DEF Seen
      <3>2. CASE ctx' = [ctx EXCEPT !.status = "cancel"]
        BY <1>0, <3>2, StatusIs
      <3>3. CASE ctx' = [ctx EXCEPT !.status = "suspend"]
        BY <1>0, <3>3, StatusIs
      <3> QED
        BY <2>1, <3>1, <3>2, <3>3
    <2>3. TypeOK' /\ Unique'
      BY <1>0, <2>1, <2>2 DEF TypeOK, Unique
    <2> QED
      BY <2>1, <2>2, <2>3, Quiet
  <1>5. CASE CancelFin
    <2>1. /\ ctx' = NoCtx /\ hdr' = FALSE /\ wk' = Orphaned /\ con' = "idle" /\ asked' = FALSE
          /\ UNCHANGED <<link, img, valid, bad, calls, allInOne>>
      BY <1>5 DEF CancelFin, SessionFin
    <2>2. wk' \in [Workers -> Wk] /\ \A v \in Workers : wk'[v].pc = wk[v].pc /\ ~ wk'[v].mine
      BY <1>0, <2>1, OrphanedIs
    <2>3. TypeOK'
      BY <1>0, <2>1, <2>2, NoCtxIs DEF TypeOK
    <2>4. Unique'
      BY <1>0, <2>2 DEF Unique
    <2>5. /\ ctx'.state = "not_start" /\ ctx'.first /\ ~ ctx'.cfgbuf /\ ctx'.idx = 1
          /\ ctx'.len = 0 /\ ctx'.buf = NoBuf /\ ~ ctx'.live
      BY <2>1, NoCtxIs
    <2> QED
      BY <2>1, <2>2, <2>3, <2>4, <2>5, Fresh
  <1> QED
    BY <1>1, <1>2, <1>3, <1>4, <1>5 DEF ConsoleCall, ConsoleStep

-----------------------------------------------------------------------------
(* The state machine.                                                      *)

LEMMA BodyFrame ==
  ASSUME TypeOK, Unique, NEW w \in Workers, wk[w].pc = "body", wk[w].mine, ctx'.live,
         wk' = wk \/ Moved(w, "check") \/ Moved(w, "fin")
  PROVE  /\ Unique' /\ wk' \in [Workers -> Wk]
         /\ \A v \in Workers : wk'[v].mine => v = w /\ wk'[v].pc \in {"check", "body", "fin"}
  <1>1. wk' \in [Workers -> Wk]
    BY DEF TypeOK, Moved
  <1>2. wk'[w].pc \in {"check", "body", "fin"} /\ wk'[w].mine /\ \A v \in Workers : v # w => wk'[v] = wk[v]
    BY DEF Moved
  <1>3. \A v \in Workers : v # w => ~ wk'[v].mine
    BY <1>2 DEF Unique
  <1>4. Unique'
    BY <1>2, <1>3 DEF Unique, InsidePc
  <1> QED
    BY <1>1, <1>2, <1>3, <1>4

\* The worker gives up.
LEMMA BodyFails ==
  ASSUME IInv, NEW w \in Workers, wk[w].pc = "body", Moved(w, "fin"),
         UNCHANGED <<ctx, hdr, con, asked, link, img, valid, bad, calls, allInOne>>
  PROVE  IInv'
  <1>1. "fin" \in WkPc /\ "fin" \in InsidePc
    BY DEF WkPc, InsidePc
  <1> QED
    BY <1>1, Walk

LEMMA BodyAt ==
  ASSUME IInv, NEW w \in Workers, NEW s, Body(w, s)
  PROVE  /\ TypeOK /\ Unique /\ wk[w].pc = "body" /\ wk[w].mine /\ ctx.live /\ ctx.state = s
         /\ ctx \in Ctx /\ wk \in [Workers -> Wk]
  BY DEF IInv, TypeOK, Unique, Body, At

LEMMA NextMoves ==
  ASSUME TypeOK, NEW w \in Workers, Go(w, "check")
  PROVE  Moved(w, "check")
  <1>1. "check" \in WkPc
    BY DEF WkPc
  <1> QED
    BY <1>1, GoMoves

\* What is left of the invariant after a step of the state machine.
LEMMA BodyInv ==
  ASSUME IInv, NEW w \in Workers, wk[w].pc = "body", wk[w].mine, ctx' \in Ctx, ctx'.live,
         wk' = wk \/ Moved(w, "check") \/ Moved(w, "fin"),
         hdr' \in BOOLEAN, bad' \in {"none", "stale", "null"}, valid' \in BOOLEAN,
         link' \in [open : BOOLEAN, file : Nat, pos : Nat],
         img' \in [Images -> [made : BOOLEAN, n : Nat, good : BOOLEAN, blind : BOOLEAN]],
         UNCHANGED <<con, asked, calls, allInOne>>,
         Bounds', Written', Stream',
         valid' => Complete',
         valid' /\ ctx'.state \in Past => ctx'.state \in {"finish", "resume_service"} /\ ctx'.idx = Last,
         ctx'.state \in {"dup_fs", "finish"} => Complete',
         allInOne => ctx'.dl = Images
  PROVE  IInv'
  <1>0. TypeOK /\ Unique
    BY DEF IInv
  <1>1. /\ Unique' /\ wk' \in [Workers -> Wk]
        /\ \A v \in Workers : wk'[v].mine => wk'[v].pc # "mark"
    BY <1>0, BodyFrame
  <1>2. TypeOK'
    BY <1>0, <1>1 DEF TypeOK
  <1>3. Verdict'
    BY <1>1 DEF Verdict
  <1> QED
    BY <1>1, <1>2, <1>3 DEF IInv

LEMMA BodyPlainIInv ==
  ASSUME IInv, NEW w \in Workers, BodyPlain(w)
  PROVE  IInv'
  <1>1. PICK s \in DOMAIN Follow :
          \/ Body(w, s) /\ Next2(w, ctx, Follow[s])
          \/ Body(w, s) /\ Fin(w, "err") /\ UNCHANGED ctx
    BY DEF BodyPlain, BodyFail
  <1>2. UNCHANGED <<hdr, con, asked, link, img, valid, bad, calls, allInOne>>
    BY DEF BodyPlain
  <1>3. /\ TypeOK /\ Unique /\ wk[w].pc = "body" /\ wk[w].mine /\ ctx.live /\ ctx.state = s
        /\ ctx \in Ctx /\ wk \in [Workers -> Wk]
    BY <1>1, BodyAt
  <1>4. CASE Body(w, s) /\ Fin(w, "err") /\ UNCHANGED ctx
    <2>1. Moved(w, "fin")
      BY <1>3, <1>4, FinMoves
    <2> QED
      BY <1>2, <1>3, <1>4, <2>1, BodyFails
  <1>5. CASE Next2(w, ctx, Follow[s])
    <2>1. PICK t : ctx' = [ctx EXCEPT !.state = t] /\ t = Follow[s] /\ Go(w, "check")
      BY <1>5 DEF Next2
    <2>2. \/ s = "not_start" /\ t = "trial_info"
          \/ s = "trial_info" /\ t = "erase_fwd"
          \/ s = "erase_fs" /\ t = "prepare_fs"
          \/ s = "prepare_fs" /\ t = "prepare_connect"
          \/ s = "dup_fs" /\ t = "finish"
      BY <2>1 DEF Follow
    <2>3. Moved(w, "check")
      BY <1>3, <2>1, NextMoves
    <2>4. t \in State
      BY <2>2 DEF State, EarlyState
    <2>5. /\ ctx' \in Ctx /\ ctx'.live /\ ctx'.state = t /\ ctx'.first = ctx.first
          /\ ctx'.cfgbuf = ctx.cfgbuf /\ ctx'.idx = ctx.idx /\ ctx'.len = ctx.len
          /\ ctx'.wrt = ctx.wrt /\ ctx'.read = ctx.read /\ ctx'.dl = ctx.dl /\ ctx'.buf = ctx.buf
          /\ ctx'.dig = ctx.dig
      BY <1>3, <2>1, <2>4 DEF Ctx
    <2>6. /\ t \in Past <=> s \in Past
          /\ t \notin {"connect", "resume_server", "receive", "config", "image", "disconnect", "dup_images"}
          /\ t \in EarlyState <=> s \in EarlyState
          /\ t = "finish" <=> s = "dup_fs"
          /\ t # "dup_fs" /\ s # "finish" /\ s # "resume_service"
      BY <2>2 DEF Past, State, EarlyState
    <2>7. (\A i : Whole(i)' <=> Whole(i)) /\ (Complete' <=> Complete) /\ Pos' = Pos
      BY <1>2, <2>5 DEF Whole, Complete, Pos
    <2>8. Bounds'
      BY <1>3, <2>5, <2>6 DEF IInv, Bounds
    <2>9. Written'
      BY <1>2, <1>3, <2>5, <2>6, <2>7 DEF IInv, Written
    <2>10. Stream'
      BY <1>2, <1>3, <2>5, <2>6, <2>7 DEF IInv, Stream
    <2>11. /\ valid' => Complete'
           /\ valid' /\ ctx'.state \in Past => ctx'.state \in {"finish", "resume_service"} /\ ctx'.idx = Last
           /\ ctx'.state \in {"dup_fs", "finish"} => Complete'
           /\ allInOne => ctx'.dl = Images
      BY <1>2, <1>3, <2>5, <2>6, <2>7 DEF IInv, Verdict
    <2> QED
      BY <1>2, <1>3, <2>3, <2>5, <2>8, <2>9, <2>10, <2>11, BodyInv DEF TypeOK
  <1> QED
    BY <1>1, <1>4, <1>5

LEMMA BodyEraseFwdIInv ==
  ASSUME IInv, NEW w \in Workers, BodyEraseFwd(w)
  PROVE  IInv'
  <1>1. Body(w, "erase_fwd") /\ UNCHANGED <<hdr, con, asked, link, bad, calls, allInOne>>
    BY DEF BodyEraseFwd, BodyFail
  <1>2. /\ TypeOK /\ Unique /\ wk[w].pc = "body" /\ wk[w].mine /\ ctx.live
        /\ ctx.state = "erase_fwd" /\ ctx \in Ctx /\ wk \in [Workers -> Wk]
    BY <1>1, BodyAt
  <1>3. CASE Fin(w, "err") /\ UNCHANGED <<ctx, valid, img>>
    <2>1. Moved(w, "fin")
      BY <1>2, <1>3, FinMoves
    <2> QED
      BY <1>1, <1>2, <1>3, <2>1, BodyFails
  <1>4. CASE Next2(w, ctx, "erase_fs") /\ valid' = FALSE /\ img' = [i \in Images |-> NoImg]
    <2>1. ctx' = [ctx EXCEPT !.state = "erase_fs"] /\ Moved(w, "check")
      BY <1>2, <1>4, NextMoves DEF Next2
    <2>2. "erase_fs" \in State /\ "erase_fs" \in EarlyState
      BY DEF State, EarlyState
    <2>3. /\ ctx' \in Ctx /\ ctx'.live /\ ctx'.state = "erase_fs" /\ ctx'.first = ctx.first
          /\ ctx'.cfgbuf = ctx.cfgbuf /\ ctx'.idx = ctx.idx /\ ctx'.len = ctx.len
          /\ ctx'.wrt = ctx.wrt /\ ctx'.dl = ctx.dl /\ ctx'.buf = ctx.buf
      BY <1>2, <2>1, <2>2 DEF Ctx
    <2>4. ctx.first /\ ctx.idx = 1 /\ ctx.len = 0
      BY <1>2 DEF IInv, Bounds, Past
    <2>5. \A i \in Images : ~ img'[i].made /\ img'[i].good
      BY <1>4 DEF NoImg
    <2>6. img' \in [Images -> [made : BOOLEAN, n : Nat, good : BOOLEAN, blind : BOOLEAN]]
      <3>1. NoImg \in [made : BOOLEAN, n : Nat, good : BOOLEAN, blind : BOOLEAN]
        BY DEF NoImg
      <3> QED
        BY <1>4, <3>1
    <2>7. Bounds'
      BY <2>3, <2>4 DEF IInv, Bounds
    <2>8. Written'
      <3>1. \A i \in Images : ~ (i < ctx'.idx)
        BY <2>3, <2>4, SessionAssumption DEF Images
      <3> QED
        BY <2>3, <2>4, <2>5, <3>1 DEF Written
    <2>9. Stream'
      BY <2>3, <2>4 DEF Stream
    <2>10. valid' = FALSE /\ (allInOne => ctx'.dl = Images) /\ link \in [open : BOOLEAN, file : Nat, pos : Nat]
           /\ hdr \in BOOLEAN /\ bad \in {"none", "stale", "null"}
      BY <1>2, <1>4, <2>3 DEF IInv, Verdict, TypeOK
    <2> QED
      BY <1>1, <1>2, <2>1, <2>3, <2>6, <2>7, <2>8, <2>9, <2>10, BodyInv
  <1> QED
    BY <1>3, <1>4 DEF BodyEraseFwd, BodyFail

\* The search of PREPARE_CONNECT finds the first image that is to be downloaded.
LEMMA NextImageIs ==
  ASSUME ctx \in Ctx
  PROVE  /\ NextImage(ctx) \in ctx.idx .. Last /\ NextImage(ctx) \in 1 .. Last
         /\ NextImage(ctx) \in Images \/ NextImage(ctx) = Last
         /\ \A j \in Images : ctx.idx <= j /\ j < NextImage(ctx) => j \notin ctx.dl
  <1> DEFINE S == {i \in Images : i >= ctx.idx /\ i \in ctx.dl}
  <1>0. Len(ImgLen) \in Nat /\ ctx.idx \in 1 .. Len(ImgLen) + 1 /\ Images = 1 .. Len(ImgLen)
    BY SessionAssumption, LenProperties DEF Ctx, Images
  <1>1. CASE S = {}
    <2>1. NextImage(ctx) = Last
      BY <1>1 DEF NextImage, Last
    <2> QED
      BY <1>0, <1>1, <2>1 DEF Last
  <1>2. CASE S # {}
    <2>1. S \in SUBSET Nat
      BY <1>0
    <2>2. \E m \in S : \A k \in S : m <= k
      <3> HIDE DEF S
      <3> QED
        BY <1>2, <2>1, Least
    <2>3. NextImage(ctx) = CHOOSE i \in S : \A j \in S : i <= j
      BY <1>2 DEF NextImage
    <2>4. NextImage(ctx) \in S /\ \A j \in S : NextImage(ctx) <= j
      <3> HIDE DEF S
      <3> QED
        BY <2>2, <2>3, Zenon
    <2>5. \A j \in Images : ctx.idx <= j /\ j < NextImage(ctx) => j \notin ctx.dl
      <3> SUFFICES ASSUME NEW j \in Images, ctx.idx <= j, j < NextImage(ctx), j \in ctx.dl PROVE FALSE
        OBVIOUS
      <3>1. j \in S
        BY <1>0
      <3> QED
        BY <1>0, <2>4, <3>1
    <2> QED
      BY <1>0, <2>4, <2>5 DEF Last
  <1> QED
    BY <1>1, <1>2

LEMMA ImagesAre == Len(ImgLen) \in Nat /\ Images = 1 .. Len(ImgLen) /\ 1 \in Images /\ Last \notin Images
                   /\ Last = Len(ImgLen) + 1 /\ \A i \in Images : ImgLen[i] \in Nat /\ i \in Nat /\ i < Last
  <1>1. ImgLen \in Seq(Nat) /\ ImgLen # <<>>
    BY SessionAssumption
  <1>2. Len(ImgLen) \in Nat /\ Len(ImgLen) # 0
    BY <1>1, LenProperties, EmptySeq
  <1> QED
    BY <1>1, <1>2, ElementOfSeq DEF Images, Last

LEMMA BodyPrepareConnectIInv ==
  ASSUME IInv, NEW w \in Workers, BodyPrepareConnect(w)
  PROVE  IInv'
  <1>0. PICK i : i = NextImage(ctx)
    OBVIOUS
  <1>1. Body(w, "prepare_connect") /\ UNCHANGED <<hdr, con, asked, link, valid, bad, calls, allInOne>>
    BY DEF BodyPrepareConnect
  <1>2. /\ TypeOK /\ Unique /\ wk[w].pc = "body" /\ wk[w].mine /\ ctx.live
        /\ ctx.state = "prepare_connect" /\ ctx \in Ctx /\ wk \in [Workers -> Wk]
    BY <1>1, BodyAt
  <1>3. /\ i \in ctx.idx .. Last /\ i \in 1 .. Last /\ (i \in Images \/ i = Last)
        /\ \A j \in Images : ctx.idx <= j /\ j < i => j \notin ctx.dl
    BY <1>0, <1>2, NextImageIs
  <1>4. /\ ctx.first \/ (i \in FsImages /\ ImgLen[i] = 0) \/ ~ (i \in FsImages /\ ImgLen[i] = 0)
        /\ ctx.first => Next2(w, ctx, "connect") /\ UNCHANGED img
        /\ ~ ctx.first /\ i \in FsImages /\ ImgLen[i] = 0 =>
             \/ /\ img' = [img EXCEPT ![i] = [NoImg EXCEPT !.made = TRUE]]
                /\ Next2(w, [ctx EXCEPT !.idx = i + 1], "prepare_connect")
             \/ Fin(w, "err") /\ UNCHANGED <<ctx, img>>
        /\ ~ ctx.first /\ ~ (i \in FsImages /\ ImgLen[i] = 0) =>
             /\ Next2(w, [ctx EXCEPT !.idx = i], IF i \in Images THEN "connect" ELSE "dup_images")
             /\ UNCHANGED img
    BY <1>0 DEF BodyPrepareConnect
  <1>5. "connect" \in State /\ "dup_images" \in State /\ "prepare_connect" \in State
        /\ "connect" \in EarlyState /\ "prepare_connect" \in EarlyState
        /\ "dup_images" \notin EarlyState
        /\ "connect" \in Past /\ "prepare_connect" \in Past /\ "dup_images" \in Past
    BY DEF State, EarlyState, Past
  <1>6. /\ ctx.len = 0 /\ ~ valid /\ (~ ctx.first => ~ allInOne) /\ (allInOne => ctx.dl = Images)
        /\ (ctx.first => ctx.idx = 1) /\ (ctx.cfgbuf => ctx.first /\ ctx.wrt < CfgLen)
        /\ ctx.buf.off <= ctx.buf.n
    BY <1>2, <1>5 DEF IInv, Bounds, Verdict, Stream
  <1>7. /\ \A j \in Images : j > ctx.idx => ~ img[j].made /\ img[j].good
        /\ \A j \in Images : j < ctx.idx /\ j \in ctx.dl => Whole(j)
        /\ ctx.idx \in Images => ~ img[ctx.idx].made /\ (ImgLen[ctx.idx] # 0 => img[ctx.idx].good)
    BY <1>2, <1>5, <1>6 DEF IInv, Written
  <1>8. /\ hdr' \in BOOLEAN /\ bad' \in {"none", "stale", "null"} /\ valid' \in BOOLEAN
        /\ link' \in [open : BOOLEAN, file : Nat, pos : Nat] /\ ~ valid'
        /\ img \in [Images -> [made : BOOLEAN, n : Nat, good : BOOLEAN, blind : BOOLEAN]]
    BY <1>1, <1>2, <1>6 DEF TypeOK
  <1>9. CASE Fin(w, "err") /\ UNCHANGED <<ctx, img>>
    <2>1. Moved(w, "fin")
      BY <1>2, <1>9, FinMoves
    <2> QED
      BY <1>1, <1>2, <1>9, <2>1, BodyFails
  <1>10. CASE ctx.first /\ Next2(w, ctx, "connect") /\ UNCHANGED img
    <2>1. ctx' = [ctx EXCEPT !.state = "connect"] /\ Moved(w, "check")
      BY <1>2, <1>10, NextMoves DEF Next2
    <2>2. /\ ctx' \in Ctx /\ ctx'.live /\ ctx'.state = "connect" /\ ctx'.first /\ ctx'.cfgbuf = ctx.cfgbuf
          /\ ctx'.idx = 1 /\ ctx'.len = 0 /\ ctx'.wrt = ctx.wrt /\ ctx'.dl = ctx.dl /\ ctx'.buf = ctx.buf
      BY <1>2, <1>5, <1>6, <1>10, <2>1 DEF Ctx
    <2>3. Bounds'
      BY <1>5, <1>6, <2>2, ImagesAre DEF Bounds
    <2>4. Written'
      <3>1. \A j : Whole(j)' <=> Whole(j)
        BY <1>10 DEF Whole
      <3> QED
        BY <1>2, <1>5, <1>6, <1>7, <1>10, <2>2, <3>1 DEF Written
    <2>5. Stream'
      BY <2>2 DEF Stream
    <2> QED
      BY <1>1, <1>2, <1>6, <1>8, <1>10, <2>1, <2>2, <2>3, <2>4, <2>5, BodyInv
  <1>11. CASE /\ ~ ctx.first /\ i \in FsImages /\ ImgLen[i] = 0
              /\ img' = [img EXCEPT ![i] = [NoImg EXCEPT !.made = TRUE]]
              /\ Next2(w, [ctx EXCEPT !.idx = i + 1], "prepare_connect")
    <2>1. ctx' = [[ctx EXCEPT !.idx = i + 1] EXCEPT !.state = "prepare_connect"] /\ Moved(w, "check")
      BY <1>2, <1>11, NextMoves DEF Next2
    <2>2. /\ i \in Images /\ i + 1 \in 1 .. Len(ImgLen) + 1 /\ i \in Nat /\ ctx.idx \in Nat /\ ctx.idx <= i
          /\ \A j \in Images : j \in Nat
      BY <1>2, <1>3, <1>11, SessionAssumption, ImagesAre DEF Ctx
    <2>3. /\ ctx' \in Ctx /\ ctx'.live /\ ctx'.state = "prepare_connect" /\ ~ ctx'.first
          /\ ~ ctx'.cfgbuf /\ ctx'.idx = i + 1 /\ ctx'.len = 0 /\ ctx'.dl = ctx.dl /\ ctx'.buf = ctx.buf
      BY <1>2, <1>5, <1>6, <1>11, <2>1, <2>2 DEF Ctx
    <2>4. /\ img' \in [Images -> [made : BOOLEAN, n : Nat, good : BOOLEAN, blind : BOOLEAN]]
          /\ img'[i].made /\ img'[i].n = 0 /\ img'[i].good /\ \A j \in Images : j # i => img'[j] = img[j]
      <3>1. PICK r : r = [NoImg EXCEPT !.made = TRUE]
        OBVIOUS
      <3>2. r \in [made : BOOLEAN, n : Nat, good : BOOLEAN, blind : BOOLEAN] /\ r.made /\ r.n = 0 /\ r.good
        BY <3>1 DEF NoImg
      <3>3. img' = [img EXCEPT ![i] = r]
        BY <1>11, <3>1
      <3> QED
        BY <1>8, <2>2, <3>2, <3>3
    <2>5. Bounds'
      BY <1>5, <1>6, <2>3 DEF Bounds, Past
    <2>6. \A j \in Images : j > i + 1 => ~ img'[j].made /\ img'[j].good
      BY <1>7, <2>2, <2>4
    <2>7. \A j \in Images : j < i + 1 /\ j \in ctx.dl => Whole(j)'
      <3>1. ASSUME NEW j \in Images, j < i, j \in ctx.dl PROVE Whole(j)'
        <4>1. Whole(j)
          BY <1>2, <1>3, <1>7, <3>1, ImagesAre DEF Ctx
        <4>2. img'[j] = img[j]
          BY <2>2, <2>4, <3>1, ImagesAre
        <4> QED
          BY <4>1, <4>2 DEF Whole
      <3>2. Whole(i)'
        BY <1>11, <2>4 DEF Whole
      <3> QED
        BY <2>2, <3>1, <3>2
    <2>8. i + 1 \in Images => ~ img'[i + 1].made /\ img'[i + 1].good
      BY <1>7, <2>2, <2>4
    <2>9. Written'
      BY <2>3, <2>6, <2>7, <2>8 DEF Written
    <2>10. Stream'
      BY <1>1, <1>6, <1>11, <2>3, <2>8 DEF Stream
    <2> QED
      BY <1>1, <1>2, <1>6, <1>8, <1>11, <2>1, <2>3, <2>4, <2>5, <2>9, <2>10, BodyInv
  <1>12. CASE /\ ~ ctx.first
              /\ Next2(w, [ctx EXCEPT !.idx = i], IF i \in Images THEN "connect" ELSE "dup_images")
              /\ UNCHANGED img
    <2>1. PICK t : /\ ctx' = [[ctx EXCEPT !.idx = i] EXCEPT !.state = t] /\ Moved(w, "check")
                   /\ t = IF i \in Images THEN "connect" ELSE "dup_images"
      BY <1>2, <1>12, NextMoves DEF Next2
    <2>2. t \in State /\ t \in {"connect", "dup_images"} /\ (t = "connect" <=> i \in Images)
      BY <1>5, <2>1
    <2>3. /\ ctx' \in Ctx /\ ctx'.live /\ ctx'.state = t /\ ~ ctx'.first
          /\ ~ ctx'.cfgbuf /\ ctx'.idx = i /\ ctx'.len = 0 /\ ctx'.dl = ctx.dl /\ ctx'.buf = ctx.buf
      BY <1>2, <1>3, <1>6, <1>12, <2>1, <2>2 DEF Ctx, Last
    <2>4. Bounds'
      BY <1>3, <1>5, <1>6, <2>2, <2>3 DEF Bounds
    <2>5. \A j \in Images : j > i => ~ img'[j].made /\ img'[j].good
      BY <1>2, <1>3, <1>7, <1>12, ImagesAre DEF Ctx
    <2>6. \A j \in Images : j < i /\ j \in ctx.dl => Whole(j)'
      <3>1. ASSUME NEW j \in Images, j < i, j \in ctx.dl PROVE Whole(j)'
        <4>1. Whole(j)
          BY <1>2, <1>3, <1>7, <3>1, ImagesAre DEF Ctx
        <4> QED
          BY <1>12, <4>1 DEF Whole
      <3> QED
        BY <3>1
    <2>7. i \in Images => ~ img'[i].made /\ (ImgLen[i] # 0 => img'[i].good)
      BY <1>2, <1>3, <1>7, <1>12, ImagesAre DEF Ctx
    <2>8. Written'
      BY <2>2, <2>3, <2>5, <2>6, <2>7 DEF Written
    <2>9. Stream'
      BY <1>1, <1>6, <1>12, <2>2, <2>3, <2>7 DEF Stream
    <2>10. ctx'.state \notin {"dup_fs", "finish"}
      BY <2>2, <2>3
    <2> QED
      BY <1>1, <1>2, <1>6, <1>8, <1>12, <2>1, <2>3, <2>4, <2>8, <2>9, <2>10, BodyInv
  <1> QED
    BY <1>4, <1>9, <1>10, <1>11, <1>12

LEMMA BodyConnectIInv ==
  ASSUME IInv, NEW w \in Workers, BodyConnect(w)
  PROVE  IInv'
  <1>1. Body(w, "connect") /\ UNCHANGED <<hdr, con, asked, img, valid, bad, calls, allInOne>>
    BY DEF BodyConnect, BodyFail
  <1>2. /\ TypeOK /\ Unique /\ wk[w].pc = "body" /\ wk[w].mine /\ ctx.live
        /\ ctx.state = "connect" /\ ctx \in Ctx /\ wk \in [Workers -> Wk]
    BY <1>1, BodyAt
  <1>3. \E s \in {"receive", "connect"} :
          /\ ctx' = [ctx EXCEPT !.read = 0, !.state = s]
          /\ s = "receive" => /\ Moved(w, "check")
                              /\ link' = [open |-> TRUE, file |-> IF ctx.first THEN 0 ELSE ctx.idx, pos |-> 0]
          /\ s = "connect" => Moved(w, "fin") /\ link' = link
    <2>1. CASE /\ Next2(w, [ctx EXCEPT !.read = 0], "receive")
               /\ link' = [open |-> TRUE, file |-> IF ctx.first THEN 0 ELSE ctx.idx, pos |-> 0]
      BY <1>2, <2>1, NextMoves DEF Next2
    <2>2. CASE Fin(w, "err") /\ ctx' = [ctx EXCEPT !.read = 0] /\ UNCHANGED link
      <3>1. Moved(w, "fin")
        BY <1>2, <2>2, FinMoves
      <3>2. ctx' = [ctx EXCEPT !.read = 0, !.state = "connect"]
        BY <1>2, <2>2 DEF Ctx
      <3> QED
        BY <2>2, <3>1, <3>2
    <2> QED
      BY <2>1, <2>2 DEF BodyConnect, BodyFail
  <1>4. PICK s \in {"receive", "connect"} :
          /\ ctx' = [ctx EXCEPT !.read = 0, !.state = s]
          /\ s = "receive" => /\ Moved(w, "check")
                              /\ link' = [open |-> TRUE, file |-> IF ctx.first THEN 0 ELSE ctx.idx, pos |-> 0]
          /\ s = "connect" => Moved(w, "fin") /\ link' = link
    BY <1>3
  <1>5. s \in State /\ s \in Past /\ "connect" \in EarlyState /\ "connect" \in Past
    BY DEF State, EarlyState, Past
  <1>6. /\ ctx' \in Ctx /\ ctx'.live /\ ctx'.state = s /\ ctx'.first = ctx.first
        /\ ctx'.cfgbuf = ctx.cfgbuf /\ ctx'.idx = ctx.idx /\ ctx'.len = ctx.len
        /\ ctx'.wrt = ctx.wrt /\ ctx'.read = 0 /\ ctx'.dl = ctx.dl /\ ctx'.buf = ctx.buf
        /\ ctx'.dig = ctx.dig
    BY <1>2, <1>4, <1>5 DEF Ctx
  <1>7. ctx.len = 0 /\ ~ valid /\ (~ ctx.first => ~ allInOne) /\ ctx.idx \in Images /\ ~ img[ctx.idx].made
    BY <1>2, <1>5 DEF IInv, Bounds, Verdict, Stream, Written
  <1>8. /\ hdr' \in BOOLEAN /\ bad' \in {"none", "stale", "null"} /\ valid' \in BOOLEAN /\ ~ valid'
        /\ link' \in [open : BOOLEAN, file : Nat, pos : Nat]
        /\ img' \in [Images -> [made : BOOLEAN, n : Nat, good : BOOLEAN, blind : BOOLEAN]]
    <2>1. ctx.idx \in Nat /\ (IF ctx.first THEN 0 ELSE ctx.idx) \in Nat
      BY <1>7, ImagesAre
    <2>2. link' \in [open : BOOLEAN, file : Nat, pos : Nat]
      <3>1. CASE s = "receive"
        <4>1. PICK f \in Nat : link' = [open |-> TRUE, file |-> f, pos |-> 0]
          BY <1>4, <2>1, <3>1
        <4> QED
          BY <4>1
      <3>2. CASE s = "connect"
        BY <1>2, <1>4, <3>2 DEF TypeOK
      <3> QED
        BY <3>1, <3>2
    <2> QED
      BY <1>1, <1>2, <1>7, <2>2 DEF TypeOK
  <1>9. Bounds'
    BY <1>2, <1>5, <1>6, <1>7 DEF IInv, Bounds
  <1>10. \A j : Whole(j)' <=> Whole(j)
    BY <1>1 DEF Whole
  <1>11. Written'
    BY <1>1, <1>2, <1>5, <1>6, <1>7, <1>10 DEF IInv, Written
  <1>12. s = "receive" => link'.pos = 0
    BY <1>4
  <1>13. Stream'
    BY <1>1, <1>6, <1>7, <1>12 DEF Stream, Pos
  <1>14. ctx'.state \notin {"dup_fs", "finish"} /\ (allInOne => ctx'.dl = Images)
    BY <1>2, <1>6 DEF IInv, Verdict
  <1>15. Moved(w, "check") \/ Moved(w, "fin")
    BY <1>4
  <1> QED
    BY <1>1, <1>2, <1>6, <1>8, <1>9, <1>11, <1>13, <1>14, <1>15, BodyInv

LEMMA BodyResumeServiceIInv ==
  ASSUME IInv, NEW w \in Workers, BodyResumeService(w)
  PROVE  IInv'
  <1>1. Body(w, "resume_service") /\ UNCHANGED <<hdr, con, asked, link, img, valid, calls, allInOne>>
    BY DEF BodyResumeService
  <1>2. /\ TypeOK /\ Unique /\ wk[w].pc = "body" /\ wk[w].mine /\ ctx.live
        /\ ctx.state = "resume_service" /\ ctx \in Ctx /\ wk \in [Workers -> Wk]
    BY <1>1, BodyAt
  <1>3. CASE bad' = "null" /\ UNCHANGED <<ctx, wk>>
    <2>1. TypeOK' /\ Unique'
      BY <1>1, <1>2, <1>3 DEF TypeOK, Unique
    <2> QED
      BY <1>1, <1>3, <2>1, Quiet DEF Seen
  <1>4. CASE Fin(w, "err") /\ UNCHANGED <<ctx, bad>>
    <2>1. Moved(w, "fin")
      BY <1>2, <1>4, FinMoves
    <2> QED
      BY <1>1, <1>2, <1>4, <2>1, BodyFails
  <1>5. CASE /\ ctx.idx \in Images /\ img[ctx.idx].made /\ UNCHANGED bad
             /\ LET c == [ctx EXCEPT !.hdl = TRUE,
                            !.dig = [on |-> TRUE, n |-> ctx.wrt, good |-> img[ctx.idx].good]]
                IN  Next2(w, c, "resume_server") \/ (Fin(w, "err") /\ ctx' = c)
    <2>1. PICK d : d = [on |-> TRUE, n |-> ctx.wrt, good |-> img[ctx.idx].good]
      OBVIOUS
    <2>2. d \in Dig /\ d.good = img[ctx.idx].good
      BY <1>2, <1>5, <2>1 DEF Dig, Ctx, TypeOK
    <2>3. \/ Next2(w, [ctx EXCEPT !.hdl = TRUE, !.dig = d], "resume_server")
          \/ Fin(w, "err") /\ ctx' = [ctx EXCEPT !.hdl = TRUE, !.dig = d]
      BY <1>5, <2>1
    <2>4. PICK s \in {"resume_server", "resume_service"} :
            /\ ctx' = [ctx EXCEPT !.hdl = TRUE, !.dig = d, !.state = s]
            /\ Moved(w, "check") \/ Moved(w, "fin")
      <3>1. CASE Next2(w, [ctx EXCEPT !.hdl = TRUE, !.dig = d], "resume_server")
        BY <1>2, <3>1, NextMoves DEF Next2
      <3>2. CASE Fin(w, "err") /\ ctx' = [ctx EXCEPT !.hdl = TRUE, !.dig = d]
        <4>1. Moved(w, "fin")
          BY <1>2, <3>2, FinMoves
        <4>2. ctx' = [ctx EXCEPT !.hdl = TRUE, !.dig = d, !.state = "resume_service"]
          BY <1>2, <3>2 DEF Ctx
        <4> QED
          BY <4>1, <4>2
      <3> QED
        BY <2>3, <3>1, <3>2
    <2>5. s \in State /\ s \in Past /\ "resume_service" \in Past /\ s \notin EarlyState /\ s # "disconnect"
      BY DEF State, EarlyState, Past
    <2>6. /\ ctx' \in Ctx /\ ctx'.live /\ ctx'.state = s /\ ctx'.first = ctx.first
          /\ ctx'.cfgbuf = ctx.cfgbuf /\ ctx'.idx = ctx.idx /\ ctx'.len = ctx.len
          /\ ctx'.wrt = ctx.wrt /\ ctx'.read = ctx.read /\ ctx'.dl = ctx.dl /\ ctx'.buf = ctx.buf
          /\ ctx'.dig.good = img[ctx.idx].good
      BY <1>2, <2>2, <2>4, <2>5 DEF Ctx
    <2>7. ~ ctx.first /\ ~ valid
      BY <1>2, <1>5, <2>5, ImagesAre DEF IInv, Written, Verdict
    <2>8. (\A i : Whole(i)' <=> Whole(i)) /\ Pos' = Pos
      BY <1>1, <2>6 DEF Whole, Pos
    <2>9. Bounds'
      BY <1>2, <1>5, <2>5, <2>6, <2>7 DEF IInv, Bounds
    <2>10. Written'
      <3>1. /\ \A i \in Images : i > ctx.idx => ~ img[i].made /\ img[i].good
            /\ \A i \in Images : i < ctx.idx /\ i \in ctx.dl => Whole(i)
            /\ ctx.len = 0 /\ ImgLen[ctx.idx] # 0 => img[ctx.idx].good
        BY <1>2, <1>5, <2>5 DEF IInv, Written
      <3> QED
        BY <1>1, <1>5, <2>5, <2>6, <2>7, <2>8, <3>1 DEF Written
    <2>11. Stream'
      BY <1>1, <1>2, <1>5, <2>5, <2>6, <2>7, <2>8 DEF IInv, Stream
    <2>12. ctx'.state \notin {"dup_fs", "finish"} /\ (allInOne => ctx'.dl = Images) /\ ~ valid'
      BY <1>1, <1>2, <2>6, <2>7 DEF IInv, Verdict
    <2> QED
      BY <1>1, <1>2, <1>5, <2>4, <2>6, <2>9, <2>10, <2>11, <2>12, BodyInv DEF TypeOK
  <1> QED
    BY <1>3, <1>4, <1>5 DEF BodyResumeService

LEMMA BodyResumeServerIInv ==
  ASSUME IInv, NEW w \in Workers, BodyResumeServer(w)
  PROVE  IInv'
  <1>1. Body(w, "resume_server") /\ UNCHANGED <<hdr, con, asked, img, valid, bad, calls, allInOne>>
    BY DEF BodyResumeServer, BodyFail
  <1>2. /\ TypeOK /\ Unique /\ wk[w].pc = "body" /\ wk[w].mine /\ ctx.live
        /\ ctx.state = "resume_server" /\ ctx \in Ctx /\ wk \in [Workers -> Wk]
    BY <1>1, BodyAt
  <1>3. CASE Fin(w, "err") /\ UNCHANGED <<ctx, link>>
    <2>1. Moved(w, "fin")
      BY <1>2, <1>3, FinMoves
    <2> QED
      BY <1>1, <1>2, <1>3, <2>1, BodyFails
  <1>4. CASE /\ Next2(w, ctx, "receive")
             /\ link' = [open |-> TRUE, file |-> IF allInOne THEN 0 ELSE ctx.idx, pos |-> ctx.read]
    <2>1. ctx' = [ctx EXCEPT !.state = "receive"] /\ Moved(w, "check")
      BY <1>2, <1>4, NextMoves DEF Next2
    <2>2. "receive" \in State /\ "receive" \in Past /\ "resume_server" \in Past /\ "receive" \notin EarlyState
      BY DEF State, EarlyState, Past
    <2>3. /\ ctx' \in Ctx /\ ctx'.live /\ ctx'.state = "receive" /\ ctx'.first = ctx.first
          /\ ctx'.cfgbuf = ctx.cfgbuf /\ ctx'.idx = ctx.idx /\ ctx'.len = ctx.len
          /\ ctx'.wrt = ctx.wrt /\ ctx'.read = ctx.read /\ ctx'.dl = ctx.dl /\ ctx'.buf = ctx.buf
          /\ ctx'.dig = ctx.dig
      BY <1>2, <2>1, <2>2 DEF Ctx
    <2>4. link' \in [open : BOOLEAN, file : Nat, pos : Nat] /\ link'.pos = ctx.read
      <3>1. PICK f \in Nat : link' = [open |-> TRUE, file |-> f, pos |-> ctx.read]
        <4>1. ctx.idx \in Nat
          BY <1>2 DEF Ctx
        <4> QED
          BY <1>4, <4>1
      <3>2. ctx.read \in Nat
        BY <1>2 DEF Ctx
      <3> QED
        BY <3>1, <3>2
    <2>5. (\A i : Whole(i)' <=> Whole(i)) /\ Pos' = Pos
      BY <1>1, <2>3 DEF Whole, Pos
    <2>6. Bounds'
      BY <1>2, <2>2, <2>3 DEF IInv, Bounds
    <2>7. Written'
      <3>1. ctx.len # 0 /\ ctx.idx \in Images => img[ctx.idx].made
        BY <1>2, <2>2 DEF IInv, Written
      <3> QED
        BY <1>1, <1>2, <2>2, <2>3, <2>5, <3>1 DEF IInv, Written
    <2>8. Stream'
      BY <1>1, <1>2, <2>2, <2>3, <2>4, <2>5 DEF IInv, Stream
    <2>9. (allInOne => ctx'.dl = Images) /\ ~ valid'
      BY <1>1, <1>2, <2>2, <2>3 DEF IInv, Verdict
    <2> QED
      BY <1>1, <1>2, <2>1, <2>3, <2>4, <2>6, <2>7, <2>8, <2>9, BodyInv DEF TypeOK
  <1> QED
    BY <1>3, <1>4 DEF BodyResumeServer, BodyFail

LEMMA BodyReceiveIInv ==
  ASSUME IInv, NEW w \in Workers, BodyReceive(w)
  PROVE  IInv'
  <1>1. Body(w, "receive") /\ UNCHANGED <<hdr, con, asked, img, valid, bad, calls, allInOne>>
    BY DEF BodyReceive
  <1>2. /\ TypeOK /\ Unique /\ wk[w].pc = "body" /\ wk[w].mine /\ ctx.live
        /\ ctx.state = "receive" /\ ctx \in Ctx /\ wk \in [Workers -> Wk]
        /\ link \in [open : BOOLEAN, file : Nat, pos : Nat]
    BY <1>1, BodyAt DEF TypeOK
  <1>3. CASE (Fin(w, "ok") \/ Fin(w, "err")) /\ UNCHANGED <<ctx, link>>
    <2>1. Moved(w, "fin")
      BY <1>2, <1>3, FinMoves
    <2> QED
      BY <1>1, <1>2, <1>3, <2>1, BodyFails
  <1>4. ASSUME NEW n \in 1 .. BufLen, NEW good \in BOOLEAN, link.open,
               Next2(w, [ctx EXCEPT !.buf = [n |-> n, off |-> 0, file |-> link.file,
                                             pos |-> link.pos, good |-> good]],
                     IF ctx.first THEN "config" ELSE "image"),
               link' = [link EXCEPT !.pos = @ + n]
        PROVE  IInv'
    <2>1. PICK b, s : /\ b = [n |-> n, off |-> 0, file |-> link.file, pos |-> link.pos, good |-> good]
                      /\ s = IF ctx.first THEN "config" ELSE "image"
      OBVIOUS
    <2>2. ctx' = [[ctx EXCEPT !.buf = b] EXCEPT !.state = s] /\ Moved(w, "check")
      BY <1>2, <1>4, <2>1, NextMoves DEF Next2
    <2>3. n \in Nat
      BY SessionAssumption
    <2>4. b \in Buf /\ b.n = n /\ b.off = 0 /\ b.pos = link.pos
      BY <1>2, <2>1, <2>3 DEF Buf
    <2>5. /\ s \in State /\ s \in Past /\ "receive" \in Past /\ s \in {"config", "image"}
          /\ s \notin EarlyState /\ (s = "config" <=> ctx.first)
      BY <2>1 DEF State, EarlyState, Past
    <2>6. /\ ctx' \in Ctx /\ ctx'.live /\ ctx'.state = s /\ ctx'.first = ctx.first
          /\ ctx'.cfgbuf = ctx.cfgbuf /\ ctx'.idx = ctx.idx /\ ctx'.len = ctx.len
          /\ ctx'.wrt = ctx.wrt /\ ctx'.read = ctx.read /\ ctx'.dl = ctx.dl /\ ctx'.buf = b
          /\ ctx'.dig = ctx.dig
      BY <1>2, <2>2, <2>4, <2>5 DEF Ctx
    <2>7. link' \in [open : BOOLEAN, file : Nat, pos : Nat] /\ link'.pos = link.pos + n
      BY <1>2, <1>4, <2>3
    <2>8. (\A i : Whole(i)' <=> Whole(i)) /\ Pos' = Pos
      BY <1>1, <2>6 DEF Whole, Pos
    <2>9. Bounds'
      BY <1>2, <2>3, <2>4, <2>5, <2>6 DEF IInv, Bounds
    <2>10. Written'
      <3>1. ctx.len # 0 /\ ctx.idx \in Images => img[ctx.idx].made
        BY <1>2, <2>5 DEF IInv, Written
      <3> QED
        BY <1>1, <1>2, <2>5, <2>6, <2>8, <3>1 DEF IInv, Written
    <2>11. Stream'
      <3>1. ~ ctx.first => link.pos = ctx.read
        BY <1>2, <1>4 DEF IInv, Stream
      <3>2. /\ ~ ctx.first /\ allInOne => ctx.read = Start[ctx.idx] + Pos
            /\ ~ ctx.first /\ ~ allInOne /\ ctx.idx \in Images => ctx.read = Pos
        BY <1>2 DEF IInv, Stream
      <3>3. link.pos \in Nat
        BY <1>2
      <3>4. b.pos + b.off = link.pos
        BY <2>4, <3>3
      <3> QED
        BY <1>1, <2>4, <2>5, <2>6, <2>7, <2>8, <3>1, <3>2, <3>4 DEF Stream
    <2>12. ctx'.state \notin {"dup_fs", "finish"} /\ (allInOne => ctx'.dl = Images) /\ ~ valid'
      BY <1>1, <1>2, <2>5, <2>6 DEF IInv, Verdict
    <2> QED
      BY <1>1, <1>2, <2>2, <2>6, <2>7, <2>9, <2>10, <2>11, <2>12, BodyInv DEF TypeOK
  <1> QED
    BY <1>3, <1>4 DEF BodyReceive

LEMMA BodyDisconnectIInv ==
  ASSUME IInv, NEW w \in Workers, BodyDisconnect(w)
  PROVE  IInv'
  <1>1. /\ Body(w, "disconnect") /\ UNCHANGED <<hdr, con, asked, img, valid, bad, calls, allInOne>>
        /\ link' = NoLink /\ Next2(w, ctx, "prepare_connect")
    BY DEF BodyDisconnect
  <1>2. /\ TypeOK /\ Unique /\ wk[w].pc = "body" /\ wk[w].mine /\ ctx.live
        /\ ctx.state = "disconnect" /\ ctx \in Ctx /\ wk \in [Workers -> Wk]
    BY <1>1, BodyAt
  <1>3. ctx' = [ctx EXCEPT !.state = "prepare_connect"] /\ Moved(w, "check")
    BY <1>1, <1>2, NextMoves DEF Next2
  <1>4. /\ "prepare_connect" \in State /\ "prepare_connect" \in Past /\ "disconnect" \in Past
        /\ "prepare_connect" \in EarlyState
    BY DEF State, EarlyState, Past
  <1>5. /\ ctx' \in Ctx /\ ctx'.live /\ ctx'.state = "prepare_connect" /\ ctx'.first = ctx.first
        /\ ctx'.cfgbuf = ctx.cfgbuf /\ ctx'.idx = ctx.idx /\ ctx'.len = ctx.len
        /\ ctx'.wrt = ctx.wrt /\ ctx'.read = ctx.read /\ ctx'.dl = ctx.dl /\ ctx'.buf = ctx.buf
        /\ ctx'.dig = ctx.dig
    BY <1>2, <1>3, <1>4 DEF Ctx
  <1>6. ctx.len = 0 /\ ~ allInOne /\ ~ ctx.first /\ (ctx.idx \in Images => ~ img[ctx.idx].made)
    BY <1>2, <1>4 DEF IInv, Bounds, Stream, Written
  <1>7. \A i : Whole(i)' <=> Whole(i)
    BY <1>1 DEF Whole
  <1>8. Bounds'
    BY <1>2, <1>4, <1>5, <1>6 DEF IInv, Bounds
  <1>9. Written'
    BY <1>1, <1>2, <1>4, <1>5, <1>6, <1>7 DEF IInv, Written
  <1>10. Stream'
    BY <1>1, <1>5, <1>6 DEF Stream
  <1>11. (allInOne => ctx'.dl = Images) /\ ~ valid'
    BY <1>1, <1>2, <1>4, <1>5 DEF IInv, Verdict
  <1> QED
    BY <1>1, <1>2, <1>3, <1>5, <1>8, <1>9, <1>10, <1>11, BodyInv, NoLinkIs DEF TypeOK

LEMMA BodyDupImagesIInv ==
  ASSUME IInv, NEW w \in Workers, BodyDupImages(w)
  PROVE  IInv'
  <1>1. Body(w, "dup_images") /\ UNCHANGED <<hdr, con, asked, link, valid, bad, calls, allInOne>>
    BY DEF BodyDupImages, BodyFail
  <1>2. /\ TypeOK /\ Unique /\ wk[w].pc = "body" /\ wk[w].mine /\ ctx.live
        /\ ctx.state = "dup_images" /\ ctx \in Ctx /\ wk \in [Workers -> Wk]
    BY <1>1, BodyAt
  <1>2a. PICK C \in SUBSET (Images \ ctx.dl) : \E W \in SUBSET C, R \in SUBSET C :
          /\ EnvFails \/ R = {}
          /\ \/ C = Images \ ctx.dl /\ W = C /\ Body(w, "dup_images") /\ Next2(w, ctx, "dup_fs")
             \/ BodyFail(w, "dup_images") /\ UNCHANGED ctx
          /\ img' = [i \in Images |-> IF i \notin C THEN img[i]
                                      ELSE [made |-> TRUE, n |-> IF i \in W THEN ImgLen[i] ELSE 0,
                                            good |-> i \notin R, blind |-> i \in R]]
    BY Zenon DEF BodyDupImages
  <1>3. PICK W \in SUBSET C, R \in SUBSET C :
          /\ EnvFails \/ R = {}
          /\ \/ C = Images \ ctx.dl /\ W = C /\ Body(w, "dup_images") /\ Next2(w, ctx, "dup_fs")
             \/ BodyFail(w, "dup_images") /\ UNCHANGED ctx
          /\ img' = [i \in Images |-> IF i \notin C THEN img[i]
                                      ELSE [made |-> TRUE, n |-> IF i \in W THEN ImgLen[i] ELSE 0,
                                            good |-> i \notin R, blind |-> i \in R]]
    BY Zenon, <1>2a
  <1>4. \/ C = Images \ ctx.dl /\ W = C /\ Next2(w, ctx, "dup_fs")
        \/ Fin(w, "err") /\ UNCHANGED ctx
    BY <1>3 DEF BodyFail
  <1>5. /\ "dup_fs" \in State /\ "dup_fs" \in Past /\ "dup_images" \in Past /\ "dup_fs" \notin EarlyState
    BY DEF State, EarlyState, Past
  <1>6. ~ ctx.first /\ ~ allInOne /\ ctx.idx = Last /\ ~ valid
    BY <1>2, <1>5 DEF IInv, Bounds, Stream, Verdict
  <1>7. \A i \in Images : i \in ctx.dl => Whole(i)
    BY <1>2, <1>5, <1>6, ImagesAre DEF IInv, Written
  <1>8. \A i \in Images : /\ i \notin C => img'[i] = img[i]
                          /\ i \in C => /\ img'[i].made /\ (img'[i].good \/ img'[i].blind)
                                        /\ i \in W => img'[i].n = ImgLen[i]
    BY <1>3
  <1>9. img' \in [Images -> [made : BOOLEAN, n : Nat, good : BOOLEAN, blind : BOOLEAN]]
    BY <1>2, <1>3, ImagesAre DEF TypeOK
  <1>10. \A i \in Images : i \in ctx.dl => Whole(i)'
    <2> SUFFICES ASSUME NEW i \in Images, i \in ctx.dl PROVE Whole(i)'
      OBVIOUS
    <2>1. img'[i] = img[i] /\ Whole(i)
      BY <1>7, <1>8
    <2> QED
      BY <2>1 DEF Whole
  <1>11. CASE Fin(w, "err") /\ UNCHANGED ctx
    <2>1. Moved(w, "fin")
      BY <1>2, <1>11, FinMoves
    <2>2. Bounds' /\ Stream'
      <3>1. Bounds'
        BY <1>11 DEF IInv, Bounds
      <3>2. Stream'
        BY <1>1, <1>2, <1>6, <1>11, ImagesAre DEF Stream
      <3> QED
        BY <3>1, <3>2
    <2>3. Written'
      BY <1>6, <1>10, <1>11, ImagesAre DEF Written
    <2> QED
      BY <1>1, <1>2, <1>6, <1>9, <1>11, <2>1, <2>2, <2>3, BodyInv DEF TypeOK
  <1>12. CASE C = Images \ ctx.dl /\ W = C /\ Next2(w, ctx, "dup_fs")
    <2>1. ctx' = [ctx EXCEPT !.state = "dup_fs"] /\ Moved(w, "check")
      BY <1>2, <1>12, NextMoves DEF Next2
    <2>2. /\ ctx' \in Ctx /\ ctx'.live /\ ctx'.state = "dup_fs" /\ ctx'.first = ctx.first
          /\ ctx'.cfgbuf = ctx.cfgbuf /\ ctx'.idx = ctx.idx /\ ctx'.len = ctx.len
          /\ ctx'.wrt = ctx.wrt /\ ctx'.read = ctx.read /\ ctx'.dl = ctx.dl /\ ctx'.buf = ctx.buf
          /\ ctx'.dig = ctx.dig
      BY <1>2, <2>1, <1>5 DEF Ctx
    <2>3. \A i \in Images : Whole(i)'
      <3> SUFFICES ASSUME NEW i \in Images PROVE Whole(i)'
        OBVIOUS
      <3>1. CASE i \in ctx.dl
        BY <1>10, <3>1
      <3>2. CASE i \notin ctx.dl
        BY <1>8, <1>12, <3>2 DEF Whole
      <3> QED
        BY <3>1, <3>2
    <2>4. Complete'
      BY <2>3 DEF Complete
    <2>5. Bounds'
      BY <1>2, <1>5, <2>2 DEF IInv, Bounds
    <2>6. Written'
      BY <1>6, <2>2, <2>3, ImagesAre DEF Written
    <2>7. Stream'
      BY <1>1, <1>6, <2>2, ImagesAre DEF Stream
    <2> QED
      BY <1>1, <1>2, <1>6, <1>9, <2>1, <2>2, <2>4, <2>5, <2>6, <2>7, BodyInv DEF TypeOK
  <1> QED
    BY <1>4, <1>11, <1>12

LEMMA BodyFinishIInv ==
  ASSUME IInv, NEW w \in Workers, BodyFinish(w)
  PROVE  IInv'
  <1>1. /\ Body(w, "finish") /\ Fin(w, "ok")
        /\ UNCHANGED <<ctx, hdr, con, asked, link, img, valid, bad, calls, allInOne>>
    BY DEF BodyFinish
  <1>2. TypeOK /\ wk[w].pc = "body"
    BY <1>1, BodyAt
  <1>3. Moved(w, "fin")
    BY <1>1, <1>2, FinMoves
  <1> QED
    BY <1>1, <1>2, <1>3, BodyFails

\* The header is not complete yet, or the worker gives it up.
LEMMA StillFirst ==
  ASSUME IInv, NEW w \in Workers, wk[w].pc = "body", wk[w].mine, ctx.state = "config",
         wk' = wk \/ Moved(w, "check") \/ Moved(w, "fin"), hdr' \in BOOLEAN,
         UNCHANGED <<bad, con, asked, calls, allInOne, img, valid>>,
         ctx' \in Ctx, ctx'.live, ctx'.first, ctx'.idx = ctx.idx, ctx'.len = ctx.len, ctx'.dl = ctx.dl,
         ctx'.state \in {"config", "receive"}, ctx'.cfgbuf => ctx'.wrt < CfgLen,
         ctx'.buf.off <= ctx'.buf.n, ctx'.dig = ctx.dig,
         link' = NoLink \/ (link' = link /\ ctx'.state = "receive")
  PROVE  IInv'
  <1>1. /\ "config" \in Past /\ "receive" \in Past /\ "config" \notin EarlyState
        /\ "receive" \notin EarlyState
    BY DEF Past, State, EarlyState
  <1>2. /\ TypeOK /\ Unique /\ ctx.first /\ ctx.idx = 1 /\ ctx.len = 0 /\ ~ valid
        /\ (ctx.live /\ allInOne => ctx.dl = Images)
    BY <1>1 DEF IInv, Bounds, Verdict
  <1>3. Bounds'
    BY <1>1, <1>2, ImagesAre DEF Bounds
  <1>4. \A i : Whole(i)' <=> Whole(i)
    BY DEF Whole
  <1>5. Written'
    BY <1>1, <1>2, <1>4 DEF IInv, Written
  <1>6. Stream'
    BY <1>1, NoLinkIs DEF Stream
  <1>7. ctx.live
    BY <1>2 DEF Unique
  <1>8. link' \in [open : BOOLEAN, file : Nat, pos : Nat]
    BY <1>2, NoLinkIs DEF TypeOK
  <1>9. (allInOne => ctx'.dl = Images) /\ ~ valid'
    BY <1>2, <1>7
  <1>10. /\ bad' \in {"none", "stale", "null"} /\ valid' \in BOOLEAN
         /\ img' \in [Images -> [made : BOOLEAN, n : Nat, good : BOOLEAN, blind : BOOLEAN]]
    BY <1>2 DEF TypeOK
  <1> QED
    BY <1>1, <1>3, <1>5, <1>6, <1>8, <1>9, <1>10, BodyInv

LEMMA BodyConfigIInv ==
  ASSUME IInv, NEW w \in Workers, BodyConfig(w)
  PROVE  IInv'
  <1>1. Body(w, "config") /\ UNCHANGED <<con, asked, img, valid, calls, allInOne>>
    BY DEF BodyConfig
  <1>2. /\ TypeOK /\ Unique /\ wk[w].pc = "body" /\ wk[w].mine /\ ctx.live
        /\ ctx.state = "config" /\ ctx \in Ctx /\ wk \in [Workers -> Wk]
    BY <1>1, BodyAt
  <1>3. PICK got, take, ok, c :
          /\ got = IF ctx.cfgbuf THEN ctx.wrt ELSE 0
          /\ take = IF ctx.buf.n < CfgLen - got THEN ctx.buf.n ELSE CfgLen - got
          /\ ok = (ctx.cfgok /\ ctx.buf.good /\ ctx.buf.file = 0 /\ ctx.buf.pos = got)
          /\ c = [ctx EXCEPT !.cfgok = ok, !.buf.off = take]
    OBVIOUS
  <1>4. /\ ctx.first /\ ctx.idx = 1 /\ ctx.len = 0 /\ ~ valid /\ (allInOne => ctx.dl = Images)
        /\ (ctx.cfgbuf => ctx.wrt < CfgLen) /\ ctx.buf.off <= ctx.buf.n
        /\ link.open => link.pos = ctx.buf.pos + ctx.buf.n
    BY <1>2 DEF IInv, Bounds, Verdict, Stream, Past, State
  <1>5. /\ CfgLen \in Nat \ {0} /\ ctx.wrt \in Nat /\ ctx.buf.n \in Nat /\ ctx.buf.pos \in Nat
        /\ ctx.buf \in Buf /\ ctx.cfgok \in BOOLEAN /\ ctx.buf.good \in BOOLEAN
    BY <1>2, SessionAssumption DEF Ctx, Buf
  <1>6. got \in Nat /\ take \in Nat /\ take <= ctx.buf.n /\ got + take <= CfgLen
    BY <1>3, <1>4, <1>5
  <1>7. ok \in BOOLEAN /\ (ok => ctx.buf.pos = got)
    BY <1>3
  <1>8. /\ c \in Ctx /\ c.live = ctx.live /\ c.state = ctx.state /\ c.first = ctx.first /\ c.cfgbuf = ctx.cfgbuf
        /\ c.idx = ctx.idx /\ c.len = ctx.len /\ c.wrt = ctx.wrt /\ c.dl = ctx.dl /\ c.dig = ctx.dig
        /\ c.buf.off = take /\ c.buf.n = ctx.buf.n /\ c.buf.pos = ctx.buf.pos
    BY <1>2, <1>3, <1>5, <1>6, <1>7 DEF Ctx, Buf
  <1> DEFINE full == [c EXCEPT !.first = FALSE, !.cfgbuf = FALSE, !.read = CfgLen,
                               !.wrt = IF ctx.cfgbuf THEN CfgLen ELSE @]
             abort == Fin(w, "err") /\ ctx' = [c EXCEPT !.cfgbuf = FALSE] /\ link' = NoLink
  <1>9. IF got + take < CfgLen
        THEN /\ \/ Next2(w, [c EXCEPT !.cfgbuf = TRUE, !.wrt = got + take], "receive")
                   /\ UNCHANGED link
                \/ abort
             /\ UNCHANGED <<hdr, bad>>
        ELSE IF ~ ctx.dig.on THEN bad' = "null" /\ UNCHANGED <<ctx, wk, link, hdr>>
        ELSE /\ UNCHANGED bad
             /\ \/ /\ ok /\ hdr' = TRUE /\ UNCHANGED link
                   /\ IF allInOne
                      THEN Next2(w, full, IF take < ctx.buf.n THEN "image" ELSE "receive")
                      ELSE \E D \in SUBSET Images : Next2(w, [full EXCEPT !.dl = D], "disconnect")
                \/ abort /\ hdr' \in {hdr, TRUE}
    BY <1>3, ZenonT(60) DEF BodyConfig
  <1>10. hdr \in BOOLEAN
    BY <1>2 DEF TypeOK
  <1>11. CASE abort /\ UNCHANGED bad /\ hdr' \in {hdr, TRUE}
    <2>1. Moved(w, "fin") /\ link' = NoLink
      BY <1>2, <1>11, FinMoves
    <2>2. /\ ctx' \in Ctx /\ ctx'.live /\ ctx'.state = "config" /\ ctx'.first /\ ~ ctx'.cfgbuf
          /\ ctx'.idx = ctx.idx /\ ctx'.len = ctx.len /\ ctx'.dl = ctx.dl /\ ctx'.dig = ctx.dig
          /\ ctx'.buf.off = take /\ ctx'.buf.n = ctx.buf.n
      BY <1>2, <1>4, <1>8, <1>11 DEF Ctx
    <2>3. hdr' \in BOOLEAN
      BY <1>10, <1>11
    <2> QED
      BY <1>1, <1>2, <1>6, <1>11, <2>1, <2>2, <2>3, StillFirst
  <1>12. CASE /\ Next2(w, [c EXCEPT !.cfgbuf = TRUE, !.wrt = got + take], "receive")
              /\ UNCHANGED <<link, hdr, bad>> /\ got + take < CfgLen
    <2>1. /\ ctx' = [[c EXCEPT !.cfgbuf = TRUE, !.wrt = got + take] EXCEPT !.state = "receive"]
          /\ Moved(w, "check")
      BY <1>2, <1>12, NextMoves DEF Next2
    <2>2. "receive" \in State /\ got + take \in Nat
      BY <1>6 DEF State
    <2>3. /\ ctx' \in Ctx /\ ctx'.live /\ ctx'.state = "receive" /\ ctx'.first /\ ctx'.wrt = got + take
          /\ ctx'.idx = ctx.idx /\ ctx'.len = ctx.len /\ ctx'.dl = ctx.dl /\ ctx'.dig = ctx.dig
          /\ ctx'.buf.off = take /\ ctx'.buf.n = ctx.buf.n
      BY <1>2, <1>4, <1>8, <2>1, <2>2 DEF Ctx
    <2> QED
      BY <1>1, <1>2, <1>6, <1>10, <1>12, <2>1, <2>3, StillFirst
  <1>13. CASE bad' = "null" /\ UNCHANGED <<ctx, wk, link, hdr>>
    <2>1. TypeOK' /\ Unique'
      BY <1>1, <1>2, <1>13 DEF TypeOK, Unique
    <2> QED
      BY <1>1, <1>13, <2>1, Quiet DEF Seen
  <1>14. ASSUME got + take >= CfgLen, ok, hdr' = TRUE, UNCHANGED <<link, bad>>,
                NEW D \in SUBSET Images, NEW t \in {"image", "receive", "disconnect"},
                Next2(w, [full EXCEPT !.dl = D], t),
                t = "disconnect" <=> ~ allInOne, allInOne => D = ctx.dl,
                t = "receive" => ~ (take < ctx.buf.n)
         PROVE  IInv'
    <2>1. ctx' = [[full EXCEPT !.dl = D] EXCEPT !.state = t] /\ Moved(w, "check")
      BY <1>2, <1>14, NextMoves DEF Next2
    <2>2. t \in State /\ t \in Past /\ "config" \in Past /\ t \notin EarlyState
      BY DEF State, EarlyState, Past
    <2>3. PICK x \in Nat : x = IF ctx.cfgbuf THEN CfgLen ELSE c.wrt
      BY <1>5, <1>8
    <2>4. ctx' = [c EXCEPT !.first = FALSE, !.cfgbuf = FALSE, !.read = CfgLen, !.wrt = x, !.dl = D,
                           !.state = t]
      BY <1>8, <2>1, <2>3 DEF Ctx
    <2> HIDE DEF full
    <2>5. /\ ctx' \in Ctx /\ ctx'.live /\ ctx'.state = t /\ ~ ctx'.first /\ ~ ctx'.cfgbuf
          /\ ctx'.read = CfgLen /\ ctx'.idx = 1 /\ ctx'.len = 0 /\ ctx'.dl = D
          /\ ctx'.buf.off = take /\ ctx'.buf.n = ctx.buf.n /\ ctx'.buf.pos = ctx.buf.pos
      BY <1>2, <1>4, <1>5, <1>8, <2>2, <2>4, ZenonT(60) DEF Ctx
    <2>6. got + take = CfgLen /\ ctx.buf.pos = got
      BY <1>5, <1>6, <1>7, <1>14
    <2>7. Bounds'
      BY <1>6, <2>2, <2>5, ImagesAre DEF Bounds
    <2>8. /\ \A i \in Images : i > 1 => ~ img[i].made /\ img[i].good
          /\ ~ img[1].made /\ (ImgLen[1] # 0 => img[1].good)
      BY <1>2, <1>4, <2>2, ImagesAre DEF IInv, Written
    <2>9. Written'
      <3>1. \A i \in Images : ~ (i < 1)
        BY ImagesAre
      <3> QED
        BY <1>1, <2>2, <2>5, <2>8, <3>1 DEF Written
    <2>10. Stream'
      <3>1. Start[1] = CfgLen /\ Start[1] + 0 = CfgLen
        BY <1>5, StartIs
      <3>2. t = "receive" /\ link.open => link.pos = CfgLen
        BY <1>4, <1>5, <1>6, <1>14, <2>6
      <3>3. Pos' = 0
        BY <2>5 DEF Pos
      <3>4. allInOne' = allInOne /\ link' = link /\ img' = img
        BY <1>1, <1>14
      <3>5. /\ ~ ctx'.first /\ allInOne' => /\ ctx'.state \notin EarlyState \cup {"disconnect", "dup_images"}
                                            /\ ctx'.read = Start[ctx'.idx] + Pos'
        BY <1>14, <2>2, <2>5, <3>1, <3>3, <3>4
      <3>6. ~ allInOne' => ctx'.state = "disconnect" /\ ~ img'[ctx'.idx].made /\ ctx'.len = 0
        BY <1>14, <2>5, <2>8, <3>4
      <3>7. ctx'.state = "image" => ctx'.buf.pos + ctx'.buf.off = ctx'.read
        BY <2>5, <2>6
      <3>8. ctx'.state = "receive" /\ ~ ctx'.first /\ link'.open => link'.pos = ctx'.read
        BY <2>5, <3>2, <3>4
      <3>9. ctx'.state \in {"config", "image"} /\ link'.open => link'.pos = ctx'.buf.pos + ctx'.buf.n
        BY <1>4, <2>5, <3>4
      <3> QED
        BY <3>5, <3>6, <3>7, <3>8, <3>9 DEF Stream
    <2>11. ctx'.state \notin {"dup_fs", "finish"} /\ (allInOne => ctx'.dl = Images) /\ ~ valid'
      BY <1>1, <1>4, <1>14, <2>5
    <2>12. /\ bad' \in {"none", "stale", "null"} /\ valid' \in BOOLEAN
           /\ link' \in [open : BOOLEAN, file : Nat, pos : Nat]
           /\ img' \in [Images -> [made : BOOLEAN, n : Nat, good : BOOLEAN, blind : BOOLEAN]]
      BY <1>1, <1>2, <1>14 DEF TypeOK
    <2> QED
      BY <1>1, <1>2, <1>14, <2>1, <2>5, <2>7, <2>9, <2>10, <2>11, <2>12, BodyInv
  <1>15. ASSUME got + take >= CfgLen, ok, hdr' = TRUE, UNCHANGED <<link, bad>>, allInOne,
                Next2(w, full, IF take < ctx.buf.n THEN "image" ELSE "receive")
         PROVE  IInv'
    <2>1. ctx.dl \in SUBSET Images /\ full.dl = ctx.dl
      BY <1>2, <1>8 DEF Ctx
    <2>2. full = [full EXCEPT !.dl = ctx.dl]
      BY <1>8, <2>1 DEF Ctx
    <2>3. PICK t \in {"image", "receive"} : Next2(w, full, t) /\ (t = "receive" => ~ (take < ctx.buf.n))
      BY <1>15
    <2>4. Next2(w, [full EXCEPT !.dl = ctx.dl], t)
      <3> HIDE DEF full
      <3> QED
        BY <2>2, <2>3
    <2> HIDE DEF full
    <2>5. t \in {"image", "receive", "disconnect"} /\ (t = "disconnect" <=> ~ allInOne)
      BY <1>15, <2>3
    <2> QED
      BY <1>14, <1>15, <2>1, <2>3, <2>4, <2>5
  <1>16. ASSUME got + take >= CfgLen, ok, hdr' = TRUE, UNCHANGED <<link, bad>>, ~ allInOne,
                NEW D \in SUBSET Images, Next2(w, [full EXCEPT !.dl = D], "disconnect")
         PROVE  IInv'
    <2> HIDE DEF full
    <2> QED
      BY <1>14, <1>16
  <1> HIDE DEF full, abort
  <1>17. CASE got + take < CfgLen
    BY <1>9, <1>11, <1>12, <1>17
  <1>18. CASE ~ (got + take < CfgLen)
    <2>1. got + take >= CfgLen
      BY <1>5, <1>6, <1>18
    <2> QED
      BY <1>9, <1>11, <1>13, <1>15, <1>16, <1>18, <2>1
  <1> QED
    BY <1>17, <1>18

\* The state machine stays with the current image.
LEMMA ImageStays ==
  ASSUME IInv, NEW w \in Workers, wk[w].pc = "body", wk[w].mine, ctx.state = "image",
         wk' = wk \/ Moved(w, "check") \/ Moved(w, "fin"),
         UNCHANGED <<hdr, bad, con, asked, calls, allInOne, valid>>,
         link' = link \/ link' = NoLink,
         img' \in [Images -> [made : BOOLEAN, n : Nat, good : BOOLEAN, blind : BOOLEAN]],
         \A i \in Images : i # ctx.idx => img'[i] = img[i],
         ctx' \in Ctx, ctx'.live, ~ ctx'.first, ~ ctx'.cfgbuf, ctx'.idx = ctx.idx, ctx'.dl = ctx.dl,
         ctx'.state \in {"image", "receive"}, ctx'.buf.off <= ctx'.buf.n,
         ctx'.len = 0 \/ ctx'.len = ImgLen[ctx.idx], ctx'.wrt <= ctx'.len \/ ctx'.len = 0,
         ctx'.read = (IF allInOne THEN Start[ctx.idx] ELSE 0) + Pos',
         ctx'.state = "image" => ctx'.buf.pos + ctx'.buf.off = ctx'.read,
         link'.open /\ ctx'.state = "receive" => link'.pos = ctx'.read,
         link'.open /\ ctx'.state = "image" => link'.pos = ctx'.buf.pos + ctx'.buf.n,
         ImgLen[ctx.idx] # 0 /\ (ctx'.len = 0 \/ (ctx'.dig.on /\ ctx'.dig.good)) => img'[ctx.idx].good,
         ctx'.len = 0 \/ Moved(w, "fin") \/ img'[ctx.idx].made
  PROVE  IInv'
  <1>1. /\ "image" \in Past /\ "receive" \in Past /\ "image" \notin EarlyState
        /\ "receive" \notin EarlyState
    BY DEF Past, State, EarlyState
  <1>2. /\ TypeOK /\ Unique /\ ctx.idx \in Images /\ ~ valid /\ ctx.live
        /\ (allInOne => ctx.dl = Images)
    BY <1>1 DEF IInv, Bounds, Verdict, Unique
  <1>3. Bounds'
    BY <1>1, <1>2 DEF Bounds
  <1>4. Written'
    <2>1. /\ \A i \in Images : i > ctx.idx => ~ img'[i].made /\ img'[i].good
      BY <1>1, <1>2, ImagesAre DEF IInv, Written
    <2>2. ASSUME NEW i \in Images, i < ctx.idx, i \in ctx.dl PROVE Whole(i)'
      <3>1. Whole(i) /\ img'[i] = img[i]
        BY <1>1, <1>2, <2>2, ImagesAre DEF IInv, Written
      <3> QED
        BY <3>1 DEF Whole
    <2>3. \/ \A v \in Workers : wk'[v].mine => wk'[v].pc \notin {"check", "body"}
          \/ ctx'.len = 0 \/ img'[ctx.idx].made
      <3>1. CASE Moved(w, "fin")
        <4>1. \A v \in Workers : v # w => ~ wk'[v].mine
          BY <1>2, <3>1 DEF Unique, Moved
        <4>2. wk'[w].pc = "fin"
          BY <3>1 DEF Moved
        <4> QED
          BY <4>1, <4>2
      <3> QED
        BY <3>1
    <2> QED
      BY <1>1, <2>1, <2>2, <2>3 DEF Written
  <1>5. Stream'
    <2>1. ~ allInOne => ctx'.read = Pos'
      <3>1. Pos' \in Nat
        BY DEF Pos, Ctx
      <3> QED
        BY <3>1
    <2>2. /\ ctx'.state \notin EarlyState \cup {"disconnect", "dup_images", "config"}
      BY <1>1
    <2> QED
      BY <1>1, <2>1, <2>2 DEF Stream
  <1>6. (allInOne => ctx'.dl = Images) /\ ~ valid' /\ ctx'.state \notin {"dup_fs", "finish"}
    BY <1>2
  <1>7. /\ bad' \in {"none", "stale", "null"} /\ valid' \in BOOLEAN /\ hdr' \in BOOLEAN
        /\ link' \in [open : BOOLEAN, file : Nat, pos : Nat]
    BY <1>2, NoLinkIs DEF TypeOK
  <1> QED
    BY <1>3, <1>4, <1>5, <1>6, <1>7, BodyInv

\* The current image is there: the next one.
LEMMA ImageDoneIInv ==
  ASSUME IInv, NEW w \in Workers, wk[w].pc = "body", wk[w].mine, ctx.state = "image",
         UNCHANGED <<hdr, bad, con, asked, calls, allInOne, valid, link>>,
         img' \in [Images -> [made : BOOLEAN, n : Nat, good : BOOLEAN, blind : BOOLEAN]],
         \A i \in Images : i # ctx.idx => img'[i] = img[i],
         img'[ctx.idx].made, img'[ctx.idx].n = ImgLen[ctx.idx], img'[ctx.idx].good,
         NEW c \in Ctx, c.live, ~ c.first, ~ c.cfgbuf, c.idx = ctx.idx, c.dl = ctx.dl, c.state = "image",
         c.buf.off <= c.buf.n, c.buf.n = ctx.buf.n, c.buf.pos = ctx.buf.pos,
         c.buf.pos + c.buf.off = c.read,
         allInOne => c.read = Start[ctx.idx] + ImgLen[ctx.idx],
         ImageDone(w, c)
  PROVE  IInv'
  <1>1. /\ "image" \in Past /\ "disconnect" \in Past /\ "dup_fs" \in Past /\ "image" \notin EarlyState
        /\ "dup_fs" \notin EarlyState /\ "disconnect" \notin EarlyState
        /\ "image" \in State /\ "disconnect" \in State /\ "dup_fs" \in State
    BY DEF Past, State, EarlyState
  <1>2. /\ TypeOK /\ Unique /\ ctx.idx \in Images /\ ~ valid /\ ctx.live
        /\ (allInOne => ctx.dl = Images)
    BY <1>1 DEF IInv, Bounds, Verdict, Unique
  <1>3. /\ ctx.idx \in Nat /\ ctx.idx + 1 \in 1 .. Len(ImgLen) + 1 /\ (ctx.idx + 1 \in Images \/ ctx.idx + 1 = Last)
        /\ \A i \in Images : i \in Nat
    BY <1>2, ImagesAre
  <1>4. PICK t \in State : /\ ctx' = [c EXCEPT !.hdl = FALSE, !.idx = ctx.idx + 1, !.len = 0, !.state = t]
                           /\ wk' = wk \/ Moved(w, "check")
                           /\ t \in {"disconnect", "dup_fs", "image"}
                           /\ t = "disconnect" <=> ~ allInOne
                           /\ t = "dup_fs" => ctx.idx + 1 \notin Images
                           /\ t = "image" => ctx.idx + 1 \in Images
    <2>1. PICK d : d = [c EXCEPT !.hdl = FALSE, !.idx = @ + 1, !.len = 0]
      OBVIOUS
    <2>2. d = [c EXCEPT !.hdl = FALSE, !.idx = ctx.idx + 1, !.len = 0]
      BY <2>1
    <2>3. d.idx = ctx.idx + 1 /\ d = [d EXCEPT !.state = "image"]
      BY <1>3, <2>2, ZenonT(60) DEF Ctx
    <2>4. IF ~ allInOne THEN Next2(w, d, "disconnect")
          ELSE IF d.idx \notin Images THEN Next2(w, d, "dup_fs")
          ELSE ctx' = d /\ UNCHANGED wk
      BY <2>1 DEF ImageDone
    <2>5. PICK t \in {"disconnect", "dup_fs", "image"} :
            /\ ctx' = [d EXCEPT !.state = t] /\ (wk' = wk \/ Moved(w, "check"))
            /\ t = "disconnect" <=> ~ allInOne
            /\ t = "dup_fs" => ctx.idx + 1 \notin Images
            /\ t = "image" => ctx.idx + 1 \in Images
      <3>1. CASE ~ allInOne
        <4>1. ctx' = [d EXCEPT !.state = "disconnect"] /\ Moved(w, "check")
          BY <1>2, <2>4, <3>1, NextMoves DEF Next2
        <4> QED
          BY <3>1, <4>1
      <3>2. CASE allInOne /\ d.idx \notin Images
        <4>1. ctx' = [d EXCEPT !.state = "dup_fs"] /\ Moved(w, "check")
          BY <1>2, <2>4, <3>2, NextMoves DEF Next2
        <4> QED
          BY <2>3, <3>2, <4>1
      <3>3. CASE allInOne /\ d.idx \in Images
        <4>1. ctx' = [d EXCEPT !.state = "image"] /\ wk' = wk
          BY <2>3, <2>4, <3>3
        <4> QED
          BY <2>3, <3>3, <4>1
      <3> QED
        BY <3>1, <3>2, <3>3
    <2>6. ctx' = [c EXCEPT !.hdl = FALSE, !.idx = ctx.idx + 1, !.len = 0, !.state = t] /\ t \in State
      BY <1>1, <2>2, <2>5
    <2> QED
      BY <2>5, <2>6
  <1>5. /\ ctx' \in Ctx /\ ctx'.live /\ ctx'.state = t /\ ~ ctx'.first /\ ~ ctx'.cfgbuf
        /\ ctx'.idx = ctx.idx + 1 /\ ctx'.len = 0 /\ ctx'.dl = ctx.dl /\ ctx'.buf = c.buf /\ ctx'.read = c.read
    BY <1>3, <1>4 DEF Ctx
  <1>6. t \in Past /\ t \notin EarlyState
    BY <1>1, <1>4
  <1>7. Bounds'
    BY <1>3, <1>4, <1>5, <1>6 DEF Bounds
  <1>8. \A i \in Images : i > ctx.idx => ~ img'[i].made /\ img'[i].good
    BY <1>1, <1>2, <1>3 DEF IInv, Written
  <1>9. ASSUME NEW i \in Images, i < ctx.idx + 1, i \in ctx.dl PROVE Whole(i)'
    <2>1. CASE i = ctx.idx
      BY <2>1 DEF Whole
    <2>2. CASE i # ctx.idx
      <3>1. i < ctx.idx
        BY <1>3, <1>9, <2>2
      <3>2. Whole(i) /\ img'[i] = img[i]
        BY <1>1, <1>2, <1>9, <2>2, <3>1 DEF IInv, Written
      <3> QED
        BY <3>2 DEF Whole
    <2> QED
      BY <2>1, <2>2
  <1>10. Written'
    <2>1. \A i \in Images : i > ctx.idx + 1 => i > ctx.idx
      BY <1>3
    <2>2. ctx.idx + 1 > ctx.idx
      BY <1>3
    <2> QED
      BY <1>5, <1>6, <1>8, <1>9, <2>1, <2>2 DEF Written
  <1>11. Stream'
    <2>1. Pos' = 0
      BY <1>5 DEF Pos
    <2>2. allInOne => ctx'.read = Start[ctx'.idx] + 0
      <3>1. SUFFICES ASSUME allInOne PROVE ctx'.read = Start[ctx'.idx] + 0
        OBVIOUS
      <3>2. Start[ctx.idx + 1] = Start[ctx.idx] + ImgLen[ctx.idx]
        BY <1>2, StartIs
      <3>3. c.read \in Nat /\ c.read = Start[ctx.idx] + ImgLen[ctx.idx]
        BY <3>1 DEF Ctx
      <3> QED
        BY <1>5, <3>2, <3>3
    <2>3. ~ allInOne /\ ctx'.idx \in Images => ctx'.state = "disconnect" /\ ~ img'[ctx'.idx].made
      BY <1>3, <1>4, <1>5, <1>8
    <2>4. ctx'.state = "image" /\ link'.open => link'.pos = ctx'.buf.pos + ctx'.buf.n
      BY <1>5 DEF IInv, Stream
    <2>5. ctx'.state \notin EarlyState /\ ctx'.state \notin {"dup_images", "config", "receive"}
          /\ (allInOne => ctx'.state # "disconnect")
      BY <1>4, <1>5, <1>6
    <2>6. ctx'.buf.pos + ctx'.buf.off = ctx'.read
      BY <1>5
    <2> QED
      BY <1>5, <2>1, <2>2, <2>3, <2>4, <2>5, <2>6 DEF Stream
  <1>12. t = "dup_fs" => Complete'
    <2>1. SUFFICES ASSUME t = "dup_fs", NEW i \in Images PROVE Whole(i)'
      BY DEF Complete
    <2>2. i \in ctx.dl /\ i < ctx.idx + 1
      BY <1>2, <1>3, <1>4, <2>1, ImagesAre
    <2> QED
      BY <1>9, <2>2
  <1>13. /\ bad' \in {"none", "stale", "null"} /\ valid' \in BOOLEAN /\ hdr' \in BOOLEAN
         /\ link' \in [open : BOOLEAN, file : Nat, pos : Nat]
    BY <1>2 DEF TypeOK
  <1>14. (allInOne => ctx'.dl = Images) /\ ~ valid' /\ ctx'.state # "finish"
    BY <1>2, <1>4, <1>5
  <1> QED
    BY <1>4, <1>5, <1>7, <1>10, <1>11, <1>12, <1>13, <1>14, BodyInv

LEMMA StartNat == \A i \in Images : Start[i] \in Nat
  <1> DEFINE S == {j \in Images : Start[j] \notin Nat}
  <1>1. SUFFICES ASSUME S # {} PROVE FALSE
    OBVIOUS
  <1>2. S \in SUBSET Nat
    BY ImagesAre
  <1> HIDE DEF S
  <1>3. PICK j \in S : \A i \in S : j <= i
    BY <1>1, <1>2, Least
  <1>4. j \in Images /\ Start[j] \notin Nat
    BY <1>3 DEF S
  <1>5. j # 1
    BY <1>4, StartIs, SessionAssumption
  <1>6. j - 1 \in Images /\ (j - 1) + 1 = j /\ ~ (j <= j - 1)
    BY <1>4, <1>5, ImagesAre
  <1>7. Start[j - 1] \in Nat
    BY <1>3, <1>6 DEF S
  <1>8. Start[j] = Start[j - 1] + ImgLen[j - 1] /\ ImgLen[j - 1] \in Nat
    BY <1>6, StartIs, ImagesAre
  <1> QED
    BY <1>4, <1>7, <1>8

\* BodyImage with the values it computes given a name.
ImageVars(new, L, c0, rest, k, fit, c1, old) ==
  /\ new = (ctx.len = 0) /\ L = ImgLen[ctx.idx]
  /\ c0 = IF new THEN [ctx EXCEPT !.hdl = TRUE, !.wrt = 0, !.len = L, !.dig = NewDig] ELSE ctx
  /\ rest = c0.buf.n - c0.buf.off
  /\ k = IF allInOne /\ c0.len - c0.wrt < rest THEN c0.len - c0.wrt ELSE rest
  /\ fit = Fits(c0)
  /\ c1 = [c0 EXCEPT !.buf.off = @ + k, !.read = @ + k, !.wrt = @ + k,
                     !.dig.n = @ + k, !.dig.good = @ /\ fit]
  /\ old = IF new THEN [NoImg EXCEPT !.made = TRUE] ELSE img[ctx.idx]

ImageTurn(w, new, L, c0, k, fit, c1, old) ==
  IF allInOne /\ ctx.buf.off >= ctx.buf.n
  THEN Next2(w, ctx, "receive") /\ UNCHANGED <<img, link, bad>>
  ELSE IF allInOne /\ new /\ L = 0
  THEN /\ img' = [img EXCEPT ![ctx.idx] = old]
       /\ ImageDone(w, [c0 EXCEPT !.dig = ctx.dig])
       /\ UNCHANGED <<link, bad>>
  ELSE IF ~ ctx.dig.on THEN bad' = "null" /\ UNCHANGED <<ctx, wk, img, link>>
  ELSE /\ UNCHANGED bad
       /\ \/ /\ k > c0.len - c0.wrt
             /\ Fin(w, "err") /\ link' = NoLink /\ ctx' = c0 /\ img' = [img EXCEPT ![ctx.idx] = old]
          \/ /\ k <= c0.len - c0.wrt
             /\ img' = [img EXCEPT ![ctx.idx] = [old EXCEPT !.n = c1.wrt, !.good = @ /\ fit]]
             /\ IF c1.wrt < c1.len
                THEN /\ UNCHANGED link
                     /\ IF allInOne THEN ctx' = c1 /\ UNCHANGED wk
                        ELSE Next2(w, c1, "receive")
                ELSE IF c1.dig.n = L /\ c1.dig.good THEN ImageDone(w, c1) /\ UNCHANGED link
                ELSE Fin(w, "err") /\ link' = NoLink /\ ctx' = c1
          \/ /\ EnvFails
             /\ Fin(w, "err") /\ link' = NoLink /\ ctx' = c0 /\ img' \in {img, [img EXCEPT ![ctx.idx] = old]}

LEMMA ImageTurns ==
  ASSUME NEW w \in Workers, BodyImage(w)
  PROVE  \E new, L, c0, rest, k, fit, c1, old :
           ImageVars(new, L, c0, rest, k, fit, c1, old) /\ ImageTurn(w, new, L, c0, k, fit, c1, old)
  <1> DEFINE n1 == ctx.len = 0
             L1 == ImgLen[ctx.idx]
             c2 == IF n1 THEN [ctx EXCEPT !.hdl = TRUE, !.wrt = 0, !.len = L1, !.dig = NewDig] ELSE ctx
             r1 == c2.buf.n - c2.buf.off
             k1 == IF allInOne /\ c2.len - c2.wrt < r1 THEN c2.len - c2.wrt ELSE r1
             f1 == Fits(c2)
             c3 == [c2 EXCEPT !.buf.off = @ + k1, !.read = @ + k1, !.wrt = @ + k1,
                              !.dig.n = @ + k1, !.dig.good = @ /\ f1]
             o1 == IF n1 THEN [NoImg EXCEPT !.made = TRUE] ELSE img[ctx.idx]
  <1>1. ImageTurn(w, n1, L1, c2, k1, f1, c3, o1)
    BY DEF BodyImage, ImageTurn
  <1> HIDE DEF o1
  <1>2. o1 = IF n1 THEN [NoImg EXCEPT !.made = TRUE] ELSE img[ctx.idx]
    BY DEF o1
  <1> HIDE DEF c3
  <1>3. c3 = [c2 EXCEPT !.buf.off = @ + k1, !.read = @ + k1, !.wrt = @ + k1,
                        !.dig.n = @ + k1, !.dig.good = @ /\ f1]
    BY DEF c3
  <1> HIDE DEF f1, k1
  <1>4. f1 = Fits(c2) /\ k1 = IF allInOne /\ c2.len - c2.wrt < r1 THEN c2.len - c2.wrt ELSE r1
    BY DEF f1, k1
  <1> HIDE DEF r1
  <1>5. r1 = c2.buf.n - c2.buf.off
    BY DEF r1
  <1> HIDE DEF c2
  <1>6. c2 = IF n1 THEN [ctx EXCEPT !.hdl = TRUE, !.wrt = 0, !.len = L1, !.dig = NewDig] ELSE ctx
    BY DEF c2
  <1> HIDE DEF n1, L1
  <1>7. n1 = (ctx.len = 0) /\ L1 = ImgLen[ctx.idx]
    BY DEF n1, L1
  <1>8. ImageVars(n1, L1, c2, r1, k1, f1, c3, o1)
    BY <1>2, <1>3, <1>4, <1>5, <1>6, <1>7 DEF ImageVars
  <1> QED
    BY <1>1, <1>8

LEMMA BodyImageIInv ==
  ASSUME IInv, NEW w \in Workers, BodyImage(w)
  PROVE  IInv'
  <1>1. Body(w, "image") /\ UNCHANGED <<hdr, con, asked, valid, calls, allInOne>>
    BY DEF BodyImage
  <1>2. /\ TypeOK /\ Unique /\ wk[w].pc = "body" /\ wk[w].mine /\ ctx.live
        /\ ctx.state = "image" /\ ctx \in Ctx /\ wk \in [Workers -> Wk]
        /\ img \in [Images -> [made : BOOLEAN, n : Nat, good : BOOLEAN, blind : BOOLEAN]]
    BY <1>1, BodyAt DEF TypeOK
  <1>3. /\ ~ ctx.first /\ ~ ctx.cfgbuf /\ ctx.idx \in Images /\ ctx.buf.off <= ctx.buf.n
        /\ ctx.len # 0 => ctx.len = ImgLen[ctx.idx] /\ ctx.wrt <= ctx.len
    BY <1>2 DEF IInv, Bounds
  <1>4. /\ ImgLen[ctx.idx] # 0 /\ (ctx.len = 0 \/ (ctx.dig.on /\ ctx.dig.good)) => img[ctx.idx].good
        /\ ctx.len # 0 => img[ctx.idx].made
    BY <1>2, <1>3 DEF IInv, Written, Past, State
  <1>5. /\ ctx.read = (IF allInOne THEN Start[ctx.idx] ELSE 0) + Pos
        /\ ctx.buf.pos + ctx.buf.off = ctx.read
        /\ link.open => link.pos = ctx.buf.pos + ctx.buf.n
    <2>1. Pos \in Nat
      BY <1>2 DEF Pos, Ctx
    <2> QED
      BY <1>2, <1>3, <2>1 DEF IInv, Stream
  <1>6. /\ ctx.read \in Nat /\ ctx.wrt \in Nat /\ ctx.len \in Nat /\ ctx.buf \in Buf /\ ctx.buf.n \in Nat
        /\ ctx.buf.off \in Nat /\ ctx.buf.pos \in Nat /\ ctx.dig \in Dig /\ ImgLen[ctx.idx] \in Nat
        /\ ctx.dig.n \in Nat /\ ctx.dig.good \in BOOLEAN /\ ctx.dig.on \in BOOLEAN
    BY <1>2, <1>3, ImagesAre DEF Ctx, Buf, Dig
  <1> DEFINE abort == Fin(w, "err") /\ link' = NoLink
  <1>0. PICK new, L, c0, rest, k, fit, c1, old :
          ImageVars(new, L, c0, rest, k, fit, c1, old) /\ ImageTurn(w, new, L, c0, k, fit, c1, old)
    BY ImageTurns
  <1>7. /\ new = (ctx.len = 0) /\ L = ImgLen[ctx.idx]
        /\ c0 = IF new THEN [ctx EXCEPT !.hdl = TRUE, !.wrt = 0, !.len = L, !.dig = NewDig] ELSE ctx
        /\ rest = c0.buf.n - c0.buf.off
        /\ k = IF allInOne /\ c0.len - c0.wrt < rest THEN c0.len - c0.wrt ELSE rest
        /\ fit = Fits(c0)
        /\ c1 = [c0 EXCEPT !.buf.off = @ + k, !.read = @ + k, !.wrt = @ + k,
                              !.dig.n = @ + k, !.dig.good = @ /\ fit]
        /\ old = IF new THEN [NoImg EXCEPT !.made = TRUE] ELSE img[ctx.idx]
    BY <1>0 DEF ImageVars
  <1> HIDE DEF abort
  <1>8. /\ c0 \in Ctx /\ c0.live = ctx.live /\ c0.state = "image" /\ c0.first = ctx.first /\ c0.cfgbuf = ctx.cfgbuf
        /\ c0.idx = ctx.idx /\ c0.dl = ctx.dl /\ c0.buf = ctx.buf /\ c0.read = ctx.read /\ c0.len = L
        /\ c0.wrt = Pos /\ (new => c0.dig.on /\ c0.dig.good) /\ (~ new => c0.dig = ctx.dig)
    <2>1. CASE new
      <3>1. PICK d : d = NewDig
        OBVIOUS
      <3>2. d \in Dig /\ d.on /\ d.good
        BY <3>1 DEF NewDig, Dig
      <3>3. c0 = [ctx EXCEPT !.hdl = TRUE, !.wrt = 0, !.len = L, !.dig = d]
        BY <1>7, <2>1, <3>1
      <3>4. Pos = 0 /\ L \in Nat
        BY <1>6, <1>7, <2>1 DEF Pos
      <3> QED
        BY <1>2, <2>1, <3>2, <3>3, <3>4 DEF Ctx
    <2>2. CASE ~ new
      BY <1>2, <1>3, <1>7, <2>2 DEF Pos
    <2> QED
      BY <1>7, <2>1, <2>2
  <1>9. /\ old \in [made : BOOLEAN, n : Nat, good : BOOLEAN, blind : BOOLEAN] /\ old.made
        /\ (new => old.good) /\ (~ new => old = img[ctx.idx])
    <2>1. CASE new
      BY <1>7, <2>1 DEF NoImg
    <2>2. CASE ~ new
      BY <1>2, <1>3, <1>4, <1>7, <2>2
    <2> QED
      BY <1>7, <2>1, <2>2
  <1>10. L # 0 /\ c0.dig.on /\ c0.dig.good => old.good
    BY <1>4, <1>7, <1>8, <1>9
  <1>11. L = ImgLen[ctx.idx] /\ L \in Nat /\ Pos \in Nat /\ Pos <= L /\ rest \in Nat /\ rest = ctx.buf.n - ctx.buf.off
    <2>1. Pos <= L
      BY <1>3, <1>6, <1>7 DEF Pos
    <2> QED
      BY <1>3, <1>6, <1>7, <1>8, <2>1 DEF Pos
  <1>12. k \in Nat /\ k <= rest /\ (~ allInOne => k = rest) /\ (allInOne => k <= L - Pos)
    BY <1>7, <1>8, <1>11
  <1>13. fit \in BOOLEAN
    BY <1>7 DEF Fits
  <1>14. /\ c1 \in Ctx /\ c1.live = ctx.live /\ c1.state = "image" /\ c1.first = ctx.first
         /\ c1.cfgbuf = ctx.cfgbuf /\ c1.idx = ctx.idx /\ c1.dl = ctx.dl /\ c1.len = L
         /\ c1.wrt = Pos + k /\ c1.read = ctx.read + k
         /\ c1.buf.off = ctx.buf.off + k /\ c1.buf.n = ctx.buf.n /\ c1.buf.pos = ctx.buf.pos
         /\ c1.dig.on = c0.dig.on /\ c1.dig.good = (c0.dig.good /\ fit)
    <2>1. /\ c1 = [c0 EXCEPT !.buf.off = @ + k, !.read = @ + k, !.wrt = @ + k,
                             !.dig.n = @ + k, !.dig.good = @ /\ fit]
          /\ c0.buf = ctx.buf /\ c0.read = ctx.read /\ c0.wrt = Pos /\ c0.dig \in Dig
      BY <1>7, <1>8 DEF Ctx
    <2>2. PICK b, g, d : /\ b = [ctx.buf EXCEPT !.off = ctx.buf.off + k] /\ g = (c0.dig.good /\ fit)
                         /\ d = [c0.dig EXCEPT !.n = c0.dig.n + k, !.good = g]
      OBVIOUS
    <2>3. b \in Buf /\ b.off = ctx.buf.off + k /\ b.n = ctx.buf.n /\ b.pos = ctx.buf.pos
      BY <1>6, <1>12, <2>2 DEF Buf
    <2>4. d \in Dig /\ d.on = c0.dig.on /\ d.good = g
      <3>1. PICK e \in Dig : e = c0.dig
        BY <2>1
      <3>2. g \in BOOLEAN /\ d = [e EXCEPT !.n = e.n + k, !.good = g]
        BY <2>2, <3>1
      <3>3. e.n + k \in Nat
        BY <1>12 DEF Dig
      <3>4. d \in Dig /\ d.on = e.on /\ d.good = g
        BY <3>2, <3>3 DEF Dig
      <3> QED
        BY <3>1, <3>4
    <2>5. c1 = [c0 EXCEPT !.buf = b, !.read = ctx.read + k, !.wrt = Pos + k, !.dig = d]
      BY <1>8, <2>1, <2>2 DEF Ctx
    <2>6. ctx.read + k \in Nat /\ Pos + k \in Nat
      BY <1>6, <1>11, <1>12
    <2>7. d.good = (c0.dig.good /\ fit)
      BY <2>2, <2>4
    <2> QED
      BY <1>8, <2>3, <2>4, <2>5, <2>6, <2>7 DEF Ctx
  <1>15. ImageTurn(w, new, L, c0, k, fit, c1, old)
    BY <1>0
  <1>16. CASE Next2(w, ctx, "receive") /\ UNCHANGED <<img, link, bad>> /\ allInOne /\ ctx.buf.off >= ctx.buf.n
    <2>1. ctx' = [ctx EXCEPT !.state = "receive"] /\ Moved(w, "check") /\ "receive" \in State
      BY <1>2, <1>16, NextMoves DEF Next2, State
    <2>2. /\ ctx' \in Ctx /\ ctx'.live /\ ctx'.state = "receive" /\ ~ ctx'.first /\ ~ ctx'.cfgbuf
          /\ ctx'.idx = ctx.idx /\ ctx'.len = ctx.len /\ ctx'.wrt = ctx.wrt /\ ctx'.read = ctx.read
          /\ ctx'.dl = ctx.dl /\ ctx'.buf = ctx.buf /\ ctx'.dig = ctx.dig
      BY <1>2, <1>3, <2>1 DEF Ctx
    <2>3. Pos' = Pos
      BY <2>2 DEF Pos
    <2>4. link.open => link.pos = ctx.read
      BY <1>3, <1>5, <1>6, <1>16
    <2> QED
      BY <1>1, <1>2, <1>3, <1>4, <1>5, <1>16, <2>1, <2>2, <2>3, <2>4, ImageStays
  <1>17. CASE /\ allInOne /\ new /\ L = 0 /\ img' = [img EXCEPT ![ctx.idx] = old]
              /\ ImageDone(w, [c0 EXCEPT !.dig = ctx.dig]) /\ UNCHANGED <<link, bad>>
    <2>1. PICK c : c = [c0 EXCEPT !.dig = ctx.dig]
      OBVIOUS
    <2>2. /\ c \in Ctx /\ c.live /\ ~ c.first /\ ~ c.cfgbuf /\ c.idx = ctx.idx /\ c.dl = ctx.dl
          /\ c.state = "image" /\ c.buf = ctx.buf /\ c.read = ctx.read
      BY <1>2, <1>3, <1>6, <1>8, <2>1 DEF Ctx
    <2>3. /\ img' \in [Images -> [made : BOOLEAN, n : Nat, good : BOOLEAN, blind : BOOLEAN]]
          /\ img'[ctx.idx] = old /\ \A i \in Images : i # ctx.idx => img'[i] = img[i]
      BY <1>2, <1>3, <1>9, <1>17
    <2>4. old.n = 0
      BY <1>7, <1>17 DEF NoImg
    <2>5. ctx.read = Start[ctx.idx] + ImgLen[ctx.idx]
      <3>1. ctx.len = 0 /\ ImgLen[ctx.idx] = 0
        BY <1>7, <1>17
      <3> QED
        BY <1>5, <1>17, <3>1 DEF Pos
    <2>6. ImageDone(w, c) /\ link' = link /\ bad' = bad
      BY <1>17, <2>1
    <2>7. /\ img'[ctx.idx].made /\ img'[ctx.idx].n = ImgLen[ctx.idx] /\ img'[ctx.idx].good
      BY <1>9, <1>11, <1>17, <2>3, <2>4
    <2>8. c.buf.off <= c.buf.n /\ c.buf.pos + c.buf.off = c.read
      BY <1>3, <1>5, <2>2
    <2> QED
      BY <1>1, <1>2, <2>2, <2>3, <2>5, <2>6, <2>7, <2>8, ImageDoneIInv
  <1>18. CASE bad' = "null" /\ UNCHANGED <<ctx, wk, img, link>>
    <2>1. TypeOK' /\ Unique'
      BY <1>1, <1>2, <1>18 DEF TypeOK, Unique
    <2> QED
      BY <1>1, <1>18, <2>1, Quiet DEF Seen
  <1>19. CASE UNCHANGED bad /\ abort /\ ctx' = c0 /\ img' \in {img, [img EXCEPT ![ctx.idx] = old]}
    <2>1. Moved(w, "fin") /\ link' = NoLink /\ ~ link'.open
      BY <1>2, <1>19, FinMoves, NoLinkIs DEF abort
    <2>2. /\ img' \in [Images -> [made : BOOLEAN, n : Nat, good : BOOLEAN, blind : BOOLEAN]]
          /\ img'[ctx.idx] \in {img[ctx.idx], old} /\ \A i \in Images : i # ctx.idx => img'[i] = img[i]
      <3>1. CASE img' = img
        BY <1>2, <3>1
      <3>2. CASE img' = [img EXCEPT ![ctx.idx] = old]
        BY <1>2, <1>3, <1>9, <3>2
      <3> QED
        BY <1>19, <3>1, <3>2
    <2>3. ctx'.dig = c0.dig /\ ctx'.len = L /\ ctx'.wrt = Pos /\ ctx'.read = ctx.read /\ ctx'.buf = ctx.buf
      BY <1>8, <1>19
    <2>4. Pos' = Pos
      BY <1>11, <2>3 DEF Pos
    <2>5. L # 0 /\ (ctx'.len = 0 \/ (ctx'.dig.on /\ ctx'.dig.good)) => img'[ctx.idx].good
      <3>1. L # 0 /\ c0.dig.on /\ c0.dig.good => img[ctx.idx].good
        BY <1>4, <1>7, <1>8
      <3> QED
        BY <1>10, <2>2, <2>3, <3>1
    <2>6. /\ ctx' \in Ctx /\ ctx'.live /\ ~ ctx'.first /\ ~ ctx'.cfgbuf /\ ctx'.idx = ctx.idx
          /\ ctx'.dl = ctx.dl /\ ctx'.state = "image"
      BY <1>2, <1>3, <1>8, <1>19
    <2> QED
      BY <1>1, <1>2, <1>3, <1>5, <1>11, <1>19, <2>1, <2>2, <2>3, <2>4, <2>5, <2>6, ImageStays
  <1>20. ASSUME UNCHANGED bad, ctx.dig.on, k <= c0.len - c0.wrt,
                img' = [img EXCEPT ![ctx.idx] = [old EXCEPT !.n = c1.wrt, !.good = @ /\ fit]],
                IF c1.wrt < c1.len
                THEN /\ UNCHANGED link
                     /\ IF allInOne THEN ctx' = c1 /\ UNCHANGED wk ELSE Next2(w, c1, "receive")
                ELSE IF c1.dig.n = L /\ c1.dig.good THEN ImageDone(w, c1) /\ UNCHANGED link
                ELSE abort /\ ctx' = c1
         PROVE  IInv'
    <2>1. k <= L - Pos /\ c0.dig.on
      BY <1>8, <1>20
    <2>2. PICK g, r : g = (old.good /\ fit) /\ r = [old EXCEPT !.n = c1.wrt, !.good = g]
      OBVIOUS
    <2>3. /\ r \in [made : BOOLEAN, n : Nat, good : BOOLEAN, blind : BOOLEAN] /\ r.made /\ r.n = Pos + k
          /\ r.good = (old.good /\ fit)
      <3>1. g \in BOOLEAN /\ c1.wrt \in Nat /\ c1.wrt = Pos + k
        BY <1>11, <1>12, <1>14, <2>2
      <3>2. r \in [made : BOOLEAN, n : Nat, good : BOOLEAN, blind : BOOLEAN] /\ r.made /\ r.n = Pos + k /\ r.good = g
        BY <1>9, <2>2, <3>1
      <3> QED
        BY <2>2, <3>2
    <2>10. img' = [img EXCEPT ![ctx.idx] = r] /\ bad' = bad
      BY <1>20, <2>2
    <2>4. /\ img' \in [Images -> [made : BOOLEAN, n : Nat, good : BOOLEAN, blind : BOOLEAN]]
          /\ img'[ctx.idx] = r /\ \A i \in Images : i # ctx.idx => img'[i] = img[i]
      BY <1>2, <1>3, <2>3, <2>10
    <2>5. L # 0 /\ c1.dig.good => r.good
      BY <1>10, <1>14, <2>1, <2>3
    <2>6. /\ ctx.buf.off + k <= ctx.buf.n /\ Pos + k <= L
          /\ ctx.buf.pos + (ctx.buf.off + k) = ctx.read + k
          /\ ctx.read + k = (IF allInOne THEN Start[ctx.idx] ELSE 0) + (Pos + k)
      <3>1. ctx.buf.off + k <= ctx.buf.n /\ Pos + k <= L /\ ctx.buf.pos + (ctx.buf.off + k) = ctx.read + k
        BY <1>5, <1>6, <1>11, <1>12, <2>1
      <3>2. CASE allInOne
        <4>1. Start[ctx.idx] \in Int
          BY <1>3, StartNat
        <4> QED
          BY <1>5, <1>11, <1>12, <3>1, <3>2, <4>1
      <3>3. CASE ~ allInOne
        BY <1>5, <1>11, <1>12, <3>1, <3>3
      <3> QED
        BY <3>2, <3>3
    <2>7. CASE c1.wrt < c1.len
      <3>1. link' = link /\ L # 0
        BY <1>11, <1>12, <1>14, <1>20, <2>7
      <3>2. CASE allInOne
        <4>1. ctx' = c1 /\ wk' = wk
          BY <1>20, <2>7, <3>2
        <4>2. Pos' = Pos + k
          BY <1>14, <3>1, <4>1 DEF Pos
        <4>3. /\ ctx' \in Ctx /\ ctx'.live /\ ~ ctx'.first /\ ~ ctx'.cfgbuf /\ ctx'.idx = ctx.idx
              /\ ctx'.dl = ctx.dl /\ ctx'.state = "image" /\ ctx'.len = L /\ ctx'.wrt <= ctx'.len
              /\ ctx'.buf.off <= ctx'.buf.n /\ ctx'.buf.pos + ctx'.buf.off = ctx'.read
              /\ ctx'.read = (IF allInOne THEN Start[ctx.idx] ELSE 0) + Pos'
              /\ ctx'.buf.n = ctx.buf.n /\ ctx'.buf.pos = ctx.buf.pos
          BY <1>2, <1>3, <1>14, <2>6, <4>1, <4>2
        <4>4. /\ link'.open => link'.pos = ctx'.buf.pos + ctx'.buf.n
              /\ ImgLen[ctx.idx] # 0 /\ (ctx'.len = 0 \/ (ctx'.dig.on /\ ctx'.dig.good)) => img'[ctx.idx].good
              /\ img'[ctx.idx].made
          BY <1>5, <1>11, <2>3, <2>4, <2>5, <3>1, <4>1, <4>3
        <4> QED
          BY <1>1, <1>2, <1>11, <2>4, <2>10, <3>1, <4>1, <4>3, <4>4, ImageStays
      <3>3. CASE ~ allInOne
        <4>1. ctx' = [c1 EXCEPT !.state = "receive"] /\ Moved(w, "check") /\ "receive" \in State
          BY <1>2, <1>20, <2>7, <3>3, NextMoves DEF Next2, State
        <4>2. /\ ctx' \in Ctx /\ ctx'.live /\ ~ ctx'.first /\ ~ ctx'.cfgbuf /\ ctx'.idx = ctx.idx
              /\ ctx'.dl = ctx.dl /\ ctx'.state = "receive" /\ ctx'.len = L /\ ctx'.wrt = Pos + k
              /\ ctx'.read = ctx.read + k /\ ctx'.buf = c1.buf /\ ctx'.dig = c1.dig
          BY <1>2, <1>3, <1>14, <4>1 DEF Ctx
        <4>3. Pos' = Pos + k
          BY <3>1, <4>2 DEF Pos
        <4>4. link.open => link.pos = ctx.read + k
          BY <1>5, <1>6, <1>11, <1>12, <3>3
        <4>5. /\ ctx'.buf.off <= ctx'.buf.n /\ ctx'.wrt <= ctx'.len
              /\ ctx'.read = (IF allInOne THEN Start[ctx.idx] ELSE 0) + Pos'
              /\ link'.open => link'.pos = ctx'.read
          BY <1>14, <2>6, <3>1, <4>2, <4>3, <4>4
        <4>6. /\ ImgLen[ctx.idx] # 0 /\ (ctx'.len = 0 \/ (ctx'.dig.on /\ ctx'.dig.good)) => img'[ctx.idx].good
              /\ img'[ctx.idx].made
          BY <1>11, <2>3, <2>4, <2>5, <3>1, <4>2
        <4> QED
          BY <1>1, <1>2, <1>11, <2>4, <2>10, <3>1, <4>1, <4>2, <4>5, <4>6, ImageStays
      <3> QED
        BY <3>2, <3>3
    <2>8. CASE ~ (c1.wrt < c1.len) /\ c1.dig.n = L /\ c1.dig.good
      <3>1. ImageDone(w, c1) /\ link' = link
        BY <1>20, <2>8
      <3>2. Pos + k = L
        BY <1>11, <1>12, <1>14, <2>6, <2>8
      <3>3. r.good
        BY <1>4, <1>7, <1>8, <1>9, <1>14, <2>1, <2>3, <2>8
      <3>4. allInOne => ctx.read + k = Start[ctx.idx] + L
        BY <2>6, <3>2
      <3>5. /\ img'[ctx.idx].made /\ img'[ctx.idx].n = ImgLen[ctx.idx] /\ img'[ctx.idx].good
        BY <1>11, <2>3, <2>4, <3>2, <3>3
      <3>6. /\ c1.live /\ ~ c1.first /\ ~ c1.cfgbuf /\ c1.buf.off <= c1.buf.n /\ c1.buf.pos + c1.buf.off = c1.read
            /\ allInOne => c1.read = Start[ctx.idx] + ImgLen[ctx.idx]
        BY <1>2, <1>3, <1>11, <1>14, <2>6, <3>4
      <3> QED
        BY <1>1, <1>2, <1>14, <2>4, <2>10, <3>1, <3>5, <3>6, ImageDoneIInv
    <2>9. CASE ~ (c1.wrt < c1.len) /\ ~ (c1.dig.n = L /\ c1.dig.good)
      <3>1. abort /\ ctx' = c1
        BY <1>20, <2>9
      <3>2. Moved(w, "fin") /\ link' = NoLink /\ ~ link'.open
        BY <1>2, <3>1, FinMoves, NoLinkIs DEF abort
      <3>3. Pos' = Pos + k
        BY <1>11, <1>12, <1>14, <2>6, <3>1 DEF Pos
      <3>4. /\ ctx' \in Ctx /\ ctx'.live /\ ~ ctx'.first /\ ~ ctx'.cfgbuf /\ ctx'.idx = ctx.idx
            /\ ctx'.dl = ctx.dl /\ ctx'.state = "image" /\ ctx'.len = L /\ ctx'.wrt <= ctx'.len
            /\ ctx'.buf.off <= ctx'.buf.n /\ ctx'.buf.pos + ctx'.buf.off = ctx'.read
            /\ ctx'.read = (IF allInOne THEN Start[ctx.idx] ELSE 0) + Pos'
        BY <1>2, <1>3, <1>14, <2>6, <3>1, <3>3
      <3>5. ImgLen[ctx.idx] # 0 /\ (ctx'.len = 0 \/ (ctx'.dig.on /\ ctx'.dig.good)) => img'[ctx.idx].good
        BY <1>11, <1>14, <2>4, <2>5, <3>1
      <3> QED
        BY <1>1, <1>2, <1>11, <2>4, <2>10, <3>2, <3>4, <3>5, ImageStays
    <2> QED
      BY <2>7, <2>8, <2>9
  <1> QED
    <2>1. \/ Next2(w, ctx, "receive") /\ UNCHANGED <<img, link, bad>> /\ allInOne /\ ctx.buf.off >= ctx.buf.n
          \/ /\ allInOne /\ new /\ L = 0 /\ img' = [img EXCEPT ![ctx.idx] = old]
             /\ ImageDone(w, [c0 EXCEPT !.dig = ctx.dig]) /\ UNCHANGED <<link, bad>>
          \/ bad' = "null" /\ UNCHANGED <<ctx, wk, img, link>>
          \/ UNCHANGED bad /\ abort /\ ctx' = c0 /\ img' \in {img, [img EXCEPT ![ctx.idx] = old]}
          \/ /\ UNCHANGED bad /\ ctx.dig.on /\ k <= c0.len - c0.wrt
             /\ img' = [img EXCEPT ![ctx.idx] = [old EXCEPT !.n = c1.wrt, !.good = @ /\ fit]]
             /\ IF c1.wrt < c1.len
                THEN /\ UNCHANGED link
                     /\ IF allInOne THEN ctx' = c1 /\ UNCHANGED wk ELSE Next2(w, c1, "receive")
                ELSE IF c1.dig.n = L /\ c1.dig.good THEN ImageDone(w, c1) /\ UNCHANGED link
                ELSE abort /\ ctx' = c1
      BY <1>15 DEF ImageTurn, abort
    <2> QED
      BY <2>1, <1>16, <1>17, <1>18, <1>19, <1>20

LEMMA WorkerIInv ==
  ASSUME IInv, NEW w \in Workers, Worker(w)
  PROVE  IInv'
  BY EnterIInv, SessionInitIInv, ResumeGoIInv, BodyPlainIInv, BodyEraseFwdIInv, BodyPrepareConnectIInv,
     BodyConnectIInv, BodyResumeServiceIInv, BodyResumeServerIInv, BodyReceiveIInv, BodyConfigIInv,
     BodyImageIInv, BodyDisconnectIInv, BodyDupImagesIInv, BodyFinishIInv, FinalizeIInv DEF Worker

LEMMA StutterIInv ==
  ASSUME IInv, UNCHANGED vars
  PROVE  IInv'
  <1>1. UNCHANGED <<ctx, hdr, wk, con, asked, link, img, valid, bad, calls, allInOne>>
    BY DEF vars
  <1>2. TypeOK' /\ Unique'
    BY <1>1 DEF IInv, TypeOK, Unique
  <1> QED
    BY <1>1, <1>2, Quiet DEF Seen

LEMMA Inductive ==
  ASSUME OneAtATime
  PROVE  Spec => []IInv
  <1>1. IInv /\ [Next]_vars => IInv'
    <2> SUFFICES ASSUME IInv, [Next]_vars PROVE IInv'
      OBVIOUS
    <2>1. CASE ConsoleCall \/ ConsoleStep
      BY <2>1, ConsoleIInv
    <2>2. CASE \E w \in Workers : Worker(w)
      BY <2>2, WorkerIInv
    <2>3. CASE Halted \/ UNCHANGED vars
      BY <2>3, StutterIInv DEF Halted
    <2> QED
      BY <2>1, <2>2, <2>3 DEF Next
  <1> QED
    BY <1>1, InitIInv, PTL DEF Spec

-----------------------------------------------------------------------------
(* The theorems about the session and what it writes.                      *)

\* Type correctness; image_index stays within the table, or one past it.
THEOREM TypeCorrect ==
  ASSUME OneAtATime
  PROVE  Spec => []TypeOK
  <1>1. IInv => TypeOK
    BY DEF IInv
  <1> QED
    BY <1>1, Inductive, PTL

\* Whatever is cancelled, suspended, resumed or damaged, and for every set of
\* images and size of the buffer, the FWD is valid only when every image is
\* complete and is what its hash says, or is a copy from the running set whose
\* read failed without the code noticing.
THEOREM ValidAreVerified ==
  ASSUME OneAtATime
  PROVE  Spec => []ValidIsVerified
  <1>1. IInv => ValidIsVerified
    BY DEF IInv, Verdict, Complete, Whole, ValidIsVerified
  <1> QED
    BY <1>1, Inductive, PTL

\* A worker that waits for the rest of an image reads it from where it stopped,
\* in both formats and after any number of resumes.
THEOREM StreamIsAligned ==
  ASSUME OneAtATime
  PROVE  Spec => []StreamAligned
  <1>1. IInv => StreamAligned
    <2> SUFFICES ASSUME IInv, ctx.state = "receive", link.open, ctx.len > 0
                 PROVE  link.pos = IF allInOne THEN Start[ctx.idx] + ctx.wrt ELSE ctx.wrt
      BY DEF StreamAligned
    <2>1. ctx.len # 0 /\ ctx.idx \in Images /\ ~ ctx.first
      <3>1. ctx.len \in Nat
        BY DEF IInv, TypeOK, Ctx
      <3> QED
        BY <3>1 DEF IInv, Bounds
    <2>2. Pos = ctx.wrt
      BY <2>1 DEF Pos
    <2> QED
      BY <2>1, <2>2 DEF IInv, Stream
  <1> QED
    BY <1>1, Inductive, PTL

-----------------------------------------------------------------------------
(* What a call reports, whoever calls.                                     *)

\* Only worker w has changed, and it has not made the FWD valid.
LEMMA ReportKept ==
  ASSUME Report, NEW w \in Workers, wk' \in [Workers -> Wk], valid' \in BOOLEAN,
         \A v \in Workers : v # w => wk'[v].pc = wk[v].pc /\ wk'[v].ret = wk[v].ret
                                     /\ wk'[v].marked = wk[v].marked,
         ~ wk'[w].marked, wk'[w].pc = "mark" => wk'[w].ret = "ok"
  PROVE  Report'
  BY DEF Report

LEMMA ReportBody ==
  ASSUME Report, NEW w \in Workers, wk[w].pc \in {"start", "init", "resume", "resume2", "check", "body", "fin"},
         valid' \in BOOLEAN,
         \/ wk' = wk
         \/ \E p \in WkPc \ {"mark"} : Go(w, p)
         \/ \E r \in {"ok", "err"} : Fin(w, r)
         \/ Return(w, "err")
  PROVE  Report'
  <1>1. wk \in [Workers -> Wk] /\ ~ wk[w].marked
    BY DEF Report, Wk
  <1>2. CASE wk' = wk
    BY <1>2 DEF Report
  <1>3. CASE \E p \in WkPc \ {"mark"} : Go(w, p)
    <2>1. PICK p \in WkPc \ {"mark"} : Go(w, p)
      BY <1>3
    <2>2. Moved(w, p) /\ wk'[w].marked = wk[w].marked
      BY <1>1, <2>1, GoIs
    <2> QED
      BY <1>1, <2>2, ReportKept DEF Moved
  <1>4. CASE \E r \in {"ok", "err"} : Fin(w, r)
    <2>1. Moved(w, "fin") /\ wk'[w].marked = wk[w].marked
      BY <1>1, <1>4, FinIs
    <2> QED
      BY <1>1, <2>1, ReportKept DEF Moved
  <1>5. CASE Return(w, "err")
    <2>1. Left(w) /\ wk'[w].marked = wk[w].marked
      BY <1>1, <1>5, ReturnIs
    <2> QED
      BY <1>1, <2>1, ReportKept DEF Left
  <1> QED
    BY <1>2, <1>3, <1>4, <1>5

LEMMA ReportStep ==
  ASSUME Report, NEW w \in Workers, Worker(w)
  PROVE  Report'
  <1>1. wk \in [Workers -> Wk] /\ valid \in BOOLEAN
    BY DEF Report
  <1>2. "check" \in WkPc \ {"mark"} /\ "body" \in WkPc \ {"mark"} /\ "init" \in WkPc \ {"mark"}
        /\ "resume2" \in WkPc \ {"mark"}
    BY DEF WkPc
  <1>3. CASE StartCheck(w) \/ ResumeCheck(w) \/ LoopCheck(w) \/ StaleContext(w)
    <2>1. CASE StartCheck(w) \/ ResumeCheck(w) \/ LoopCheck(w)
      <3>1. /\ wk[w].pc \in {"start", "resume", "check"} /\ valid' = valid
            /\ Return(w, "err") \/ Go(w, "init") \/ Go(w, "resume2") \/ Go(w, "body") \/ Fin(w, "ok")
        BY <2>1 DEF StartCheck, ResumeCheck, LoopCheck, At
      <3> QED
        BY <1>1, <1>2, <3>1, ReportBody
    <2>2. CASE StaleContext(w)
      BY <2>2 DEF StaleContext, Report
    <2> QED
      BY <1>3, <2>1, <2>2
  <1>4. CASE \/ BodyPlain(w) \/ BodyEraseFwd(w) \/ BodyPrepareConnect(w) \/ BodyConnect(w)
             \/ BodyResumeService(w) \/ BodyResumeServer(w) \/ BodyReceive(w)
             \/ BodyDisconnect(w) \/ BodyDupImages(w) \/ BodyFinish(w)
    <2>1. /\ wk[w].pc = "body" /\ valid' \in BOOLEAN
          /\ wk' = wk \/ Go(w, "check") \/ Fin(w, "ok") \/ Fin(w, "err")
      BY <1>1, <1>4 DEF BodyPlain, BodyEraseFwd, BodyPrepareConnect, BodyConnect, BodyResumeService,
         BodyResumeServer, BodyReceive, BodyDisconnect, BodyDupImages, BodyFinish, BodyFail, Body, At, Next2
    <2> QED
      BY <1>2, <2>1, ReportBody
  <1>5. CASE BodyConfig(w) \/ BodyImage(w)
    <2>1. /\ wk[w].pc = "body" /\ valid' \in BOOLEAN
          /\ wk' = wk \/ Go(w, "check") \/ Fin(w, "ok") \/ Fin(w, "err")
      <3>1. CASE BodyConfig(w)
        BY <1>1, <3>1 DEF BodyConfig, Body, At, Next2
      <3>2. CASE BodyImage(w)
        <4>1. wk[w].pc = "body" /\ valid' = valid
          BY <3>2 DEF BodyImage, Body, At
        <4>2. ASSUME NEW c, NEW t, Next2(w, c, t) PROVE Go(w, "check")
          BY <4>2 DEF Next2
        <4>3. ASSUME NEW c, ImageDone(w, c) PROVE wk' = wk \/ Go(w, "check")
          BY <4>2, <4>3 DEF ImageDone
        <4>4. wk' = wk \/ Go(w, "check") \/ Fin(w, "err")
          BY <3>2, <4>2, <4>3, Zenon DEF BodyImage
        <4> QED
          BY <1>1, <4>1, <4>4
      <3> QED
        BY <1>5, <3>1, <3>2
    <2> QED
      BY <1>2, <2>1, ReportBody
  <1>6. CASE SessionInit(w)
    <2>0. wk[w].pc = "init" /\ ~ wk[w].marked /\ valid' = valid
      BY <1>6 DEF SessionInit, At, Report
    <2>1. PICK q : q = Orphaned
      OBVIOUS
    <2>2. /\ q \in [Workers -> Wk]
          /\ \A v \in Workers : q[v].pc = wk[v].pc /\ q[v].ret = wk[v].ret /\ q[v].marked = wk[v].marked
      BY <1>1, <2>1, OrphanIs
    <2>3. ASSUME NEW p \in {"check", "fin"},
                 wk' = [q EXCEPT ![w] = [pc |-> p, mine |-> TRUE, marked |-> FALSE,
                                         ret |-> IF p = "fin" THEN "err" ELSE "ok"]]
          PROVE  Report'
      <3>1. PICK r : r = [pc |-> p, mine |-> TRUE, marked |-> FALSE, ret |-> IF p = "fin" THEN "err" ELSE "ok"]
        OBVIOUS
      <3>2. r \in Wk /\ ~ r.marked /\ r.pc = p
        BY <3>1 DEF Wk, WkPc
      <3>3. wk' = [q EXCEPT ![w] = r]
        BY <2>3, <3>1
      <3>4. wk' \in [Workers -> Wk] /\ wk'[w] = r /\ \A v \in Workers : v # w => wk'[v] = q[v]
        BY <2>2, <3>2, <3>3, Replaced
      <3> QED
        BY <1>1, <2>0, <2>2, <3>2, <3>4, ReportKept
    <2>4. CASE wk' = [q EXCEPT ![w].pc = "idle", ![w].ret = "err"]
      <3>1. /\ wk' \in [Workers -> Wk] /\ wk'[w].pc = "idle" /\ wk'[w].marked = q[w].marked
            /\ \A v \in Workers : v # w => wk'[v] = q[v]
        BY <2>2, <2>4, Dropped
      <3> QED
        BY <1>1, <2>0, <2>2, <3>1, ReportKept
    <2>5. \/ \E p \in {"check", "fin"} :
               wk' = [q EXCEPT ![w] = [pc |-> p, mine |-> TRUE, marked |-> FALSE,
                                       ret |-> IF p = "fin" THEN "err" ELSE "ok"]]
          \/ wk' = [q EXCEPT ![w].pc = "idle", ![w].ret = "err"]
      BY <1>6, <2>1 DEF SessionInit
    <2> QED
      BY <2>3, <2>4, <2>5
  <1>7. CASE ResumeGo(w)
    <2>0. wk[w].pc = "resume2" /\ valid' = valid
      BY <1>7 DEF ResumeGo, At
    <2>1. CASE Return(w, "err")
      BY <1>1, <2>0, <2>1, ReportBody
    <2>2. CASE \/ wk' = [wk EXCEPT ![w] = [NoWk EXCEPT !.pc = "check", !.mine = TRUE]]
               \/ wk' = [wk EXCEPT ![w] = [NoWk EXCEPT !.pc = "fin", !.ret = "err", !.mine = TRUE]]
      <3>1. "check" \in WkPc /\ "fin" \in WkPc
        BY DEF WkPc
      <3>2. PICK r : r \in Wk /\ ~ r.marked /\ r.pc \in {"check", "fin"} /\ wk' = [wk EXCEPT ![w] = r]
        BY <2>2, <3>1, NewWkIs
      <3>3. wk' \in [Workers -> Wk] /\ wk'[w] = r /\ \A v \in Workers : v # w => wk'[v] = wk[v]
        BY <1>1, <3>2, Replaced
      <3> QED
        BY <1>1, <2>0, <3>2, <3>3, ReportKept
    <2> QED
      BY <1>7, <2>1, <2>2 DEF ResumeGo
  <1>8. CASE Finalize(w)
    <2>0. wk[w].pc = "fin" /\ valid' = valid /\ ~ wk[w].marked
      BY <1>8 DEF Finalize, At, Report
    <2>1. CASE Return(w, "err")
      BY <1>1, <2>0, <2>1, ReportBody
    <2>2. CASE ctx.live
      <3> DEFINE r == IF ctx.status = "cancel" THEN "cancelled"
                      ELSE IF wk[w].ret = "ok" /\ ctx.state # "finish" THEN "incomplete"
                      ELSE wk[w].ret
                 p == IF r = "ok" THEN "mark" ELSE "status"
      <3>1. wk' = [wk EXCEPT ![w].ret = r, ![w].pc = p]
        BY <1>8, <2>2 DEF Finalize
      <3>2. r \in {"ok", "err", "cancelled", "incomplete", "suspended"} /\ p \in WkPc /\ (p = "mark" => r = "ok")
        BY <1>1 DEF Wk, WkPc
      <3> HIDE DEF r, p
      <3>3. /\ wk' \in [Workers -> Wk] /\ wk'[w].ret = r /\ wk'[w].pc = p /\ wk'[w].marked = wk[w].marked
            /\ \A v \in Workers : v # w => wk'[v] = wk[v]
        BY <1>1, <3>1, <3>2 DEF Wk
      <3> QED
        BY <1>1, <2>0, <3>2, <3>3, ReportKept
    <2> QED
      BY <1>8, <2>1, <2>2 DEF Finalize
  <1>9. CASE FinalizeMark(w)
    <2> DEFINE p == IF AutoReboot THEN "reboot" ELSE "status"
    <2>1. valid' \in BOOLEAN /\ wk' = [wk EXCEPT ![w].pc = p, ![w].marked = valid'] /\ wk[w].pc = "mark"
      BY <1>1, <1>9 DEF FinalizeMark, At
    <2>2. p \in WkPc /\ p \in {"reboot", "status"} /\ wk[w].ret = "ok"
      BY <2>1 DEF WkPc, Report
    <2> HIDE DEF p
    <2>3. /\ wk' \in [Workers -> Wk] /\ wk'[w].pc = p /\ wk'[w].ret = wk[w].ret
          /\ \A v \in Workers : v # w => wk'[v] = wk[v]
      BY <1>1, <2>1, <2>2 DEF Wk
    <2> QED
      BY <2>1, <2>2, <2>3 DEF Report
  <1>10. CASE FinalizeReboot(w)
    <2>1. wk' = [v \in Workers |-> NoWk] /\ valid' = valid
      BY <1>10 DEF FinalizeReboot
    <2>2. wk' \in [Workers -> Wk] /\ \A v \in Workers : wk'[v].pc = "idle" /\ ~ wk'[v].marked
      BY <2>1, NoWkIs
    <2> QED
      BY <1>1, <2>1, <2>2 DEF Report
  <1>11. CASE FinalizeStatus(w)
    <2>1. wk[w].pc = "status" /\ valid' = valid
      BY <1>11 DEF FinalizeStatus, At
    <2>2. PICK p \in {"suspend", "free"} : Go(w, p)
      BY <1>11 DEF FinalizeStatus
    <2>3. Moved(w, p) /\ wk'[w].ret = wk[w].ret /\ wk'[w].marked = wk[w].marked
      <3>1. p \in WkPc
        BY DEF WkPc
      <3> QED
        BY <1>1, <2>2, <3>1, GoIs
    <2> QED
      BY <1>1, <2>1, <2>3 DEF Report, Moved
  <1>12. CASE FinalizeSuspend(w)
    <2>1. Left(w) /\ wk'[w].ret = "suspended" /\ valid' = valid
      BY <1>1, <1>12, ReturnIs DEF FinalizeSuspend
    <2> QED
      BY <1>1, <2>1 DEF Report, Left
  <1>13. CASE FinalizeFree(w)
    <2>1. PICK q : q = Orphaned
      OBVIOUS
    <2>2. /\ q \in [Workers -> Wk]
          /\ \A v \in Workers : q[v].pc = wk[v].pc /\ q[v].ret = wk[v].ret /\ q[v].marked = wk[v].marked
      BY <1>1, <2>1, OrphanIs
    <2>3. /\ wk' = [q EXCEPT ![w].pc = "idle"] /\ "idle" \in WkPc /\ wk[w].pc = "free" /\ valid' = valid
      BY <1>13, <2>1 DEF FinalizeFree, At, WkPc
    <2>4. /\ wk' \in [Workers -> Wk] /\ wk'[w].pc = "idle" /\ wk'[w].ret = q[w].ret
          /\ wk'[w].marked = q[w].marked /\ \A v \in Workers : v # w => wk'[v] = q[v]
      BY <2>2, <2>3 DEF Wk
    <2> QED
      BY <1>1, <2>2, <2>3, <2>4 DEF Report
  <1> QED
    BY <1>3, <1>4, <1>5, <1>6, <1>7, <1>8, <1>9, <1>10, <1>11, <1>12, <1>13 DEF Worker

\* The call that made the FWD valid does not report a failed or a cancelled
\* upgrade, whenever the cancel comes and however many tasks call.
THEOREM SuccessIsReported == Spec => []SuccessReported
  <1>1. Init => Report
    <2> SUFFICES ASSUME Init PROVE Report
      OBVIOUS
    <2>1. wk = [w \in Workers |-> NoWk] /\ valid = FALSE
      BY Zenon DEF Init
    <2>2. wk \in [Workers -> Wk] /\ \A w \in Workers : wk[w].pc = "idle" /\ ~ wk[w].marked
      BY <2>1, NoWkIs
    <2> QED
      BY <2>1, <2>2 DEF Report
  <1>2. Report /\ [Next]_vars => Report'
    <2> SUFFICES ASSUME Report, [Next]_vars PROVE Report'
      OBVIOUS
    <2>0. wk \in [Workers -> Wk] /\ valid \in BOOLEAN
      BY DEF Report
    <2>1. ASSUME NEW w \in Workers, CallStart(w) \/ CallResume(w) PROVE Report'
      <3>1. PICK p \in {"start", "resume"} : wk' = [wk EXCEPT ![w] = [NoWk EXCEPT !.pc = p]]
        BY <2>1 DEF CallStart, CallResume
      <3>2. valid' = valid
        BY <2>1 DEF CallStart, CallResume
      <3>3. p \in WkPc
        BY DEF WkPc
      <3>4. PICK r : r = [NoWk EXCEPT !.pc = p]
        OBVIOUS
      <3>5. r \in Wk /\ r.pc = p /\ ~ r.marked
        BY <3>3, <3>4, NewWkIs
      <3>6. wk' \in [Workers -> Wk] /\ wk'[w] = r /\ \A v \in Workers : v # w => wk'[v] = wk[v]
        <4>1. wk' = [wk EXCEPT ![w] = r]
          BY <3>1, <3>4
        <4> QED
          BY <2>0, <3>5, <4>1, Replaced
      <3> QED
        BY <2>0, <3>2, <3>5, <3>6, ReportKept
    <2>2. CASE CallCancel \/ CallSuspend \/ CancelStatus \/ CancelSet \/ SuspendSet \/ Halted \/ UNCHANGED vars
      <3>1. wk' = wk /\ valid' = valid
        BY <2>2 DEF CallCancel, CallSuspend, CancelStatus, CancelSet, SuspendSet, Halted, vars
      <3> QED
        BY <3>1 DEF Report
    <2>3. CASE CancelFin
      <3>1. wk' = Orphaned /\ valid' = valid
        BY <2>3 DEF CancelFin
      <3> QED
        BY <2>0, <3>1, OrphanIs DEF Report
    <2>4. CASE \E w \in Workers : Worker(w)
      BY <2>4, ReportStep
    <2> QED
      BY <2>1, <2>2, <2>3, <2>4 DEF Next, ConsoleCall, ConsoleStep
  <1>3. Report => SuccessReported
    BY DEF Report, SuccessReported
  <1> QED
    BY <1>1, <1>2, <1>3, PTL DEF Spec

-----------------------------------------------------------------------------
(* The session is there for its worker, and nothing is left behind.        *)

\* At most one worker is inside.
LEMMA OneInside ==
  ASSUME Unique, Owned, NEW w \in Workers, Inside(w)
  PROVE  wk[w].mine /\ ctx.live /\ \A v \in Workers : v # w => ~ Inside(v) /\ ~ wk[v].mine
  BY DEF Unique, Owned

\* The worker inside goes on, and the status stays.
LEMMA HeldMoves ==
  ASSUME IInv, Unique', Held, NEW w \in Workers, NEW p \in InsidePc, Moved(w, p), wk[w].pc \in InsidePc,
         ctx'.live = ctx.live, ctx'.status = ctx.status, UNCHANGED <<con, asked>>, bad' # "stale",
         p = "suspend" => ctx.status = "suspend",
         link'.open => p \in {"check", "body", "fin"}
  PROVE  Held'
  <1>1. wk[w].mine /\ ctx.live /\ \A v \in Workers : v # w => ~ Inside(v) /\ ~ wk[v].mine
    BY OneInside DEF IInv, Held, Inside
  <1>2. /\ wk'[w].pc = p /\ wk'[w].mine /\ Inside(w)' /\ \A v \in Workers : v # w => wk'[v] = wk[v]
    BY <1>1 DEF Moved, Inside
  <1>3. \A v \in Workers : Inside(v)' <=> Inside(v)
    BY <1>2 DEF Inside
  <1>4. p \notin {"start", "init", "resume", "resume2"} /\ wk[w].pc \notin {"start", "init", "resume", "resume2"}
    BY DEF InsidePc
  <1>5. (Resuming' <=> Resuming) /\ (Entering' <=> Entering) /\ (Nobody' <=> Nobody)
    BY <1>2, <1>3, <1>4 DEF Resuming, Entering, Nobody
  <1>6. Owned'
    BY <1>1, <1>2, <1>4, <1>5 DEF Held, Owned, Inside
  <1>7. Agreed'
    BY <1>1, <1>2, <1>5 DEF Held, Agreed
  <1>8. Kept'
    BY <1>1, <1>2 DEF Kept
  <1> QED
    BY <1>6, <1>7, <1>8 DEF Held

\* The session ends: no worker is inside any more.
LEMMA HeldEnds ==
  ASSUME IInv, IInv', Held, ~ ctx'.live, ~ hdr', ~ link'.open, bad' = bad,
         \A v \in Workers : wk'[v].pc = wk[v].pc \/ wk'[v].pc = "idle",
         \A v \in Workers : wk'[v].pc \notin InsidePc,
         con' = con \/ con' = "idle"
  PROVE  Held'
  <1>1. Entering' => Entering
    BY DEF Entering
  <1>2. Resuming' => Resuming
    BY DEF Resuming
  <1>3. Owned'
    BY <1>2 DEF Held, Owned, Inside
  <1>4. Agreed'
    BY <1>1 DEF Held, Agreed, InsidePc
  <1>5. Kept'
    BY DEF Kept
  <1> QED
    BY <1>3, <1>4, <1>5 DEF Held

LEMMA HeldEnter ==
  ASSUME ResumeWorks, IInv, IInv', Held, NEW w \in Workers, StartCheck(w) \/ SessionInit(w) \/ ResumeCheck(w) \/ ResumeGo(w)
  PROVE  Held'
  <1>0. /\ TypeOK /\ Unique /\ wk \in [Workers -> Wk] /\ ctx \in Ctx
        /\ UNCHANGED <<con, asked, link, bad>>
    BY DEF IInv, TypeOK, StartCheck, SessionInit, ResumeCheck, ResumeGo
  <1>1. wk[w].pc \in {"start", "init", "resume", "resume2"} /\ con = "idle" /\ ~ Inside(w)
    BY DEF StartCheck, SessionInit, ResumeCheck, ResumeGo, At, Held, Agreed, Entering, Inside, InsidePc
  <1>2. CASE StartCheck(w)
    <2>1. ctx' = ctx /\ hdr' = hdr /\ wk[w].pc = "start"
      BY <1>2 DEF StartCheck, At
    <2>2. PICK p \in {"idle", "init"} :
            /\ wk' \in [Workers -> Wk] /\ wk'[w].pc = p /\ ~ wk'[w].mine
            /\ \A v \in Workers : v # w => wk'[v] = wk[v]
            /\ p = "init" => ~ ctx.live
      <3>1. ~ wk[w].mine /\ "init" \in WkPc
        BY <1>0, <2>1 DEF Unique, InsidePc, WkPc
      <3>2. CASE ctx.live
        <4>1. Left(w)
          BY <1>0, <1>2, <3>2, ReturnMoves DEF StartCheck
        <4> QED
          BY <4>1 DEF Left
      <3>3. CASE ~ ctx.live
        <4>1. Moved(w, "init")
          BY <1>0, <1>2, <3>1, <3>3, GoMoves DEF StartCheck
        <4> QED
          BY <3>1, <3>3, <4>1 DEF Moved
      <3> QED
        BY <3>2, <3>3
    <2>3. \A v \in Workers : Inside(v)' <=> Inside(v)
      BY <1>1, <2>2 DEF Inside, InsidePc
    <2>4. (Resuming' <=> Resuming) /\ (Nobody' <=> Nobody)
      BY <2>1, <2>2, <2>3 DEF Resuming, Nobody
    <2>5. Owned'
      BY <1>1, <2>1, <2>2, <2>3, <2>4 DEF Held, Owned
    <2>6. Agreed'
      BY <1>0, <1>1, <2>1, <2>2, <2>4 DEF Held, Agreed
    <2>7. Kept'
      BY <1>0, <2>1, <2>2 DEF Held, Kept
    <2> QED
      BY <1>0, <2>5, <2>6, <2>7 DEF Held
  <1>3. CASE ResumeCheck(w)
    <2>1. ctx' = ctx /\ hdr' = hdr /\ wk[w].pc = "resume"
      BY <1>3 DEF ResumeCheck, At
    <2>2. \A v \in Workers : v # w => wk[v].pc = "idle"
      BY <1>0, <2>1 DEF Unique
    <2>3. Nobody
      BY <1>1, <2>2 DEF Nobody, Inside, InsidePc
    <2>4. ctx.live => ctx.status = "suspend"
      BY <2>3 DEF Held, Agreed
    <2>5. PICK p \in {"idle", "resume2"} :
            /\ wk'[w].pc = p /\ \A v \in Workers : v # w => wk'[v] = wk[v]
            /\ p = "idle" => ~ ctx.live
      <3>1. "resume2" \in WkPc
        BY DEF WkPc
      <3>2. CASE ctx.live
        <4>1. Moved(w, "resume2")
          BY <1>0, <1>3, <2>4, <3>1, <3>2, GoMoves DEF ResumeCheck
        <4> QED
          BY <4>1 DEF Moved
      <3>3. CASE ~ ctx.live
        <4>1. Left(w)
          BY <1>0, <1>3, <3>3, ReturnMoves DEF ResumeCheck
        <4> QED
          BY <3>3, <4>1 DEF Left
      <3> QED
        BY <3>2, <3>3
    <2>6. Nobody' /\ \A v \in Workers : wk'[v].pc \in {"idle", "resume2"}
      BY <2>2, <2>5 DEF Nobody, Inside, InsidePc
    <2>7. /\ Resuming /\ (ctx.live => Resuming')
      BY <2>1, <2>5 DEF Resuming
    <2>8. Owned'
      BY <2>6, <2>7 DEF Held, Owned, Nobody
    <2>9. Agreed'
      BY <1>0, <1>1, <2>1, <2>4, <2>6, <2>7 DEF Agreed
    <2>10. ~ link.open /\ (hdr => ctx.live)
      BY <2>3 DEF Held, Kept, Nobody, Inside, InsidePc
    <2> QED
      BY <1>0, <2>1, <2>8, <2>9, <2>10 DEF Held, Kept
  <1>4. CASE ResumeGo(w)
    <2>1. wk[w].pc = "resume2" /\ hdr' = hdr
      BY <1>4 DEF ResumeGo, At
    <2>2. (\A v \in Workers : v # w => wk[v].pc = "idle") /\ ~ EnvFails
      BY <1>0, <2>1 DEF Unique, Held, Owned, Resuming
    <2>3. Nobody /\ ~ link.open /\ (hdr => ctx.live)
      BY <1>1, <2>2 DEF Nobody, Inside, InsidePc, Held, Kept
    <2>4. CASE ~ ctx.live /\ Return(w, "err") /\ UNCHANGED ctx
      <3>1. Left(w)
        BY <1>0, <2>4, ReturnMoves
      <3> QED
        BY <1>0, <2>1, <2>2, <2>3, <2>4, <3>1, HeldEnds DEF Left, InsidePc
    <2>5. CASE /\ ctx.live
               /\ ctx' = [ctx EXCEPT !.status = "running",
                            !.state = IF @ \in EarlyState THEN @ ELSE "resume_service"]
               /\ wk' = [wk EXCEPT ![w] = [NoWk EXCEPT !.pc = "check", !.mine = TRUE]]
      <3>1. /\ wk'[w].pc = "check" /\ wk'[w].mine
            /\ \A v \in Workers : v # w => wk'[v] = wk[v]
        <4>1. "check" \in WkPc
          BY DEF WkPc
        <4>2. PICK r : r = [NoWk EXCEPT !.pc = "check", !.mine = TRUE]
          OBVIOUS
        <4>3. r \in Wk /\ r.pc = "check" /\ r.mine
          BY <4>1, <4>2, NewWkIs
        <4>4. wk' = [wk EXCEPT ![w] = r]
          BY <2>5, <4>2
        <4> QED
          BY <1>0, <4>3, <4>4, Replaced
      <3>2. ctx'.live /\ ctx'.status = "running"
        BY <1>0, <2>5 DEF Ctx
      <3>3. Inside(w)' /\ \A v \in Workers : v # w => wk'[v].pc = "idle"
        BY <2>2, <3>1 DEF Inside, InsidePc
      <3>4. Owned'
        BY <2>2, <3>1, <3>3 DEF Owned, Inside, InsidePc
      <3>5. Agreed'
        BY <1>0, <1>1, <3>1, <3>2, <3>3 DEF Agreed, Nobody
      <3>6. Kept'
        BY <1>0, <2>3, <3>2 DEF Kept
      <3> QED
        BY <1>0, <3>4, <3>5, <3>6 DEF Held
    <2> QED
      BY <1>4, <2>2, <2>4, <2>5 DEF ResumeGo
  <1>5. CASE SessionInit(w)
    <2>1. wk[w].pc = "init" /\ ~ ctx.live /\ ~ hdr
      BY <1>5 DEF SessionInit, At, Held, Owned, Kept
    <2>2. /\ \A v \in Workers : ~ wk[v].mine /\ ~ Inside(v)
          /\ \A v \in Workers : v # w => wk[v].pc \notin {"start", "init", "resume", "resume2"}
      BY <1>0, <2>1 DEF Unique, Held, Owned
    <2>3. ~ link.open /\ \A v \in Workers : v # w => wk[v].pc = "idle"
      BY <1>0, <2>2 DEF Held, Kept, Inside, InsidePc, Wk, WkPc
    <2>4. PICK q : q = Orphaned
      OBVIOUS
    <2>5. q \in [Workers -> Wk] /\ \A v \in Workers : q[v].pc = wk[v].pc /\ ~ q[v].mine
      BY <1>0, <2>4, OrphanedIs
    <2>6. ASSUME ctx' = NewCtx, hdr' = hdr, NEW p \in {"check", "fin"},
                 wk' = [q EXCEPT ![w] = [pc |-> p, mine |-> TRUE, marked |-> FALSE,
                                         ret |-> IF p = "fin" THEN "err" ELSE "ok"]]
          PROVE  Held'
      <3>1. PICK r : r = [pc |-> p, mine |-> TRUE, marked |-> FALSE, ret |-> IF p = "fin" THEN "err" ELSE "ok"]
        OBVIOUS
      <3>2. r \in Wk /\ r.mine /\ r.pc = p
        BY <3>1 DEF Wk, WkPc
      <3>3. wk' = [q EXCEPT ![w] = r]
        BY <2>6, <3>1
      <3>4. wk' \in [Workers -> Wk] /\ wk'[w] = r /\ \A v \in Workers : v # w => wk'[v] = q[v]
        BY <2>5, <3>2, <3>3, Replaced
      <3>5. ctx'.live /\ ctx'.status = "running"
        BY <2>6, NewCtxIs
      <3>6. /\ wk'[w].pc = p /\ wk'[w].mine /\ Inside(w)'
            /\ \A v \in Workers : v # w => wk'[v].pc = "idle"
        BY <2>3, <2>5, <3>2, <3>4 DEF Inside, InsidePc
      <3>7. Owned'
        BY <3>6 DEF Owned, Resuming, Inside, InsidePc
      <3>8. Agreed'
        BY <1>0, <1>1, <3>5, <3>6 DEF Agreed, Nobody
      <3>9. Kept'
        BY <1>0, <2>3, <3>5 DEF Kept
      <3> QED
        BY <1>0, <3>7, <3>8, <3>9 DEF Held
    <2>7. CASE SessionFin /\ wk' = [q EXCEPT ![w].pc = "idle", ![w].ret = "err"]
      <3>1. wk'[w].pc = "idle" /\ \A v \in Workers : v # w => wk'[v] = q[v]
        BY <2>5, <2>7, Dropped
      <3>2. ctx' = NoCtx /\ hdr' = FALSE
        BY <2>7 DEF SessionFin
      <3>3. ~ ctx'.live
        BY <3>2, NoCtxIs
      <3>4. \A v \in Workers : wk'[v].pc = "idle"
        BY <2>3, <2>5, <3>1
      <3> QED
        BY <1>0, <2>3, <3>2, <3>3, <3>4, HeldEnds DEF InsidePc
    <2>8. \/ /\ ctx' = NewCtx /\ hdr' = hdr
             /\ \E p \in {"check", "fin"} :
                  wk' = [q EXCEPT ![w] = [pc |-> p, mine |-> TRUE, marked |-> FALSE,
                                          ret |-> IF p = "fin" THEN "err" ELSE "ok"]]
          \/ SessionFin /\ wk' = [q EXCEPT ![w].pc = "idle", ![w].ret = "err"]
      BY <1>5, <2>4 DEF SessionInit
    <2> QED
      BY <2>6, <2>7, <2>8
  <1> QED
    BY <1>2, <1>3, <1>4, <1>5

\* A step of the state machine leaves the status to the console.
LEMMA BodyKeeps ==
  ASSUME IInv, NEW w \in Workers,
         \/ BodyPlain(w) \/ BodyEraseFwd(w) \/ BodyPrepareConnect(w) \/ BodyConnect(w)
         \/ BodyResumeService(w) \/ BodyResumeServer(w) \/ BodyReceive(w) \/ BodyConfig(w)
         \/ BodyImage(w) \/ BodyDisconnect(w) \/ BodyDupImages(w) \/ BodyFinish(w)
  PROVE  /\ wk[w].pc = "body" /\ ctx'.live = ctx.live /\ ctx'.status = ctx.status
         /\ UNCHANGED <<con, asked>> /\ (bad' = bad \/ bad' = "null")
         /\ wk' = wk \/ Go(w, "check") \/ Fin(w, "ok") \/ Fin(w, "err")
  <1>0. ctx \in Ctx
    BY DEF IInv, TypeOK
  <1> DEFINE Same(c) == /\ c.live = ctx.live /\ c.status = ctx.status
                        /\ "live" \in DOMAIN c /\ "status" \in DOMAIN c
  <1>1. ASSUME NEW c, Same(c), NEW s, Next2(w, c, s)
        PROVE  ctx'.live = ctx.live /\ ctx'.status = ctx.status /\ Go(w, "check")
    BY <1>1 DEF Next2
  <1>2. Same(ctx)
    BY <1>0 DEF Ctx
  <1>3. CASE BodyPlain(w)
    BY <1>1, <1>2, <1>3 DEF BodyPlain, BodyFail, Body, At
  <1>4. CASE BodyEraseFwd(w)
    BY <1>1, <1>2, <1>4 DEF BodyEraseFwd, BodyFail, Body, At
  <1>5. CASE BodyPrepareConnect(w)
    <2>1. \A i : Same([ctx EXCEPT !.idx = i])
      BY <1>0 DEF Ctx
    <2> HIDE DEF Same
    <2>2. /\ wk[w].pc = "body" /\ UNCHANGED <<con, asked, bad>>
          /\ \/ Next2(w, ctx, "connect")
             \/ \E i, s : Next2(w, [ctx EXCEPT !.idx = i], s)
             \/ Fin(w, "err") /\ UNCHANGED ctx
      BY <1>5 DEF BodyPrepareConnect, Body, At
    <2> QED
      BY <1>1, <1>2, <2>1, <2>2
  <1>6. CASE BodyConnect(w)
    <2>1. Same([ctx EXCEPT !.read = 0])
      BY <1>0 DEF Ctx
    <2> HIDE DEF Same
    <2>2. /\ wk[w].pc = "body" /\ UNCHANGED <<con, asked, bad>>
          /\ \/ Next2(w, [ctx EXCEPT !.read = 0], "receive")
             \/ Fin(w, "err") /\ ctx' = [ctx EXCEPT !.read = 0]
      BY <1>6 DEF BodyConnect, BodyFail, Body, At
    <2> QED
      BY <1>1, <2>1, <2>2 DEF Same
  <1>7. CASE BodyResumeService(w)
    <2>1. PICK c : /\ c = [ctx EXCEPT !.hdl = TRUE,
                             !.dig = [on |-> TRUE, n |-> ctx.wrt, good |-> img[ctx.idx].good]]
      OBVIOUS
    <2>2. Same(c)
      BY <1>0, <2>1 DEF Ctx
    <2> HIDE DEF Same
    <2>3. /\ wk[w].pc = "body" /\ UNCHANGED <<con, asked>> /\ (bad' = bad \/ bad' = "null")
          /\ \/ UNCHANGED <<ctx, wk>>
             \/ Next2(w, c, "resume_server")
             \/ Fin(w, "err") /\ (ctx' = c \/ ctx' = ctx)
      BY <1>7, <2>1 DEF BodyResumeService, Body, At
    <2> QED
      BY <1>1, <2>2, <2>3 DEF Same
  <1>8. CASE BodyResumeServer(w)
    BY <1>1, <1>2, <1>8 DEF BodyResumeServer, BodyFail, Body, At
  <1>9. CASE BodyReceive(w)
    <2>1. \A b : Same([ctx EXCEPT !.buf = b])
      BY <1>0 DEF Ctx
    <2> HIDE DEF Same
    <2>2. /\ wk[w].pc = "body" /\ UNCHANGED <<con, asked, bad>>
          /\ \/ \E b, s : Next2(w, [ctx EXCEPT !.buf = b], s)
             \/ (Fin(w, "ok") \/ Fin(w, "err")) /\ UNCHANGED ctx
      BY <1>9 DEF BodyReceive, Body, At
    <2> QED
      BY <1>1, <2>1, <2>2
  <1>10. CASE BodyConfig(w)
    <2>1. PICK got, take, ok, c :
            /\ got = IF ctx.cfgbuf THEN ctx.wrt ELSE 0
            /\ take = IF ctx.buf.n < CfgLen - got THEN ctx.buf.n ELSE CfgLen - got
            /\ ok = (ctx.cfgok /\ ctx.buf.good /\ ctx.buf.file = 0 /\ ctx.buf.pos = got)
            /\ c = [ctx EXCEPT !.cfgok = ok, !.buf.off = take]
      OBVIOUS
    <2> DEFINE full == [c EXCEPT !.first = FALSE, !.cfgbuf = FALSE, !.read = CfgLen,
                                 !.wrt = IF ctx.cfgbuf THEN CfgLen ELSE @]
    <2>2. Same(c)
      BY <1>0, <2>1 DEF Ctx
    <2>3. Same([c EXCEPT !.cfgbuf = FALSE]) /\ Same([c EXCEPT !.cfgbuf = TRUE, !.wrt = got + take])
      BY <2>2
    <2>4. Same(full)
      BY <2>2
    <2>5. \A D : Same([full EXCEPT !.dl = D])
      <3> HIDE DEF full
      <3> QED
        BY <2>4
    <2>6. wk[w].pc = "body" /\ UNCHANGED <<con, asked>>
      BY <1>10 DEF BodyConfig, Body, At
    <2> DEFINE abort == Fin(w, "err") /\ ctx' = [c EXCEPT !.cfgbuf = FALSE] /\ link' = NoLink
    <2>7. IF got + take < CfgLen
          THEN /\ \/ Next2(w, [c EXCEPT !.cfgbuf = TRUE, !.wrt = got + take], "receive")
                     /\ UNCHANGED link
                  \/ abort
               /\ UNCHANGED <<hdr, bad>>
          ELSE IF ~ ctx.dig.on THEN bad' = "null" /\ UNCHANGED <<ctx, wk, link, hdr>>
          ELSE /\ UNCHANGED bad
               /\ \/ /\ ok /\ hdr' = TRUE /\ UNCHANGED link
                     /\ IF allInOne
                        THEN Next2(w, full, IF take < ctx.buf.n THEN "image" ELSE "receive")
                        ELSE \E D \in SUBSET Images : Next2(w, [full EXCEPT !.dl = D], "disconnect")
                  \/ abort /\ hdr' \in {hdr, TRUE}
      BY <1>10, <2>1, ZenonT(60) DEF BodyConfig
    <2> HIDE DEF Same, full
    <2>8. CASE abort /\ bad' = bad
      BY <2>3, <2>6, <2>8 DEF Same
    <2>9. CASE Next2(w, [c EXCEPT !.cfgbuf = TRUE, !.wrt = got + take], "receive") /\ bad' = bad
      BY <1>1, <2>3, <2>6, <2>9
    <2>10. CASE bad' = "null" /\ UNCHANGED <<ctx, wk>>
      BY <2>6, <2>10
    <2>11. ASSUME bad' = bad, NEW s, Next2(w, full, s)
           PROVE  ctx'.live = ctx.live /\ ctx'.status = ctx.status /\ Go(w, "check")
      BY <1>1, <2>4, <2>11
    <2>12. ASSUME bad' = bad, NEW D, Next2(w, [full EXCEPT !.dl = D], "disconnect")
           PROVE  ctx'.live = ctx.live /\ ctx'.status = ctx.status /\ Go(w, "check")
      BY <1>1, <2>5, <2>12
    <2> HIDE DEF abort
    <2> QED
      BY <2>6, <2>7, <2>8, <2>9, <2>10, <2>11, <2>12
  <1>11. CASE BodyImage(w)
    <2>1. PICK new, L, c0, rest, k, fit, c1, old :
            ImageVars(new, L, c0, rest, k, fit, c1, old) /\ ImageTurn(w, new, L, c0, k, fit, c1, old)
      BY <1>11, ImageTurns
    <2>2. /\ c0 = IF new THEN [ctx EXCEPT !.hdl = TRUE, !.wrt = 0, !.len = L, !.dig = NewDig] ELSE ctx
          /\ c1 = [c0 EXCEPT !.buf.off = @ + k, !.read = @ + k, !.wrt = @ + k,
                             !.dig.n = @ + k, !.dig.good = @ /\ fit]
      BY <2>1 DEF ImageVars
    <2>3. Same(c0)
      BY <1>0, <1>2, <2>2 DEF Ctx
    <2>4. Same(c1)
      BY <2>2, <2>3
    <2>5. Same([c0 EXCEPT !.dig = ctx.dig])
      BY <2>3
    <2>6. ASSUME NEW c, Same(c), ImageDone(w, c)
          PROVE  ctx'.live = ctx.live /\ ctx'.status = ctx.status /\ (Go(w, "check") \/ wk' = wk)
      <3>1. Same([c EXCEPT !.hdl = FALSE, !.idx = @ + 1, !.len = 0])
        BY <2>6
      <3>2. PICK d : Same(d) /\ (Next2(w, d, "disconnect") \/ Next2(w, d, "dup_fs") \/ (ctx' = d /\ wk' = wk))
        <4> HIDE DEF Same
        <4> QED
          BY <2>6, <3>1 DEF ImageDone
      <3> QED
        BY <1>1, <3>2
    <2>7. /\ wk[w].pc = "body" /\ UNCHANGED <<con, asked>> /\ (bad' = bad \/ bad' = "null")
          /\ \/ UNCHANGED <<ctx, wk>>
             \/ Next2(w, ctx, "receive") \/ Next2(w, c1, "receive")
             \/ ImageDone(w, [c0 EXCEPT !.dig = ctx.dig]) \/ ImageDone(w, c1)
             \/ ctx' = c1 /\ wk' = wk
             \/ Fin(w, "err") /\ (ctx' = c0 \/ ctx' = c1)
      <3>1. wk[w].pc = "body" /\ UNCHANGED <<con, asked>>
        BY <1>11 DEF BodyImage, Body, At
      <3> QED
        BY <2>1, <3>1 DEF ImageTurn
    <2> HIDE DEF Same
    <2>8. CASE ImageDone(w, [c0 EXCEPT !.dig = ctx.dig]) \/ ImageDone(w, c1)
      BY <2>4, <2>5, <2>6, <2>7, <2>8
    <2>9. CASE Next2(w, ctx, "receive") \/ Next2(w, c1, "receive")
      BY <1>1, <1>2, <2>4, <2>7, <2>9
    <2>10. CASE \/ UNCHANGED <<ctx, wk>>
                \/ ctx' = c1 /\ wk' = wk
                \/ Fin(w, "err") /\ (ctx' = c0 \/ ctx' = c1)
      BY <2>3, <2>4, <2>7, <2>10 DEF Same
    <2> QED
      BY <2>7, <2>8, <2>9, <2>10
  <1>12. CASE BodyDisconnect(w) \/ BodyDupImages(w) \/ BodyFinish(w)
    BY <1>1, <1>2, <1>12 DEF BodyDisconnect, BodyDupImages, BodyFinish, BodyFail, Body, At
  <1> QED
    BY <1>3, <1>4, <1>5, <1>6, <1>7, <1>8, <1>9, <1>10, <1>11, <1>12

LEMMA HeldBody ==
  ASSUME IInv, IInv', Held, NEW w \in Workers,
         \/ BodyPlain(w) \/ BodyEraseFwd(w) \/ BodyPrepareConnect(w) \/ BodyConnect(w)
         \/ BodyResumeService(w) \/ BodyResumeServer(w) \/ BodyReceive(w) \/ BodyConfig(w)
         \/ BodyImage(w) \/ BodyDisconnect(w) \/ BodyDupImages(w) \/ BodyFinish(w)
  PROVE  Held'
  <1>1. /\ wk[w].pc = "body" /\ ctx'.live = ctx.live /\ ctx'.status = ctx.status
        /\ UNCHANGED <<con, asked>> /\ (bad' = bad \/ bad' = "null")
        /\ wk' = wk \/ Go(w, "check") \/ Fin(w, "ok") \/ Fin(w, "err")
    BY BodyKeeps
  <1>2. TypeOK /\ Unique' /\ wk \in [Workers -> Wk] /\ bad # "stale"
    BY DEF IInv, TypeOK, Held
  <1>3. Moved(w, "body") \/ Moved(w, "check") \/ Moved(w, "fin")
    <2>1. wk' = wk => Moved(w, "body")
      BY <1>1, <1>2 DEF Moved
    <2> QED
      BY <1>1, <1>2, <2>1, NextMoves, FinMoves
  <1>4. {"body", "check", "fin"} \subseteq InsidePc /\ bad' # "stale"
    BY <1>1, <1>2 DEF InsidePc
  <1> QED
    BY <1>1, <1>2, <1>3, <1>4, HeldMoves

\* Past the first step of finalize the connection is closed.
LEMMA Closed ==
  ASSUME Unique, Held, NEW w \in Workers, Inside(w), wk[w].pc \notin {"check", "body", "fin"}
  PROVE  ~ link.open
  BY OneInside DEF Held, Kept

LEMMA HeldFinalize ==
  ASSUME IInv, IInv', Held, NEW w \in Workers,
         \/ LoopCheck(w) \/ StaleContext(w)
         \/ Finalize(w) \/ FinalizeMark(w) \/ FinalizeReboot(w) \/ FinalizeStatus(w)
         \/ FinalizeSuspend(w) \/ FinalizeFree(w)
  PROVE  Held'
  <1>0. /\ TypeOK /\ Unique /\ Unique' /\ Owned /\ bad # "stale" /\ ctx \in Ctx /\ wk \in [Workers -> Wk]
    BY DEF IInv, TypeOK, Held
  <1>1. wk[w].pc \in InsidePc /\ Inside(w)
    BY DEF LoopCheck, StaleContext, Finalize, FinalizeMark, FinalizeReboot, FinalizeStatus,
           FinalizeSuspend, FinalizeFree, At, Inside, InsidePc
  <1>2. wk[w].mine /\ ctx.live /\ \A v \in Workers : v # w => ~ Inside(v) /\ ~ wk[v].mine
    BY <1>0, <1>1, OneInside
  <1>3. CASE LoopCheck(w)
    <2>1. ctx' = ctx /\ UNCHANGED <<con, asked, bad>>
      BY <1>3 DEF LoopCheck
    <2>2. "body" \in WkPc /\ {"body", "fin"} \subseteq InsidePc
      BY DEF WkPc, InsidePc
    <2>3. Moved(w, "body") \/ Moved(w, "fin")
      BY <1>0, <1>3, <2>2, GoMoves, FinMoves DEF LoopCheck
    <2> QED
      BY <1>0, <1>1, <2>1, <2>2, <2>3, HeldMoves
  <1>4. CASE StaleContext(w)
    BY <1>2, <1>4 DEF StaleContext
  <1>5. CASE Finalize(w)
    <2>1. ctx' = ctx /\ UNCHANGED <<con, asked, bad>>
      BY <1>5 DEF Finalize
    <2> DEFINE r == IF ctx.status = "cancel" THEN "cancelled"
                    ELSE IF wk[w].ret = "ok" /\ ctx.state # "finish" THEN "incomplete"
                    ELSE wk[w].ret
               p == IF r = "ok" THEN "mark" ELSE "status"
    <2>2. wk' = [wk EXCEPT ![w].ret = r, ![w].pc = p] /\ link' = NoLink
      BY <1>2, <1>5 DEF Finalize
    <2>3. r \in {"ok", "err", "cancelled", "incomplete", "suspended"} /\ p \in WkPc
      BY <1>0 DEF Wk, WkPc
    <2>4. p \in InsidePc /\ p # "suspend"
      BY DEF InsidePc
    <2> HIDE DEF r, p
    <2>5. Moved(w, p)
      BY <1>0, <2>2, <2>3 DEF Wk, Moved
    <2>6. ~ link'.open
      BY <2>2, NoLinkIs
    <2> QED
      BY <1>0, <1>1, <2>1, <2>4, <2>5, <2>6, HeldMoves
  <1>6. CASE FinalizeMark(w)
    <2>1. ctx' = ctx /\ UNCHANGED <<con, asked, bad, link>> /\ wk[w].pc = "mark"
      BY <1>6 DEF FinalizeMark, At
    <2> DEFINE p == IF AutoReboot THEN "reboot" ELSE "status"
    <2>2. valid' \in BOOLEAN /\ wk' = [wk EXCEPT ![w].pc = p, ![w].marked = valid']
      BY <1>0, <1>6 DEF FinalizeMark, TypeOK
    <2>3. p \in WkPc /\ p \in InsidePc /\ p # "suspend"
      BY DEF WkPc, InsidePc
    <2> HIDE DEF p
    <2>4. Moved(w, p)
      BY <1>0, <2>2, <2>3 DEF Wk, Moved
    <2>5. ~ link'.open
      BY <1>0, <1>1, <2>1, Closed
    <2> QED
      BY <1>0, <1>1, <2>1, <2>3, <2>4, <2>5, HeldMoves
  <1>7. CASE FinalizeReboot(w)
    <2>1. /\ ctx' = NoCtx /\ hdr' = FALSE /\ link' = NoLink /\ wk' = [v \in Workers |-> NoWk]
          /\ con' = "idle" /\ bad' = bad
      BY <1>7 DEF FinalizeReboot, SessionFin
    <2>2. ~ ctx'.live /\ ~ link'.open /\ \A v \in Workers : wk'[v].pc = "idle"
      BY <2>1, NoCtxIs, NoLinkIs, NoWkIs
    <2> QED
      BY <2>1, <2>2, HeldEnds DEF InsidePc
  <1>8. CASE FinalizeStatus(w)
    <2>1. ctx' = ctx /\ UNCHANGED <<con, asked, bad, link>> /\ wk[w].pc = "status"
      BY <1>8 DEF FinalizeStatus, At
    <2> DEFINE p == IF ctx.live /\ ctx.status = "suspend" THEN "suspend" ELSE "free"
    <2>2. Go(w, p)
      BY <1>8 DEF FinalizeStatus
    <2>3. p \in WkPc /\ p \in InsidePc /\ (p = "suspend" => ctx.status = "suspend")
      BY DEF WkPc, InsidePc
    <2> HIDE DEF p
    <2>4. Moved(w, p)
      BY <1>0, <2>2, <2>3, GoMoves
    <2>5. ~ link'.open
      BY <1>0, <1>1, <2>1, Closed
    <2> QED
      BY <1>0, <1>1, <2>1, <2>3, <2>4, <2>5, HeldMoves
  <1>9. CASE FinalizeSuspend(w)
    <2>1. /\ ctx' = [ctx EXCEPT !.hdl = FALSE, !.dig = NoDig] /\ Return(w, "suspended")
          /\ UNCHANGED <<con, asked, bad, link, hdr>> /\ wk[w].pc = "suspend"
      BY <1>9 DEF FinalizeSuspend, At
    <2>2. ctx'.live = ctx.live /\ ctx'.status = ctx.status /\ ctx.status = "suspend"
      <3>1. ctx.status = "suspend"
        BY <2>1 DEF Held, Agreed
      <3> QED
        BY <1>0, <2>1, <3>1 DEF Ctx
    <2>3. Left(w)
      BY <1>0, <2>1, ReturnMoves
    <2>4. ~ link.open
      BY <1>0, <1>1, <2>1, Closed
    <2>5. Nobody' /\ \A v \in Workers : ~ Inside(v)'
      BY <1>2, <2>3 DEF Left, Nobody, Inside, InsidePc
    <2>6. (Resuming' <=> Resuming) /\ (Entering' <=> Entering)
      BY <2>1, <2>3 DEF Left, Resuming, Entering
    <2>7. Owned'
      BY <1>0, <2>2, <2>3, <2>5, <2>6 DEF Owned, Left
    <2>8. Agreed'
      BY <1>2, <2>1, <2>2, <2>5, <2>6 DEF Held, Agreed
    <2>9. Kept'
      BY <1>2, <2>1, <2>2, <2>4 DEF Kept
    <2> QED
      BY <1>0, <2>1, <2>7, <2>8, <2>9 DEF Held
  <1>10. CASE FinalizeFree(w)
    <2>1. /\ ctx' = NoCtx /\ hdr' = FALSE /\ UNCHANGED <<con, link, bad>> /\ wk[w].pc = "free"
      BY <1>10 DEF FinalizeFree, SessionFin, At
    <2>2. PICK q : q = Orphaned
      OBVIOUS
    <2>3. q \in [Workers -> Wk] /\ \A v \in Workers : q[v].pc = wk[v].pc
      BY <1>0, <2>2, OrphanedIs
    <2>4. wk' = [q EXCEPT ![w].pc = "idle"]
      BY <1>10, <2>2 DEF FinalizeFree
    <2>5. wk'[w].pc = "idle" /\ \A v \in Workers : v # w => wk'[v] = q[v]
      BY <2>3, <2>4 DEF Wk
    <2>6. ~ link.open /\ ~ ctx'.live
      BY <1>0, <1>1, <2>1, Closed, NoCtxIs
    <2>7. \A v \in Workers : wk'[v].pc \notin InsidePc
      BY <1>2, <2>3, <2>5 DEF Inside, InsidePc
    <2> QED
      BY <2>1, <2>3, <2>5, <2>6, <2>7, HeldEnds
  <1> QED
    BY <1>3, <1>4, <1>5, <1>6, <1>7, <1>8, <1>9, <1>10

LEMMA HeldCalls ==
  ASSUME Polite, ResumeWorks, IInv, IInv', Held, NEW w \in Workers, CallStart(w) \/ CallResume(w)
  PROVE  Held'
  <1>0. /\ TypeOK /\ Unique /\ Owned /\ bad # "stale" /\ wk \in [Workers -> Wk] /\ con = "idle"
        /\ UNCHANGED <<ctx, hdr, con, link, bad>> /\ wk[w].pc = "idle"
    BY DEF IInv, TypeOK, Held, CallStart, CallResume, Call, ConAt, At
  <1>1. ~ wk[w].mine /\ ~ Inside(w)
    BY <1>0 DEF Unique, Inside, InsidePc
  <1>2. ASSUME NEW p \in {"start", "resume"}, wk' = [wk EXCEPT ![w] = [NoWk EXCEPT !.pc = p]]
        PROVE  wk'[w].pc = p /\ \A v \in Workers : v # w => wk'[v] = wk[v]
    <2>1. p \in WkPc
      BY DEF WkPc
    <2>2. PICK r : r = [NoWk EXCEPT !.pc = p]
      OBVIOUS
    <2>3. r \in Wk /\ r.pc = p
      BY <2>1, <2>2, NewWkIs
    <2>4. wk' = [wk EXCEPT ![w] = r]
      BY <1>2, <2>2
    <2> QED
      BY <1>0, <2>3, <2>4, Replaced
  <1>3. CASE CallStart(w)
    <2>1. asked' = (asked /\ ctx.live) /\ ~ Entering
      BY <1>3 DEF CallStart
    <2>2. wk'[w].pc = "start" /\ \A v \in Workers : v # w => wk'[v] = wk[v]
      BY <1>2, <1>3 DEF CallStart
    <2>3. \A v \in Workers : Inside(v)' <=> Inside(v)
      BY <1>1, <2>2 DEF Inside, InsidePc
    <2>4. (Nobody' <=> Nobody) /\ ~ Resuming /\ ~ Resuming'
      BY <2>1, <2>2, <2>3 DEF Nobody, Resuming, Entering
    <2>5. Owned'
      BY <1>0, <1>1, <2>1, <2>2, <2>3, <2>4 DEF Owned, Entering
    <2>6. Agreed'
      BY <1>0, <2>1, <2>2, <2>4 DEF Held, Agreed
    <2>7. Kept'
      BY <1>0, <1>1, <2>2 DEF Held, Kept
    <2> QED
      BY <1>0, <2>5, <2>6, <2>7 DEF Held
  <1>4. CASE CallResume(w)
    <2>1. \A v \in Workers : wk[v].pc = "idle"
      BY <1>4 DEF CallResume, Idle
    <2>2. wk'[w].pc = "resume" /\ \A v \in Workers : v # w => wk'[v] = wk[v]
      BY <1>2, <1>4 DEF CallResume
    <2>3. Nobody /\ Nobody' /\ Resuming' /\ \A v \in Workers : ~ Inside(v)'
      BY <2>1, <2>2 DEF Nobody, Resuming, Inside, InsidePc
    <2>4. ~ EnvFails
      BY <1>4 DEF CallResume, Call, ResumeWorks
    <2>5. Owned'
      BY <2>1, <2>2, <2>3, <2>4 DEF Owned
    <2>6. Agreed'
      BY <1>0, <2>1, <2>2, <2>3 DEF Held, Agreed
    <2>7. Kept'
      BY <1>0, <2>1 DEF Held, Kept
    <2> QED
      BY <1>0, <2>5, <2>6, <2>7 DEF Held
  <1> QED
    BY <1>3, <1>4

\* A call that does not change who is where.
LEMMA HeldConsole ==
  ASSUME IInv, Held, UNCHANGED <<hdr, wk, link, bad>>, ctx'.live = ctx.live, Agreed'
  PROVE  Held'
  <1>1. Owned'
    BY DEF Held, Owned, Resuming, Inside
  <1>2. Kept'
    BY DEF Held, Kept
  <1> QED
    BY <1>1, <1>2 DEF Held

LEMMA HeldCancel ==
  ASSUME Polite, IInv, IInv', Held,
         CallCancel \/ CallSuspend \/ CancelStatus \/ CancelSet \/ CancelFin \/ SuspendSet
  PROVE  Held'
  <1>0. TypeOK /\ Unique /\ Owned /\ Agreed /\ ctx \in Ctx /\ wk \in [Workers -> Wk]
    BY DEF IInv, TypeOK, Held
  <1>1. ASSUME wk' = wk
        PROVE  (Resuming' <=> Resuming) /\ (Nobody' <=> Nobody) /\ (Entering' <=> Entering)
    BY <1>1 DEF Resuming, Nobody, Entering, Inside
  <1>2. CASE CallCancel
    <2>1. /\ con = "idle" /\ ~ Entering /\ (asked => Idle) /\ UNCHANGED <<ctx, hdr, wk, asked, link, bad>>
          /\ con' = IF ctx.live THEN "cancel" ELSE "idle"
      BY <1>2 DEF CallCancel, Call, ConAt
    <2>2. ~ Resuming /\ (Idle => Nobody)
      BY <2>1 DEF Resuming, Entering, Idle, Nobody, Inside, InsidePc
    <2>3. Agreed'
      BY <1>0, <1>1, <2>1, <2>2 DEF Agreed
    <2> QED
      BY <2>1, <2>3, HeldConsole
  <1>3. CASE CallSuspend
    <2>1. /\ con = "idle" /\ ~ Entering /\ UNCHANGED <<ctx, hdr, wk, asked, link, bad>>
          /\ con' = IF ctx.live /\ ctx.status = "running" THEN "set_suspend" ELSE "idle"
      BY <1>3 DEF CallSuspend, Call, ConAt
    <2>2. Agreed'
      BY <1>0, <1>1, <2>1 DEF Agreed
    <2> QED
      BY <2>1, <2>2, HeldConsole
  <1>4. CASE CancelStatus
    <2>1. /\ con = "cancel" /\ UNCHANGED <<ctx, hdr, wk, asked, link, bad>>
          /\ con' = IF ctx.live /\ ctx.status = "running" THEN "set_cancel" ELSE "fin"
      BY <1>4 DEF CancelStatus, ConAt
    <2>2. Agreed'
      BY <1>0, <1>1, <2>1 DEF Agreed
    <2> QED
      BY <2>1, <2>2, HeldConsole
  <1>5. CASE CancelSet \/ SuspendSet
    <2>1. /\ con \in {"set_cancel", "set_suspend"} /\ con' = "idle" /\ asked' = ctx.live
          /\ UNCHANGED <<hdr, wk, link, bad>>
      BY <1>5 DEF CancelSet, SuspendSet, ConAt
    <2>2. ctx'.live = ctx.live
      BY <1>0, <1>5 DEF CancelSet, SuspendSet, Ctx
    <2>3. ctx.live => ctx.status = "running" /\ ~ Nobody
      BY <1>0, <2>1 DEF Agreed
    <2>4. \A w \in Workers : wk[w].pc # "suspend"
      <3>1. SUFFICES ASSUME NEW w \in Workers, wk[w].pc = "suspend" PROVE FALSE
        OBVIOUS
      <3>2. Inside(w) /\ ctx.status = "suspend"
        BY <1>0, <3>1 DEF Agreed, Inside, InsidePc
      <3> QED
        BY <1>0, <2>3, <3>2, OneInside
    <2>5. Agreed'
      BY <1>1, <2>1, <2>2, <2>3, <2>4 DEF Agreed
    <2> QED
      BY <2>1, <2>2, <2>5, HeldConsole
  <1>6. CASE CancelFin
    <2>1. con = "fin" /\ ctx' = NoCtx /\ hdr' = FALSE /\ wk' = Orphaned /\ con' = "idle" /\ UNCHANGED <<link, bad>>
      BY <1>6 DEF CancelFin, SessionFin, ConAt
    <2>2. \A v \in Workers : wk'[v].pc = wk[v].pc
      BY <1>0, <2>1, OrphanedIs
    <2>3. \A v \in Workers : ~ Inside(v)
      <3>1. ctx.live => Nobody
        BY <1>0, <2>1 DEF Agreed
      <3> QED
        BY <1>0, <3>1 DEF Owned, Unique, Nobody
    <2>4. ~ link.open /\ ~ ctx'.live
      BY <2>1, <2>3, NoCtxIs DEF Held, Kept, Inside, InsidePc
    <2>5. \A v \in Workers : wk'[v].pc \notin InsidePc
      BY <2>2, <2>3 DEF Inside
    <2> QED
      BY <2>1, <2>2, <2>4, <2>5, HeldEnds
  <1> QED
    BY <1>2, <1>3, <1>4, <1>5, <1>6

LEMMA HeldInit == Init => Held
  <1> SUFFICES ASSUME Init PROVE Held
    OBVIOUS
  <1>1. /\ ctx = NoCtx /\ hdr = FALSE /\ wk = [w \in Workers |-> NoWk] /\ con = "idle" /\ asked = FALSE
        /\ link = NoLink /\ bad = "none"
    BY Zenon DEF Init
  <1>2. ~ ctx.live /\ ~ link.open /\ \A w \in Workers : wk[w].pc = "idle"
    BY <1>1, NoCtxIs, NoLinkIs, NoWkIs
  <1>3. ~ Resuming /\ \A w \in Workers : ~ Inside(w)
    BY <1>2 DEF Resuming, Inside, InsidePc
  <1>4. Owned
    BY <1>2, <1>3 DEF Owned
  <1>5. Agreed
    BY <1>1, <1>2 DEF Agreed
  <1>6. Kept
    BY <1>1, <1>2 DEF Kept
  <1> QED
    BY <1>1, <1>4, <1>5, <1>6 DEF Held

LEMMA HeldStep ==
  ASSUME Polite, ResumeWorks, IInv, IInv', Held, [Next]_vars
  PROVE  Held'
  <1>1. CASE ConsoleCall
    BY <1>1, HeldCalls, HeldCancel DEF ConsoleCall
  <1>2. CASE ConsoleStep
    BY <1>2, HeldCancel DEF ConsoleStep
  <1>3. ASSUME NEW w \in Workers, Worker(w) PROVE Held'
    BY <1>3, HeldEnter, HeldBody, HeldFinalize DEF Worker
  <1>4. CASE UNCHANGED vars
    <2>1. UNCHANGED <<ctx, hdr, wk, con, asked, link, bad>>
      BY <1>4 DEF vars
    <2>2. Agreed'
      BY <2>1 DEF Held, Agreed, Resuming, Nobody, Entering, Inside
    <2> QED
      BY <2>1, <2>2, HeldConsole
  <1> QED
    BY <1>1, <1>2, <1>3, <1>4 DEF Next, Halted

LEMMA HeldAlways ==
  ASSUME Polite, ResumeWorks
  PROVE  Spec => [](IInv /\ Held)
  <1>1. OneAtATime
    BY DEF OneAtATime
  <1>2. Spec => []IInv
    BY <1>1, Inductive
  <1>3. IInv /\ IInv' /\ Held /\ [Next]_vars => Held'
    BY HeldStep
  <1> QED
    BY <1>2, <1>3, HeldInit, PTL DEF Spec

\* The assertion of fw_upgrade_set_state never fails, for a console that waits
\* for a call to take effect before the next one, and when a resume that is
\* begun finds its flash (ResumeWorks).  Without the latter it does fail: a
\* resume that cannot open the flash leaves NOT_START, which lets a cancel free
\* the session under the worker.
THEOREM ContextIsAlive ==
  ASSUME Polite, ResumeWorks
  PROVE  Spec => []ContextAlive
  <1>1. IInv /\ Held => ContextAlive
    BY DEF Held, ContextAlive
  <1> QED
    BY <1>1, HeldAlways, PTL

\* When a session is over and every call has returned, neither the header table
\* nor the connection is left, however the session ended.
THEOREM NothingIsHeld ==
  ASSUME Polite, ResumeWorks
  PROVE  Spec => []NothingHeld
  <1>1. IInv /\ Held => NothingHeld
    BY DEF IInv, Unique, Held, Kept, NothingHeld
  <1> QED
    BY <1>1, HeldAlways, PTL
=============================================================================

------------------------------- MODULE OtaTftp -------------------------------
(***************************************************************************)
(* The TFTP download plugin of the OTA demo                                *)
(* (demo/common/ota/plugins/tftp/ota_tftp.c).  The task that runs the      *)
(* upgrade engine calls plugin_tftp_init, plugin_tftp_recv_data,           *)
(* plugin_tftp_abort and plugin_tftp_fin; plugin_tftp_init starts a        *)
(* second task, ota_tftp_recv, that talks to the server and fills a ring   *)
(* buffer.  The two share the session: the ring and its counters under a   *)
(* mutex, status and error code without one, and a group of signals.       *)
(*                                                                         *)
(* The network loses, duplicates and reorders packets; the server (TFTP,   *)
(* one block at a time) resends and gives up.  Data are counted in units,  *)
(* Payload units for TFTP_PAYLOAD_SIZE bytes; a unit is the file and the   *)
(* position it comes from.  The clock is one bit: TFTP_TIMEOUT has passed  *)
(* since the client last sent something.                                   *)
(***************************************************************************)
EXTENDS Integers, FiniteSets, FiniteSetsExt

CONSTANTS
  Payload,     \* TFTP_PAYLOAD_SIZE, in units
  Slots,       \* TFTP_RCV_BUF_NUM
  ReadLen,     \* FW_UPGRADE_BUF_SIZE, what the engine asks for in a call
  SeqMod,      \* block numbers are 16 bits wide: 2^16
  MaxRetry,    \* TFTP_MAX_RETRY_COUNT
  NFiles,      \* the files of the upgrade, downloaded one after the other
  Setups,      \* what may be the case: the files' lengths (lens), and whether (first)
               \* the engine's task outranks ota_tftp_recv and never sleeps while
               \* it works, as in the demo
  Noise,       \* other packets that may arrive
  EnvFails,    \* TRUE: calls to the socket layer may fail, the engine may give up
  NetCap,      \* bound on the data packets under way
  UpCap,       \* bound on the requests and acknowledgements under way
  MaxResend,   \* bound: the server sends a block that often again
  MaxFaults    \* bound on duplicates, other packets and failing calls

Size  == Slots * Payload
Files == 1 .. NFiles
Kinds == {"alien", "junk", "error", "large", "oack", "empty"}

ASSUME TftpAssumption ==
  /\ Payload \in Nat \ {0} /\ Slots \in Nat \ {0} /\ ReadLen \in Nat \ {0}
  /\ SeqMod \in Nat \ {0, 1} /\ MaxRetry \in Nat
  /\ NFiles \in Nat \ {0}
  /\ \A u \in Setups : u.lens \in [1 .. NFiles -> Nat] /\ u.first \in BOOLEAN
  /\ Noise \subseteq Kinds /\ EnvFails \in BOOLEAN
  /\ NetCap \in Nat \ {0} /\ UpCap \in Nat \ {0}
  /\ MaxResend \in Nat /\ MaxFaults \in Nat

VARIABLES
  sess,   \* ota_tftp_sess: its counters and states; live is FALSE for NULL
  ring,   \* rcv_buffer
  sig,    \* the signals that are set
  task,   \* ota_tftp_recv: where it is, and the packet in snd_rcv_buffer
  eng,    \* the engine's task: where it is, what the last call returned
  got,    \* what the engine has received of this file: units, all in place
  over,   \* history: the ring has been overrun
  late,   \* TFTP_TIMEOUT has passed since send_time
  net,    \* data packets on their way to the client
  up,     \* requests and acknowledgements on their way to the server
  srv,    \* the server: file, block being sent, times it was sent again
  faults, \* faults so far
  flen,   \* the lengths of the files
  first   \* the engine's task comes first

vars == <<sess, ring, sig, task, eng, got, over, late, net, up, srv, faults, flen, first>>
envVars == <<net, up, srv, faults, flen, first>>

Signals == {"buf", "data", "error", "finish"}
ALL == {"data", "error", "finish"}         \* TFTP_RX_ALL_SIG_MASK

NoSess == [live |-> FALSE, status |-> "not_started", err |-> FALSE, st |-> "rrq", seq |-> 0,
           last |-> 0, retry |-> 0, n |-> 0, rd |-> 0, wr |-> 0, open |-> FALSE, peer |-> 0,
           sigs |-> FALSE]
NoTask == [pc |-> "none", file |-> 0, blk |-> 0, from |-> TRUE]

\* Blocks of a file: the last one is short, if need be empty.
Blocks(f) == flen[f] \div Payload + 1
Units(p)  == Min({p.blk * Payload, flen[p.file]}) - (p.blk - 1) * Payload
SeqOf(p)  == p.blk % SeqMod
\* Mutant: a full block counts as the last one.
ShortOrFull(p) == Units(p) <= Payload

Short(p)  == Units(p) < Payload
Rrq       == {[op |-> "rrq", file |-> eng.file, n |-> 0]}
\* send reaches the server only over a connected socket.
Ack(s, q) == {[op |-> "ack", file |-> f, n |-> q] : f \in {s.peer} \ {0}}

Init ==
  /\ sess = NoSess /\ ring = [i \in 0 .. Size - 1 |-> <<0, 0>>] /\ sig = {}
  /\ task = NoTask /\ eng = [pc |-> "idle", file |-> 1, ret |-> "ok", n |-> 0,
                         more |-> FALSE, fin |-> FALSE]
  /\ got = [n |-> 0, good |-> TRUE] /\ over = FALSE /\ late = FALSE
  /\ net = {} /\ up = {} /\ srv = [file |-> 0, blk |-> 0, tries |-> 0] /\ faults = 0
  /\ \E u \in Setups : flen = u.lens /\ first = u.first

-----------------------------------------------------------------------------
(* The task ota_tftp_recv.                                                 *)

\* It runs whenever the engine's task, if that one comes first, is blocked:
\* in a wait for a signal, or while the socket is being closed.
EngineBlocked ==
  \/ eng.pc \in {"initwait", "wait"} /\ sig \cap ALL = {}
  \/ eng.pc = "closing"
At(p) == task.pc = p /\ (first => EngineBlocked)
Go(p) == task' = [task EXCEPT !.pc = p]

\* The network takes the packets m; beyond its capacity it loses one.
Carry(q, m, c) == IF Cardinality(q \cup m) <= c THEN {q \cup m}
                  ELSE {(q \cup m) \ {x} : x \in q \cup m}

\* ota_tftp_pkt_ack and ota_tftp_pkt_rrq restart the clock.
Send(m) == up' \in Carry(up, m, UpCap) /\ late' = FALSE
Quiet   == UNCHANGED <<up, late>>

Stopped(s, e) == [s EXCEPT !.status = "stop", !.err = @ \/ e]

\* ota_tftp_timeout, when the caller has found the clock run out; s is the
\* session as its caller has changed it.  It acknowledges the block it has
\* seen last, which is not always the block it has stored last.
\* Mutant: it acknowledges the next block.
TimeoutAcksNext(s) ==
  CASE s.status = "running" /\ s.st \in {"rrq", "data"} /\ s.retry < MaxRetry ->
         /\ sess' = [s EXCEPT !.retry = @ + 1]
         /\ Send(IF s.st = "rrq" THEN Rrq ELSE Ack(s, s.seq + 1))
    [] s.status = "running" /\ s.st \in {"rrq", "data"} /\ s.retry >= MaxRetry ->
         sess' = Stopped(s, TRUE) /\ Quiet
    [] OTHER -> sess' = s /\ Quiet
\* Mutant: no end to the retries.
TimeoutForever(s) ==
  CASE s.status = "running" /\ s.st = "rrq" -> sess' = s /\ Send(Rrq)
    [] s.status = "running" /\ s.st = "data" -> sess' = s /\ Send(Ack(s, s.seq))
    [] OTHER -> sess' = s /\ Quiet

Timeout(s) ==
  CASE s.status = "running" /\ s.st \in {"rrq", "data"} /\ s.retry < MaxRetry ->
         /\ sess' = [s EXCEPT !.retry = @ + 1]
         /\ Send(IF s.st = "rrq" THEN Rrq ELSE Ack(s, s.seq))
    [] s.status = "running" /\ s.st \in {"rrq", "data"} /\ s.retry >= MaxRetry ->
         sess' = Stopped(s, TRUE) /\ Quiet
    [] OTHER -> sess' = s /\ Quiet

TimeoutIfLate(s) == IF late THEN Timeout(s) ELSE sess' = s /\ Quiet

\* The head of the loop.  The room in the ring is looked at once.
Full == sess.n + Payload > Size

TaskLoop ==
  /\ At("loop")
  /\ IF sess.status \in {"running", "waitstop"}
     THEN Go(IF Full THEN "full" ELSE "select")
     ELSE Go("end")
  /\ UNCHANGED <<sess, ring, sig, eng, got, over, late, envVars>>

\* A full ring: wait until the engine has read.  The signal may be an old one.
TaskFull ==
  /\ At("full") /\ "buf" \in sig
  /\ sig' = sig \ {"buf"} /\ Go("select")
  /\ UNCHANGED <<sess, ring, eng, got, over, late, envVars>>

\* select returns without a packet.
TaskNothing ==
  /\ At("select") /\ sess.open /\ late
  /\ IF sess.status = "waitstop" THEN sess' = Stopped(sess, FALSE) /\ Quiet
     ELSE Timeout(sess)
  /\ Go("loop")
  /\ UNCHANGED <<ring, sig, eng, got, over, net, srv, faults, flen, first>>

\* select or recvfrom fails: the socket has been closed, or any other reason.
TaskSocket ==
  /\ At("select")
  /\ \/ ~ sess.open /\ UNCHANGED faults
     \/ sess.open /\ EnvFails /\ faults < MaxFaults /\ faults' = faults + 1
  /\ sess' = Stopped(sess, TRUE) /\ Go("end")
  /\ UNCHANGED <<ring, sig, eng, got, over, late, net, up, srv, flen, first>>

\* A packet p of the server arrives: before the client has connected its
\* socket from any port of the server, then from the one it is connected to.
\* (Only the first packet connects it: after an OACK it is never connected.)
\* It stays in the network when it was a duplicate.
Arrives(p) ==
  /\ At("select") /\ sess.open /\ p \in net
  /\ sess.peer # 0 => p.file = sess.peer
  /\ \/ net' = net \ {p} /\ UNCHANGED faults
     \/ net' = net /\ faults < MaxFaults /\ faults' = faults + 1

\* In state RRQ the sender's address is compared with the server's.  The
\* length recvfrom was given for it (fromlen) is never set: from is whether
\* the value the stack happened to hold was large enough.
TaskIgnores(p) ==
  /\ Arrives(p) /\ sess.st = "rrq" /\ ~ task.from
  /\ TimeoutIfLate(sess) /\ Go("loop")
  /\ UNCHANGED <<ring, sig, eng, got, over, srv, flen, first>>

\* The session after ota_tftp_pkt_parse of a data packet.
Parsed(p) == [sess EXCEPT !.retry = 0, !.seq = SeqOf(p), !.st = "data",
                          !.peer = IF sess.st = "rrq" THEN p.file ELSE @]

\* A block newer than all before: it is to be stored.
\* Mutant: a block the client has already is stored once more.
NewerOrSame(p) == SeqOf(p) >= sess.last

Newer(p) == SeqOf(p) > sess.last

TaskNew(p) ==
  /\ Arrives(p) /\ (sess.st = "rrq" => task.from) /\ Newer(p)
  /\ sess' = [Parsed(p) EXCEPT !.last = SeqOf(p)]
  /\ task' = [task EXCEPT !.pc = "store", !.file = p.file, !.blk = p.blk]
  /\ UNCHANGED <<ring, sig, eng, got, over, late, up, srv, flen, first>>

\* The first data packet, and connect fails.
TaskNoConnect(p) ==
  /\ Arrives(p) /\ sess.st = "rrq" /\ task.from /\ EnvFails
  /\ sess' = Stopped(Parsed(p), TRUE) /\ Go("end")
  /\ UNCHANGED <<ring, sig, eng, got, over, late, up, srv, flen, first>>

\* The last block again: its acknowledgement may have been lost; or an old one.
TaskOld(p) ==
  /\ Arrives(p) /\ (sess.st = "rrq" => task.from) /\ ~ Newer(p)
  /\ IF SeqOf(p) = sess.last
     THEN /\ sess' = Parsed(p)
          /\ IF sess.status = "waitstop" THEN Quiet ELSE Send(Ack(Parsed(p), sess.last))
     ELSE TimeoutIfLate(Parsed(p))
  /\ Go("loop")
  /\ UNCHANGED <<ring, sig, eng, got, over, srv, flen, first>>

\* Other packets: from elsewhere, of another kind, too large, an error, an
\* option acknowledgement nobody asked for, and a datagram without data.
\* Only state RRQ looks at the sender's address; later the socket does.
TaskOther(k) ==
  /\ At("select") /\ sess.open /\ faults < MaxFaults /\ faults' = faults + 1
  /\ LET seen == sess.st = "rrq" => task.from
         s == [sess EXCEPT !.retry = 0]
     IN  \/ /\ k = "alien" \/ (k # "empty" /\ ~ seen)
            /\ sess.st = "rrq" /\ TimeoutIfLate(sess) /\ Go("loop")
         \/ /\ k = "junk" /\ seen
            /\ IF sess.st = "data" /\ sess.seq = sess.last
               THEN sess' = s /\ (IF sess.status = "waitstop" THEN Quiet
                                 ELSE Send(Ack(sess, sess.seq)))
               ELSE TimeoutIfLate(s)
            /\ Go("loop")
         \/ /\ k \in {"large", "error"} /\ seen
            /\ sess' = Stopped(s, TRUE) /\ Quiet /\ Go("end")
         \/ /\ k = "oack" /\ seen
            /\ TimeoutIfLate([s EXCEPT !.st = "oack"]) /\ Go("loop")
         \/ /\ k = "empty"
            /\ sess' = Stopped(sess, FALSE) /\ Quiet /\ Go("end")
  /\ UNCHANGED <<ring, sig, eng, got, over, net, srv, flen, first>>

\* The data go into the ring, under the mutex, wrapping at its end.
Store(p) ==
  LET k == Units(p)
      at(i) == (i - sess.wr) % Size            \* place of cell i in the packet
  IN  /\ ring' = [i \in 0 .. Size - 1 |->
                    IF at(i) < k THEN <<p.file, (p.blk - 1) * Payload + at(i) + 1>> ELSE ring[i]]
      /\ sess' = [sess EXCEPT !.wr = (@ + k) % Size, !.n = @ + k]

TaskStore ==
  /\ At("store") /\ Store(task) /\ Go("ack")
  /\ over' = (over \/ sess.n + Units(task) > Size)
  /\ UNCHANGED <<sig, eng, got, late, envVars>>

\* Then the block is acknowledged and the engine told; ...
TaskAck ==
  /\ At("ack") /\ Send(Ack(sess, sess.seq))
  /\ sig' = sig \cup {"data"}
  /\ Go(IF Short(task) THEN "last" ELSE "loop")
  /\ UNCHANGED <<sess, ring, eng, got, over, net, srv, faults, flen, first>>

\* ... a short block is the last.
TaskLast ==
  /\ At("last") /\ sess' = [sess EXCEPT !.status = "waitstop"] /\ Go("loop")
  /\ UNCHANGED <<ring, sig, eng, got, over, late, envVars>>

\* The loop is left: the engine is told why, and the task deletes itself.
TaskEnd ==
  /\ At("end")
  /\ sig' = sig \cup {IF sess.err THEN "error" ELSE "finish"} /\ task' = NoTask
  /\ UNCHANGED <<sess, ring, eng, got, over, late, envVars>>

TaskPacket ==
  \E p \in net : TaskIgnores(p) \/ TaskNew(p) \/ TaskNoConnect(p) \/ TaskOld(p)
TaskNoise == \E k \in Noise : TaskOther(k)
Task ==
  \/ TaskLoop \/ TaskFull \/ TaskNothing \/ TaskSocket \/ TaskStore \/ TaskAck \/ TaskLast
  \/ TaskEnd

-----------------------------------------------------------------------------
(* The engine's task and the plugin's functions it calls.                  *)

EngAt(p)  == eng.pc = p
EngGo(p)  == eng' = [eng EXCEPT !.pc = p]
\* plugin_tftp_recv_data returns; in plugin_tftp_fin nobody looks at it.
Returns(r, k) ==
  eng' = IF eng.fin THEN [eng EXCEPT !.pc = "close"]
         ELSE [eng EXCEPT !.pc = "work", !.ret = r, !.n = k]

\* plugin_tftp_init: allocate the session, open the socket, send the request,
\* start the task.
PluginInit ==
  /\ EngAt("idle") /\ ~ sess.live
  /\ sess' = [NoSess EXCEPT !.live = TRUE, !.status = "running", !.open = TRUE, !.sigs = TRUE]
  /\ sig' = {} /\ got' = [n |-> 0, good |-> TRUE]
  /\ \E b \in BOOLEAN : task' = [NoTask EXCEPT !.pc = "loop", !.from = b]
  /\ Send(Rrq) /\ EngGo("initwait")
  /\ UNCHANGED <<ring, over, net, srv, faults, flen, first>>

\* One of its calls fails: no session, and the engine gives up.
PluginInitFails ==
  /\ EngAt("idle") /\ EnvFails
  /\ eng' = [eng EXCEPT !.pc = "done", !.ret = "err"]
  /\ UNCHANGED <<sess, ring, sig, task, got, over, late, envVars>>

\* It waits for the first data, leaving the signals set.
PluginInitWait ==
  /\ EngAt("initwait") /\ sig \cap ALL # {}
  /\ eng' = IF "error" \in sig THEN [eng EXCEPT !.pc = "close", !.ret = "err", !.fin = TRUE]
            ELSE [eng EXCEPT !.pc = "recv"]
  /\ UNCHANGED <<sess, ring, sig, task, got, over, late, envVars>>

\* plugin_tftp_recv_data.  The error code is read, ...
RecvEnter ==
  /\ EngAt("recv")
  /\ IF ~ sess.live \/ sess.err THEN Returns("err", 0) ELSE EngGo("recv2")
  /\ UNCHANGED <<sess, ring, sig, task, got, over, late, envVars>>

\* ... then the status: only a running transfer is read from.
RecvStatus ==
  /\ EngAt("recv2")
  /\ IF sess.status = "running" THEN EngGo("wait") ELSE Returns("ok", 0)
  /\ UNCHANGED <<sess, ring, sig, task, got, over, late, envVars>>

\* Wait for any of the three signals and clear them.  Without data the call
\* returns success, whatever woke it up.
RecvWait ==
  /\ EngAt("wait") /\ sig \cap ALL # {}
  /\ sig' = sig \ ALL
  /\ IF "data" \in sig THEN EngGo("copy") ELSE Returns("ok", 0)
  /\ UNCHANGED <<sess, ring, task, got, over, late, envVars>>

\* The copy out of the ring, under the mutex.
CopyLen == Min({ReadLen, sess.n})

InPlace(k) == \A i \in 0 .. k - 1 : ring[(sess.rd + i) % Size] = <<eng.file, got.n + i + 1>>

RecvCopy ==
  /\ EngAt("copy")
  /\ sess' = [sess EXCEPT !.n = @ - CopyLen, !.rd = (@ + CopyLen) % Size]
  /\ got' = IF eng.fin THEN got
            ELSE [n |-> got.n + CopyLen, good |-> got.good /\ InPlace(CopyLen)]
  /\ eng' = [eng EXCEPT !.pc = "post", !.n = IF eng.fin THEN @ ELSE CopyLen,
                         !.more = sess.n > CopyLen]
  /\ UNCHANGED <<ring, sig, task, over, late, envVars>>

\* Both sides are told what is there: room, and perhaps more data.  What is
\* left over was looked at under the mutex.
Post == IF eng.more THEN {"buf", "data"} ELSE {"buf"}

RecvPost ==
  /\ EngAt("post")
  /\ sig' = sig \cup Post /\ Returns("ok", eng.n)
  /\ UNCHANGED <<sess, ring, task, got, over, late, envVars>>

\* The engine with what recv_data returned (fw_upgrade_session_process): go
\* on while data come, give up for a reason of its own, or be done with the
\* file.  How much is to come it has from a header, which may promise more than
\* the server's file has.
Finished == eng.ret = "err" \/ eng.n = 0 \/ got.n >= flen[eng.file]

EngineWork ==
  /\ EngAt("work")
  /\ \/ eng.ret = "ok" /\ eng.n > 0 /\ EngGo("recv")
     \/ /\ Finished
        /\ eng' = [eng EXCEPT !.pc = "recv", !.fin = TRUE]          \* plugin_tftp_fin
     \/ /\ EnvFails
        /\ eng' = [eng EXCEPT !.pc = "close", !.ret = "err", !.fin = TRUE] \* plugin_tftp_abort
  /\ UNCHANGED <<sess, ring, sig, task, got, over, late, envVars>>

\* plugin_tftp_fin finds no memory to drain the ring into: everything stays.
FinNoMemory ==
  /\ EngAt("work") /\ EnvFails /\ Finished
  /\ EngGo("done")
  /\ UNCHANGED <<sess, ring, sig, task, got, over, late, envVars>>

\* ota_tftp_fin: the socket is closed, which takes the network task; ...
FinClose ==
  /\ EngAt("close")
  /\ sess' = [sess EXCEPT !.open = FALSE] /\ EngGo("closing")
  /\ UNCHANGED <<ring, sig, task, got, over, late, envVars>>

\* ... the signals and the mutex are deleted; ...
FinDelete ==
  /\ EngAt("closing") /\ sess' = [sess EXCEPT !.sigs = FALSE] /\ EngGo("delete")
  /\ UNCHANGED <<ring, sig, task, got, over, late, envVars>>

\* ... then the task, if it still runs, and the session.  The engine goes on
\* with the next file if this one was complete and its hash was right.
FinFree ==
  /\ EngAt("delete")
  /\ sess' = NoSess /\ task' = NoTask /\ sig' = {}
  /\ LET next == eng.file + 1 \in Files /\ eng.ret = "ok" /\ got = [n |-> flen[eng.file], good |-> TRUE]
     IN  eng' = [eng EXCEPT !.pc = IF next THEN "idle" ELSE "done", !.fin = FALSE, !.n = 0,
                            !.file = IF next THEN @ + 1 ELSE @]
  /\ UNCHANGED <<ring, got, over, late, envVars>>

Engine ==
  \/ PluginInit \/ PluginInitWait \/ RecvEnter \/ RecvStatus \/ RecvWait \/ RecvCopy
  \/ RecvPost \/ EngineWork \/ FinClose \/ FinDelete \/ FinFree

-----------------------------------------------------------------------------
(* The clock, the network and the server (external).  A packet that is     *)
(* lost is one that stays in the network for ever.  What the server does   *)
(* once the download is over is left out.                                  *)

\* TFTP_TIMEOUT passes.  It is enough to let it pass where the client looks
\* at the clock.
Tick ==
  /\ task.pc = "select" /\ ~ late /\ late' = TRUE
  /\ UNCHANGED <<sess, ring, sig, task, eng, got, over, envVars>>

Sends(f, b) == /\ srv' = [file |-> f, blk |-> b, tries |-> 0]
               /\ net' \in Carry(net, {[file |-> f, blk |-> b]}, NetCap)

\* The server gets a request or an acknowledgement.  It answers a request
\* with the first block, the acknowledgement of a block with the next.
ServerGets(m) ==
  /\ eng.pc # "done" /\ m \in up
  /\ \/ up' = up \ {m} /\ UNCHANGED faults
     \/ up' = up /\ faults < MaxFaults /\ faults' = faults + 1
  /\ CASE m.op = "rrq" /\ (srv.file # m.file \/ srv.blk = 1) -> Sends(m.file, 1)
       [] m.op = "ack" /\ srv.file = m.file /\ m.n = srv.blk % SeqMod
            /\ srv.blk < Blocks(m.file) -> Sends(m.file, srv.blk + 1)
       [] m.op = "ack" /\ srv.file = m.file /\ m.n = srv.blk % SeqMod
            /\ srv.blk = Blocks(m.file) -> srv' = [srv EXCEPT !.blk = @ + 1] /\ UNCHANGED net
       [] OTHER -> UNCHANGED <<srv, net>>
  /\ UNCHANGED <<sess, ring, sig, task, eng, got, over, late, flen, first>>

\* It sends a block again when no acknowledgement comes, but not for ever.
ServerAgain ==
  /\ eng.pc # "done" /\ srv.file # 0 /\ srv.blk <= Blocks(srv.file) /\ srv.tries < MaxResend
  /\ srv' = [srv EXCEPT !.tries = @ + 1]
  /\ net' \in Carry(net, {[file |-> srv.file, blk |-> srv.blk]}, NetCap)
  /\ UNCHANGED <<sess, ring, sig, task, eng, got, over, late, up, faults, flen, first>>

Server == \E m \in up : ServerGets(m)

Next ==
  \/ Task \/ TaskPacket \/ TaskNoise \/ Engine \/ PluginInitFails \/ FinNoMemory
  \/ Tick \/ Server \/ ServerAgain

Spec == Init /\ [][Next]_vars

\* Both tasks run when they can, and time passes.  Nothing is asked of the
\* network and of the server.
FairSpec == Spec /\ WF_vars(Task) /\ WF_vars(Engine) /\ WF_vars(Tick)

-----------------------------------------------------------------------------
(* Properties.                                                             *)

Sess   == [live : BOOLEAN, status : {"not_started", "running", "waitstop", "stop"},
           err : BOOLEAN, st : {"rrq", "oack", "data"}, seq : 0 .. SeqMod - 1,
           last : 0 .. SeqMod - 1, retry : 0 .. MaxRetry, n : Nat, rd : 0 .. Size - 1,
           wr : 0 .. Size - 1, open : BOOLEAN, peer : Files \cup {0}, sigs : BOOLEAN]
Recv   == [pc : {"none", "loop", "full", "select", "store", "ack", "last", "end"},
           file : Files \cup {0}, blk : Nat, from : BOOLEAN]
Eng    == [pc : {"idle", "initwait", "recv", "recv2", "wait", "copy", "post", "work",
                 "close", "closing", "delete", "done"},
           file : Files, ret : {"ok", "err"}, n : Nat, more : BOOLEAN, fin : BOOLEAN]
Packet == [file : Files, blk : Nat]
Answer == [op : {"rrq", "ack"}, file : Files, n : 0 .. SeqMod - 1]

\* The values of the variables.
TypeOK ==
  /\ sess \in Sess /\ task \in Recv /\ eng \in Eng /\ sig \subseteq Signals
  /\ ring \in [0 .. Size - 1 -> (Files \cup {0}) \X Nat]
  /\ got \in [n : Nat, good : BOOLEAN] /\ over \in BOOLEAN /\ late \in BOOLEAN
  /\ net \subseteq Packet /\ up \subseteq Answer
  /\ srv \in [file : Files \cup {0}, blk : Nat, tries : 0 .. MaxResend]
  /\ faults \in 0 .. MaxFaults /\ flen \in [Files -> Nat] /\ first \in BOOLEAN

\* What plugin_tftp_recv_data hands out is the file from its start on, nothing
\* left out, repeated or out of order, whatever the network loses, repeats
\* and reorders: as long as the ring is not overrun, which cannot happen when
\* the engine's task comes first.
StreamIntact == (first \/ ~ over) => got.good

\* The comment "check if there are enough buffer to store data" in
\* ota_tftp_recv: the ring never holds more than its size.
NoOverrun == sess.n <= Size

\* recv_data returns success and no data, and no error was recorded.
SaysEnd == eng.pc = "work" /\ eng.ret = "ok" /\ eng.n = 0 /\ ~ sess.err

\* fw_upgrade_session_process takes that for "no more data".  With the
\* engine's task first it is right: the whole file has been handed out, also
\* when its header had promised more.  (Unless a datagram without data comes,
\* Noise "empty", which ota_tftp_recv takes for the end.)
EndMeansEnd == (first /\ SaysEnd) => got.n = flen[eng.file]

\* The same without the condition on the tasks.
EndMeansEndAlways == SaysEnd => got.n = flen[eng.file]

\* The server never goes past a block the client has not stored: neither a
\* retransmission nor an old acknowledgement confirms one.  (Before block
\* numbers wrap around: then the client gives up.)
AckedIsStored ==
  (sess.live /\ sess.peer = eng.file /\ srv.file = eng.file /\ srv.blk <= SeqMod)
    => srv.blk <= sess.last + 1

\* The engine's calls return and the download ends, with success or not,
\* unless the client waits for data in state OACK, which has no timeout.
Terminates == <>(eng.pc = "done") \/ <>[](sess.st = "oack")
=============================================================================

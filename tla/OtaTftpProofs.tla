--------------------------- MODULE OtaTftpProofs ----------------------------
(***************************************************************************)
(* OtaTftp for every size of block, ring and file.                         *)
(*                                                                         *)
(* Protocol follows the packets: which blocks have been sent (Sent) and    *)
(* how far the server may be ahead of the client (Acked).  Whole, for one  *)
(* file, adds where the two tasks stand (Where), who runs when the         *)
(* engine's task comes first (InTurn) and what the ring holds (Stream);    *)
(* Ended, what the end of a transfer means.                                *)
(***************************************************************************)
EXTENDS OtaTftp, TLAPS

-----------------------------------------------------------------------------
(* Blocks, and what they hold.                                             *)

LEMMA DivMod ==
  ASSUME NEW n \in Nat, NEW d \in Nat \ {0}
  PROVE  /\ n \div d \in Nat /\ n % d \in 0 .. d - 1
         /\ (n \div d) * d <= n /\ n < (n \div d + 1) * d
  <1>1. n \div d \in Nat /\ n % d \in 0 .. d - 1 /\ n = d * (n \div d) + (n % d)
    OBVIOUS
  <1>2. PICK q \in Nat, r \in 0 .. d - 1 : n \div d = q /\ n = d * q + r
    BY <1>1
  <1>3. d * q = q * d /\ (q + 1) * d = q * d + d
    OBVIOUS
  <1> QED
    BY <1>1, <1>2, <1>3

LEMMA LessTimes ==
  ASSUME NEW a \in Nat, NEW b \in Nat, NEW d \in Nat, a <= b
  PROVE  a * d <= b * d /\ a * d \in Nat
  <1>1. PICK k \in Nat : b = a + k
    <2>1. b - a \in Nat /\ b = a + (b - a)
      OBVIOUS
    <2> QED
      BY <2>1
  <1>2. b * d = a * d + k * d /\ k * d \in Nat /\ a * d \in Nat
    BY <1>1
  <1> QED
    BY <1>2

LEMMA MinIs ==
  ASSUME NEW a \in Int, NEW b \in Int
  PROVE  Min({a, b}) = IF a <= b THEN a ELSE b
  BY DEF Min

\* Numbers modulo the size of the ring, as far as they are used.
LEMMA ModIs ==
  ASSUME NEW d \in Nat \ {0}, NEW x \in Int, 0 - d <= x, x < 2 * d
  PROVE  x % d = IF x < 0 THEN x + d ELSE IF x < d THEN x ELSE x - d
  OBVIOUS

\* How much of file f its first b blocks hold.
Upto(f, b) == IF b * Payload <= flen[f] THEN b * Payload ELSE flen[f]

LEMMA BlocksAre ==
  ASSUME flen \in [Files -> Nat], NEW f \in Files
  PROVE  Blocks(f) \in Nat /\ Blocks(f) >= 1 /\ Upto(f, 0) = 0 /\ Upto(f, Blocks(f)) = flen[f]
  <1>1. flen[f] \in Nat /\ Payload \in Nat \ {0}
    BY TftpAssumption
  <1>2. PICK q \in Nat : q = flen[f] \div Payload /\ flen[f] < (q + 1) * Payload
    BY <1>1, DivMod
  <1>3. Blocks(f) = q + 1
    BY <1>2 DEF Blocks
  <1> QED
    BY <1>1, <1>2, <1>3 DEF Upto

LEMMA UnitsAre ==
  ASSUME flen \in [Files -> Nat], NEW p, p.file \in Files, p.blk \in 1 .. Blocks(p.file)
  PROVE  /\ Units(p) \in 0 .. Payload
         /\ (p.blk - 1) * Payload = Upto(p.file, p.blk - 1)
         /\ Upto(p.file, p.blk) = Upto(p.file, p.blk - 1) + Units(p)
         /\ Upto(p.file, p.blk - 1) \in Nat
         /\ Short(p) => p.blk = Blocks(p.file)
  <1>1. PICK L \in Nat : L = flen[p.file]
    BY TftpAssumption
  <1>2. PICK d \in Nat \ {0} : d = Payload
    BY TftpAssumption
  <1>3. PICK q \in Nat : q = L \div d /\ q * d <= L /\ L < (q + 1) * d
    BY DivMod
  <1>4. Blocks(p.file) = q + 1
    BY <1>1, <1>2, <1>3 DEF Blocks
  <1>5. PICK b \in 1 .. q + 1 : b = p.blk
    BY <1>4
  <1>6. PICK a \in Nat : a = b - 1 /\ a <= q
    <2>1. b - 1 \in Nat /\ b - 1 <= q
      BY <1>3, <1>5
    <2> QED
      BY <2>1
  <1>7. a * d <= q * d /\ a * d \in Nat
    BY <1>6, LessTimes
  <1>8. PICK x \in Nat : x = a * d /\ x <= L
    BY <1>3, <1>7
  <1>9. b * d = x + d
    <2>1. b = a + 1
      BY <1>5, <1>6
    <2>2. (a + 1) * d = a * d + d
      OBVIOUS
    <2> QED
      BY <1>8, <2>1, <2>2
  <1>10. Units(p) = (IF x + d <= L THEN x + d ELSE L) - x
    <2>1. Min({b * d, L}) = IF b * d <= L THEN b * d ELSE L
      BY <1>9, MinIs
    <2> QED
      BY <1>1, <1>2, <1>5, <1>6, <1>8, <1>9, <2>1 DEF Units
  <1>11. Upto(p.file, p.blk - 1) = x /\ Upto(p.file, p.blk) = IF x + d <= L THEN x + d ELSE L
    BY <1>1, <1>2, <1>5, <1>6, <1>8, <1>9 DEF Upto
  <1>12. ASSUME ~ (x + d <= L) PROVE b = q + 1
    <2>1. SUFFICES ASSUME b <= q PROVE FALSE
      BY <1>5
    <2>2. b * d <= q * d
      BY <1>5, <2>1, LessTimes
    <2>3. q * d \in Nat
      OBVIOUS
    <2> QED
      BY <1>3, <1>8, <1>9, <1>12, <2>2, <2>3
  <1>13. Short(p) => p.blk = Blocks(p.file)
    BY <1>2, <1>4, <1>5, <1>8, <1>10, <1>12 DEF Short
  <1>14. (p.blk - 1) * Payload = x
    BY <1>2, <1>5, <1>6, <1>8
  <1>15. (p.blk - 1) * Payload = Upto(p.file, p.blk - 1) /\ Upto(p.file, p.blk - 1) \in Nat
    BY <1>8, <1>11, <1>14
  <1>16. Units(p) \in 0 .. Payload /\ Upto(p.file, p.blk) = Upto(p.file, p.blk - 1) + Units(p)
    BY <1>1, <1>2, <1>8, <1>10, <1>11
  <1> QED
    BY <1>13, <1>15, <1>16

-----------------------------------------------------------------------------
(* The protocol: what is under way, and what the server may know.          *)

\* Packets name files that have been asked for, and blocks those files have.
Sent ==
  /\ \A p \in net : p.file <= eng.file /\ p.blk \in 1 .. Blocks(p.file)
  /\ srv.file # 0 => srv.file <= eng.file /\ srv.blk \in 1 .. Blocks(srv.file) + 1
  /\ \A m \in up : m.file <= eng.file
  /\ sess.peer <= eng.file /\ (sess.st = "rrq" => sess.peer = 0)
  /\ task.pc # "none" => sess.live
  /\ task.pc \in {"store", "ack", "last"} => task.file # 0 /\ task.blk \in 1 .. Blocks(task.file)
  /\ eng.pc = "idle" => /\ ~ sess.live /\ srv.file < eng.file
                        /\ \A p \in net : p.file < eng.file
                        /\ \A m \in up : m.file < eng.file

\* How far the server is: one block ahead of the client, until the client has
\* the last one it can tell from an old one.
Reached(b) ==
  IF sess.peer = eng.file THEN b <= sess.last + 1 \/ sess.last = SeqMod - 1 ELSE b = 1

\* The client acknowledges nothing that is newer than what it keeps.
Acked ==
  /\ task.pc \notin {"end", "none"} => sess.seq <= sess.last
  /\ sess.live =>
       /\ \A m \in up : m.op = "ack" /\ m.file = eng.file => sess.peer = eng.file /\ m.n <= sess.last
       /\ \A p \in net : p.file = eng.file => Reached(p.blk)
       /\ srv.file = eng.file => Reached(srv.blk)

Protocol == TypeOK /\ Sent /\ Acked

Acks(s) == {m \in Answer : m.op = "ack" /\ m.file = s.peer /\ m.n <= s.last}

LEMMA CarryIs ==
  ASSUME NEW q, NEW m, NEW c, NEW r \in Carry(q, m, c)
  PROVE  r \subseteq q \cup m
  BY DEF Carry

LEMMA AckIs ==
  ASSUME NEW s \in Sess, NEW q \in 0 .. SeqMod - 1, q <= s.last
  PROVE  Ack(s, q) \subseteq Acks(s)
  BY DEF Ack, Acks, Answer, Sess

LEMMA RrqIs ==
  ASSUME eng \in Eng
  PROVE  Rrq \subseteq Answer /\ \A m \in Rrq : m.op = "rrq" /\ m.file = eng.file
  BY TftpAssumption DEF Rrq, Answer, Eng

\* Where nothing else about a session changes.
Same(s, t) ==
  /\ t \in Sess /\ t.live = s.live /\ t.st = s.st /\ t.seq = s.seq /\ t.last = s.last
  /\ t.peer = s.peer /\ t.n = s.n /\ t.rd = s.rd /\ t.wr = s.wr

LEMMA StoppedIs ==
  ASSUME NEW s \in Sess, NEW e \in BOOLEAN
  PROVE  /\ Same(s, Stopped(s, e)) /\ Stopped(s, e).status = "stop"
         /\ Stopped(s, e).err = (s.err \/ e)
  <1>1. PICK b \in BOOLEAN : b = (s.err \/ e)
    BY DEF Sess
  <1>2. Stopped(s, e) = [s EXCEPT !.status = "stop", !.err = b]
    BY <1>1 DEF Stopped, Sess
  <1> QED
    BY <1>1, <1>2 DEF Sess, Same

LEMMA TimeoutIs ==
  ASSUME NEW s \in Sess, s.seq <= s.last, eng \in Eng, late \in BOOLEAN, TimeoutIfLate(s) \/ Timeout(s)
  PROVE  /\ Same(s, sess') /\ late' \in BOOLEAN /\ up' \subseteq up \cup Rrq \cup Acks(s)
         /\ (sess'.status = s.status /\ sess'.err = s.err) \/ (sess'.status = "stop" /\ sess'.err)
  <1>1. s.seq \in 0 .. SeqMod - 1 /\ s.retry \in 0 .. MaxRetry /\ MaxRetry \in Nat
    BY TftpAssumption DEF Sess
  <1>2. Ack(s, s.seq) \subseteq Acks(s)
    BY <1>1, AckIs
  <1>3. CASE s.retry < MaxRetry /\ sess' = [s EXCEPT !.retry = @ + 1]
             /\ Send(IF s.st = "rrq" THEN Rrq ELSE Ack(s, s.seq))
    <2>1. PICK m : m = (IF s.st = "rrq" THEN Rrq ELSE Ack(s, s.seq)) /\ m \subseteq Rrq \cup Acks(s)
      BY <1>2
    <2>2. up' \subseteq up \cup m /\ late' = FALSE
      BY <1>3, <2>1, CarryIs DEF Send
    <2>3. s.retry + 1 \in 0 .. MaxRetry
      BY <1>1, <1>3
    <2> QED
      BY <1>3, <2>1, <2>2, <2>3 DEF Same, Sess
  <1>4. CASE sess' = Stopped(s, TRUE) /\ Quiet
    BY <1>4, StoppedIs DEF Quiet
  <1>5. CASE sess' = s /\ Quiet
    BY <1>5 DEF Quiet, Same
  <1>6. Timeout(s) => \/ s.retry < MaxRetry /\ sess' = [s EXCEPT !.retry = @ + 1]
                         /\ Send(IF s.st = "rrq" THEN Rrq ELSE Ack(s, s.seq))
                      \/ sess' = Stopped(s, TRUE) /\ Quiet
                      \/ sess' = s /\ Quiet
    BY <1>1 DEF Timeout
  <1> QED
    BY <1>3, <1>4, <1>5, <1>6 DEF TimeoutIfLate

\* What select and a packet do to the session: the last block and the peer
\* never go back, and what is sent is a request or acknowledges no more than
\* the session has.
Heard ==
  /\ sess' \in Sess /\ task' \in Recv /\ faults' \in 0 .. MaxFaults /\ late' \in BOOLEAN
  /\ net' \subseteq net /\ up' \subseteq up \cup Rrq \cup Acks(sess')
  /\ UNCHANGED <<ring, sig, eng, got, over, srv, flen, first>>
  /\ sess'.live = sess.live /\ sess'.n = sess.n /\ sess'.rd = sess.rd /\ sess'.wr = sess.wr
  /\ sess'.peer = sess.peer \/ (sess.st = "rrq" /\ \E p \in net : sess'.peer = p.file)
  /\ sess'.st = "rrq" => sess.st = "rrq" /\ sess'.peer = sess.peer
  /\ task'.pc = "end" => sess'.status = "stop"
  /\ task'.pc # "end" => sess'.seq <= sess'.last

Older ==
  /\ task'.pc \in {"loop", "end"} /\ sess'.last = sess.last
  /\ \/ sess'.status = sess.status /\ sess'.err = sess.err
     \/ sess'.status = "stop" /\ sess'.err
     \/ /\ sess'.status = "stop" /\ sess'.err = sess.err
        /\ sess.status = "waitstop" \/ "empty" \in Noise

Stores ==
  \E p \in net : /\ Newer(p) /\ sess'.last = SeqOf(p) /\ task'.pc = "store"
                 /\ task'.file = p.file /\ task'.blk = p.blk
                 /\ sess'.status = sess.status /\ sess'.err = sess.err

LEMMA TaskMoves ==
  ASSUME task \in Recv, NEW p \in {"loop", "end", "full", "select", "ack", "last"}, Go(p)
  PROVE  task' \in Recv /\ task'.pc = p /\ task'.file = task.file /\ task'.blk = task.blk
  BY DEF Go, Recv

\* The number of a packet.
LEMMA SeqIs ==
  ASSUME NEW p \in Packet
  PROVE  SeqOf(p) \in 0 .. SeqMod - 1
  <1>1. p.blk \in Nat /\ SeqMod \in Nat \ {0}
    BY TftpAssumption DEF Packet
  <1> QED
    BY <1>1, DivMod DEF SeqOf

LEMMA ParsedIs ==
  ASSUME sess \in Sess, NEW p \in Packet
  PROVE  /\ Parsed(p) \in Sess /\ Parsed(p).seq = SeqOf(p) /\ Parsed(p).st = "data"
         /\ Parsed(p).peer = (IF sess.st = "rrq" THEN p.file ELSE sess.peer)
         /\ Parsed(p).live = sess.live /\ Parsed(p).n = sess.n /\ Parsed(p).rd = sess.rd
         /\ Parsed(p).wr = sess.wr /\ Parsed(p).last = sess.last
         /\ Parsed(p).status = sess.status /\ Parsed(p).err = sess.err
  <1>1. SeqOf(p) \in 0 .. SeqMod - 1 /\ 0 \in 0 .. MaxRetry
    BY SeqIs, TftpAssumption
  <1>2. PICK f \in Files \cup {0} : f = IF sess.st = "rrq" THEN p.file ELSE sess.peer
    BY DEF Sess, Packet
  <1>3. Parsed(p) = [sess EXCEPT !.retry = 0, !.seq = SeqOf(p), !.st = "data", !.peer = f]
    BY <1>2 DEF Parsed, Sess
  <1> QED
    BY <1>1, <1>2, <1>3, ZenonT(60) DEF Sess

LEMMA Hears ==
  ASSUME Protocol,
         \/ TaskNothing \/ TaskSocket
         \/ \E p \in net : TaskIgnores(p) \/ TaskNew(p) \/ TaskNoConnect(p) \/ TaskOld(p)
         \/ \E k \in Noise : TaskOther(k)
  PROVE  /\ Heard /\ (Older \/ Stores) /\ task.pc = "select" /\ (first => EngineBlocked)
  <1>0. /\ sess \in Sess /\ task \in Recv /\ eng \in Eng /\ late \in BOOLEAN /\ faults \in 0 .. MaxFaults
        /\ net \subseteq Packet /\ up \subseteq Answer /\ MaxFaults \in Nat
    BY TftpAssumption DEF Protocol, TypeOK
  <1>1. task.pc = "select" /\ (first => EngineBlocked)
    BY DEF TaskNothing, TaskSocket, TaskIgnores, TaskNew, TaskNoConnect, TaskOld, TaskOther, Arrives, At
  <1>2. sess.seq <= sess.last /\ sess.seq \in 0 .. SeqMod - 1 /\ sess.last \in 0 .. SeqMod - 1
    BY <1>0, <1>1 DEF Protocol, Acked, Sess
  <1>3. ASSUME NEW s \in Sess, Same(s, sess'), s.live = sess.live, s.n = sess.n, s.rd = sess.rd,
               s.wr = sess.wr, s.last = sess.last, s.status = sess.status, s.err = sess.err,
               s.peer = sess.peer \/ (sess.st = "rrq" /\ \E p \in net : s.peer = p.file),
               s.st = "rrq" => sess.st = "rrq" /\ s.peer = sess.peer,
               \/ sess'.status = s.status /\ sess'.err = s.err
               \/ sess'.status = "stop" /\ sess'.err
               \/ sess'.status = "stop" /\ sess'.err = s.err /\ (s.status = "waitstop" \/ "empty" \in Noise),
               late' \in BOOLEAN, faults' \in 0 .. MaxFaults, net' \subseteq net,
               up' \subseteq up \cup Rrq \cup Acks(s),
               UNCHANGED <<ring, sig, eng, got, over, srv, flen, first>>,
               NEW q \in {"loop", "end"}, Go(q), q = "end" => sess'.status = "stop",
               q # "end" => s.seq <= s.last
        PROVE  Heard /\ Older
    <2>1. task' \in Recv /\ task'.pc = q
      BY <1>0, <1>3, TaskMoves
    <2>2. /\ sess' \in Sess /\ sess'.live = s.live /\ sess'.st = s.st /\ sess'.seq = s.seq
          /\ sess'.last = s.last /\ sess'.peer = s.peer /\ sess'.n = s.n /\ sess'.rd = s.rd
          /\ sess'.wr = s.wr
      BY <1>3 DEF Same
    <2>3. Acks(s) = Acks(sess')
      BY <2>2 DEF Acks
    <2>4. Older
      BY <1>3, <2>1, <2>2 DEF Older
    <2> QED
      BY <1>3, <2>1, <2>2, <2>3, <2>4 DEF Heard
  <1>4. Same(sess, sess)
    BY <1>0 DEF Same
  <1>5. CASE TaskNothing
    <2>1. /\ Go("loop") /\ UNCHANGED <<ring, sig, eng, got, over, net, srv, faults, flen, first>>
          /\ (sess.status = "waitstop" /\ sess' = Stopped(sess, FALSE) /\ Quiet) \/ Timeout(sess)
      BY <1>5 DEF TaskNothing
    <2>2. CASE sess.status = "waitstop" /\ sess' = Stopped(sess, FALSE) /\ Quiet
      <3>1. Same(sess, sess') /\ sess'.status = "stop" /\ sess'.err = sess.err /\ UNCHANGED <<up, late>>
        BY <1>0, <2>2, StoppedIs DEF Quiet, Sess
      <3> QED
        BY <1>0, <1>1, <1>2, <1>3, <2>1, <2>2, <3>1
    <2>3. CASE Timeout(sess)
      <3>1. /\ Same(sess, sess') /\ late' \in BOOLEAN /\ up' \subseteq up \cup Rrq \cup Acks(sess)
            /\ (sess'.status = sess.status /\ sess'.err = sess.err) \/ (sess'.status = "stop" /\ sess'.err)
        BY <1>0, <1>2, <2>3, TimeoutIs
      <3> QED
        BY <1>0, <1>1, <1>2, <1>3, <2>1, <3>1
    <2> QED
      BY <2>1, <2>2, <2>3
  <1>6. CASE TaskSocket
    <2>1. /\ Go("end") /\ UNCHANGED <<ring, sig, eng, got, over, late, net, up, srv, flen, first>>
          /\ faults' \in 0 .. MaxFaults /\ sess' = Stopped(sess, TRUE)
      BY <1>0, <1>6 DEF TaskSocket
    <2>2. Same(sess, sess') /\ sess'.status = "stop" /\ sess'.err
      BY <1>0, <2>1, StoppedIs
    <2> QED
      BY <1>0, <1>1, <1>2, <1>3, <2>1, <2>2
  <1>7. ASSUME NEW p \in net, TaskIgnores(p) \/ TaskNew(p) \/ TaskNoConnect(p) \/ TaskOld(p)
        PROVE  Heard /\ (Older \/ Stores)
    <2>1. /\ p \in Packet /\ net' \subseteq net /\ faults' \in 0 .. MaxFaults
          /\ UNCHANGED <<ring, sig, eng, got, over, srv, flen, first>>
      <3>1. Arrives(p) /\ UNCHANGED <<ring, sig, eng, got, over, srv, flen, first>>
        BY <1>7, Zenon DEF TaskIgnores, TaskNew, TaskNoConnect, TaskOld
      <3> QED
        BY <1>0, <3>1 DEF Arrives
    <2>2. PICK P : P = Parsed(p)
      OBVIOUS
    <2>3. /\ P \in Sess /\ P.seq = SeqOf(p) /\ P.st = "data" /\ P.live = sess.live /\ P.n = sess.n
          /\ P.rd = sess.rd /\ P.wr = sess.wr /\ P.last = sess.last /\ P.status = sess.status
          /\ P.err = sess.err /\ SeqOf(p) \in 0 .. SeqMod - 1
          /\ P.peer = sess.peer \/ (sess.st = "rrq" /\ \E r \in net : P.peer = r.file)
      BY <1>0, <2>1, <2>2, ParsedIs, SeqIs
    <2>4. CASE TaskIgnores(p)
      <3>1. TimeoutIfLate(sess) /\ Go("loop")
        BY <2>4 DEF TaskIgnores
      <3>2. /\ Same(sess, sess') /\ late' \in BOOLEAN /\ up' \subseteq up \cup Rrq \cup Acks(sess)
            /\ (sess'.status = sess.status /\ sess'.err = sess.err) \/ (sess'.status = "stop" /\ sess'.err)
        BY <1>0, <1>2, <3>1, TimeoutIs
      <3> QED
        BY <1>0, <1>2, <1>3, <2>1, <3>1, <3>2
    <2>5. CASE TaskNew(p)
      <3>1. /\ Newer(p) /\ sess' = [P EXCEPT !.last = SeqOf(p)]
            /\ task' = [task EXCEPT !.pc = "store", !.file = p.file, !.blk = p.blk]
            /\ UNCHANGED <<late, up>>
        BY <2>2, <2>5 DEF TaskNew
      <3>2. task' \in Recv /\ task'.pc = "store" /\ task'.file = p.file /\ task'.blk = p.blk
        BY <1>0, <2>1, <3>1 DEF Recv, Packet
      <3>3. /\ sess' \in Sess /\ sess'.last = SeqOf(p) /\ sess'.seq = SeqOf(p) /\ sess'.st = "data"
            /\ sess'.live = sess.live /\ sess'.n = sess.n /\ sess'.rd = sess.rd /\ sess'.wr = sess.wr
            /\ sess'.status = sess.status /\ sess'.err = sess.err /\ sess'.peer = P.peer
        BY <2>3, <3>1 DEF Sess
      <3>4. Stores
        BY <3>1, <3>2, <3>3 DEF Stores
      <3>5. Heard
        BY <1>0, <2>1, <2>3, <3>1, <3>2, <3>3 DEF Heard
      <3> QED
        BY <3>4, <3>5
    <2>6. CASE TaskNoConnect(p)
      <3>1. sess' = Stopped(P, TRUE) /\ Go("end") /\ UNCHANGED <<late, up>>
        BY <2>2, <2>6 DEF TaskNoConnect
      <3>2. Same(P, sess') /\ sess'.status = "stop" /\ sess'.err
        BY <2>3, <3>1, StoppedIs
      <3>3. up' \subseteq up \cup Rrq \cup Acks(P)
        BY <3>1
      <3> QED
        BY <1>0, <1>3, <2>1, <2>3, <3>1, <3>2, <3>3
    <2>7. CASE TaskOld(p)
      <3>1. /\ ~ Newer(p) /\ Go("loop")
            /\ \/ /\ SeqOf(p) = sess.last /\ sess' = P
                  /\ Quiet \/ Send(Ack(P, sess.last))
               \/ TimeoutIfLate(P)
        BY <2>2, <2>7 DEF TaskOld
      <3>2. P.seq <= P.last
        BY <1>2, <2>3, <3>1 DEF Newer
      <3>3. CASE SeqOf(p) = sess.last /\ sess' = P /\ (Quiet \/ Send(Ack(P, sess.last)))
        <4>1. Same(P, sess') /\ sess'.status = P.status /\ sess'.err = P.err
          BY <2>3, <3>3 DEF Same
        <4>2. Ack(P, sess.last) \subseteq Acks(P)
          BY <1>2, <2>3, AckIs
        <4>3. up' \subseteq up \cup Rrq \cup Acks(P) /\ late' \in BOOLEAN
          BY <1>0, <3>3, <4>2, CarryIs, ZenonT(60) DEF Quiet, Send
        <4> QED
          BY <1>0, <1>3, <2>1, <2>3, <3>1, <3>2, <4>1, <4>3
      <3>4. CASE TimeoutIfLate(P)
        <4>1. /\ Same(P, sess') /\ late' \in BOOLEAN /\ up' \subseteq up \cup Rrq \cup Acks(P)
              /\ (sess'.status = P.status /\ sess'.err = P.err) \/ (sess'.status = "stop" /\ sess'.err)
          BY <1>0, <2>3, <3>2, <3>4, TimeoutIs
        <4> QED
          BY <1>0, <1>3, <2>1, <2>3, <3>1, <3>2, <4>1
      <3> QED
        BY <3>1, <3>3, <3>4
    <2> QED
      BY <1>7, <2>4, <2>5, <2>6, <2>7
  <1>8. ASSUME NEW k \in Noise, TaskOther(k)
        PROVE  Heard /\ Older
    <2>1. UNCHANGED <<ring, sig, eng, got, over, net, srv, flen, first>> /\ faults' \in 0 .. MaxFaults
      BY <1>0, <1>8 DEF TaskOther
    <2>2. PICK s : s = [sess EXCEPT !.retry = 0]
      OBVIOUS
    <2>3. /\ s \in Sess /\ Same(sess, s) /\ s.status = sess.status /\ s.err = sess.err
      <3>1. 0 \in 0 .. MaxRetry
        BY TftpAssumption
      <3> QED
        BY <1>0, <2>2, <3>1 DEF Sess, Same
    <2>4. PICK o : o = [s EXCEPT !.st = "oack"]
      OBVIOUS
    <2>5. /\ o \in Sess /\ o.st = "oack" /\ o.live = sess.live /\ o.n = sess.n /\ o.rd = sess.rd
          /\ o.wr = sess.wr /\ o.last = sess.last /\ o.status = sess.status /\ o.err = sess.err
          /\ o.peer = sess.peer /\ o.seq = sess.seq
      BY <2>3, <2>4 DEF Sess, Same
    <2>6. \/ TimeoutIfLate(sess) /\ Go("loop")
          \/ sess' = s /\ (Quiet \/ Send(Ack(sess, sess.seq))) /\ Go("loop")
          \/ TimeoutIfLate(s) /\ Go("loop")
          \/ sess' = Stopped(s, TRUE) /\ Quiet /\ Go("end")
          \/ TimeoutIfLate(o) /\ Go("loop")
          \/ k = "empty" /\ sess' = Stopped(sess, FALSE) /\ Quiet /\ Go("end")
      BY <1>8, <2>2, <2>4 DEF TaskOther
    <2>7. /\ s.live = sess.live /\ s.n = sess.n /\ s.rd = sess.rd /\ s.wr = sess.wr /\ s.last = sess.last
          /\ s.peer = sess.peer /\ s.st = sess.st /\ s.seq = sess.seq
      BY <2>3 DEF Same
    <2>8. ASSUME NEW t \in {sess, s, o}, TimeoutIfLate(t), Go("loop") PROVE Heard /\ Older
      <3>1. t \in Sess /\ t.seq <= t.last
        BY <1>0, <1>2, <2>3, <2>5, <2>7
      <3>2. /\ Same(t, sess') /\ late' \in BOOLEAN /\ up' \subseteq up \cup Rrq \cup Acks(t)
            /\ (sess'.status = t.status /\ sess'.err = t.err) \/ (sess'.status = "stop" /\ sess'.err)
        BY <1>0, <2>8, <3>1, TimeoutIs
      <3>3. /\ t.live = sess.live /\ t.n = sess.n /\ t.rd = sess.rd /\ t.wr = sess.wr /\ t.last = sess.last
            /\ t.status = sess.status /\ t.err = sess.err /\ t.peer = sess.peer
            /\ (t.st = "rrq" => sess.st = "rrq")
        BY <2>3, <2>5, <2>7
      <3> QED
        BY <1>0, <1>3, <2>1, <2>8, <3>1, <3>2, <3>3
    <2>9. CASE sess' = s /\ (Quiet \/ Send(Ack(sess, sess.seq))) /\ Go("loop")
      <3>1. Ack(sess, sess.seq) \subseteq Acks(sess) /\ Acks(sess) = Acks(s)
        BY <1>0, <1>2, <2>7, AckIs DEF Acks
      <3>2. up' \subseteq up \cup Rrq \cup Acks(s) /\ late' \in BOOLEAN
        BY <1>0, <2>9, <3>1, CarryIs, ZenonT(60) DEF Quiet, Send
      <3>3. Same(s, sess')
        BY <2>3, <2>9 DEF Same
      <3> QED
        BY <1>0, <1>2, <1>3, <2>1, <2>3, <2>7, <2>9, <3>2, <3>3
    <2>10. CASE sess' = Stopped(s, TRUE) /\ Quiet /\ Go("end")
      <3>1. Same(s, sess') /\ sess'.status = "stop" /\ sess'.err
        BY <2>3, <2>10, StoppedIs
      <3>2. UNCHANGED <<up, late>>
        BY <2>10 DEF Quiet
      <3> QED
        BY <1>0, <1>2, <1>3, <2>1, <2>3, <2>7, <2>10, <3>1, <3>2
    <2>11. CASE k = "empty" /\ sess' = Stopped(sess, FALSE) /\ Quiet /\ Go("end")
      <3>1. Same(sess, sess') /\ sess'.status = "stop" /\ sess'.err = sess.err
        BY <1>0, <2>11, StoppedIs DEF Sess
      <3>2. UNCHANGED <<up, late>> /\ "empty" \in Noise
        BY <2>11 DEF Quiet
      <3> QED
        BY <1>0, <1>2, <1>3, <2>1, <2>11, <3>1, <3>2
    <2> QED
      BY <2>6, <2>8, <2>9, <2>10, <2>11
  <1> QED
    BY <1>1, <1>5, <1>6, <1>7, <1>8

-----------------------------------------------------------------------------
(* The protocol's invariant.                                               *)

LEMMA SizeIs == Size \in Nat \ {0} /\ Payload <= Size
  <1>1. PICK a \in Nat, d \in Nat \ {0} : Slots = a + 1 /\ Payload = d
    <2>1. Slots \in Nat \ {0} /\ Payload \in Nat \ {0}
      BY TftpAssumption
    <2>2. Slots - 1 \in Nat /\ Slots = (Slots - 1) + 1
      BY <2>1
    <2> QED
      BY <2>1, <2>2
  <1>2. (a + 1) * d = a * d + d /\ a * d \in Nat
    OBVIOUS
  <1> QED
    BY <1>1, <1>2 DEF Size

LEMMA HeardKeeps ==
  ASSUME Protocol, Heard, Older \/ Stores, task.pc = "select"
  PROVE  Protocol'
  <1>0. /\ sess \in Sess /\ eng \in Eng /\ net \subseteq Packet /\ up \subseteq Answer
        /\ SeqMod \in Nat
    BY TftpAssumption DEF Protocol, TypeOK
  <1>1. /\ sess' \in Sess /\ task' \in Recv /\ faults' \in 0 .. MaxFaults /\ late' \in BOOLEAN
        /\ net' \subseteq net /\ up' \subseteq up \cup Rrq \cup Acks(sess')
        /\ UNCHANGED <<ring, sig, eng, got, over, srv, flen, first>>
        /\ sess'.live = sess.live
        /\ sess'.peer = sess.peer \/ (sess.st = "rrq" /\ \E p \in net : sess'.peer = p.file)
        /\ sess'.st = "rrq" => sess.st = "rrq" /\ sess'.peer = sess.peer
        /\ task'.pc # "end" => sess'.seq <= sess'.last
    BY DEF Heard
  <1>2. sess.live /\ eng.pc # "idle" /\ (sess.st = "rrq" => sess.peer = 0) /\ sess.peer <= eng.file
    BY DEF Protocol, Sent
  <1>3. \A m \in up' : m \in up \/ (m \in Answer /\ m.op = "rrq" /\ m.file = eng.file)
                       \/ (m \in Answer /\ m.op = "ack" /\ m.file = sess'.peer /\ m.n <= sess'.last)
    BY <1>0, <1>1, RrqIs DEF Acks
  <1>4. TypeOK'
    <2>1. up' \subseteq Answer
      BY <1>0, <1>3
    <2> QED
      BY <1>1, <2>1 DEF Protocol, TypeOK
  <1>5. sess.last \in 0 .. SeqMod - 1 /\ sess'.last \in 0 .. SeqMod - 1 /\ sess.last <= sess'.last
    <2>1. sess.last \in 0 .. SeqMod - 1 /\ sess'.last \in 0 .. SeqMod - 1
      BY <1>0, <1>1 DEF Sess
    <2> QED
      BY <1>0, <2>1 DEF Older, Stores, Newer
  <1>6. eng.file \in Nat \ {0} /\ sess'.peer \in Nat /\ sess.peer \in Nat
    BY <1>0, <1>1, TftpAssumption, SMTT(60) DEF Eng, Sess, Files
  <1>7. sess'.peer <= eng.file
    BY <1>0, <1>1, <1>2 DEF Protocol, Sent
  <1>8. sess.peer = eng.file => sess'.peer = eng.file
    BY <1>1, <1>2, <1>6
  <1>9. task'.pc \in {"store", "ack", "last"} => task'.file # 0 /\ task'.blk \in 1 .. Blocks(task'.file)
    <2>1. SUFFICES ASSUME Stores PROVE task'.file # 0 /\ task'.blk \in 1 .. Blocks(task'.file)
      BY DEF Older
    <2>2. PICK p \in net : task'.file = p.file /\ task'.blk = p.blk
      BY <2>1 DEF Stores
    <2>3. p.file \in Files /\ p.blk \in 1 .. Blocks(p.file)
      BY <1>0 DEF Protocol, Sent, Packet
    <2> QED
      BY <2>2, <2>3, TftpAssumption DEF Files
  <1>10. Sent'
    <2>1. \A p \in net' : p.file <= eng'.file /\ p.blk \in 1 .. Blocks(p.file)'
      BY <1>1 DEF Protocol, Sent, Blocks
    <2>2. srv'.file # 0 => srv'.file <= eng'.file /\ srv'.blk \in 1 .. Blocks(srv.file)' + 1
      BY <1>1 DEF Protocol, Sent, Blocks
    <2>3. \A m \in up' : m.file <= eng'.file
      BY <1>1, <1>3, <1>6, <1>7 DEF Protocol, Sent
    <2>4. /\ task'.pc \in {"store", "ack", "last"} => task'.file # 0 /\ task'.blk \in 1 .. Blocks(task.file)'
      BY <1>1, <1>9 DEF Blocks
    <2> QED
      BY <1>1, <1>2, <1>7, <2>1, <2>2, <2>3, <2>4 DEF Sent
  <1>11. ASSUME NEW b \in Nat, Reached(b) PROVE Reached(b)'
    BY <1>1, <1>5, <1>8, <1>11 DEF Reached
  <1>12. Acked'
    <2>1. \A m \in up' : m.op = "ack" /\ m.file = eng'.file => sess'.peer = eng'.file /\ m.n <= sess'.last
      <3>1. SUFFICES ASSUME NEW m \in up', m.op = "ack", m.file = eng.file
                     PROVE  sess'.peer = eng.file /\ m.n <= sess'.last
        BY <1>1
      <3>2. CASE m \in up
        <4>1. sess.peer = eng.file /\ m.n <= sess.last /\ m.n \in Nat
          BY <1>0, <1>2, <3>1, <3>2 DEF Protocol, Acked, Answer
        <4> QED
          BY <1>5, <1>8, <4>1
      <3> QED
        BY <1>3, <3>1, <3>2
    <2>2. \A p \in net' : p.file = eng'.file => Reached(p.blk)'
      BY <1>0, <1>1, <1>2, <1>11 DEF Protocol, Acked, Packet
    <2>3. srv'.file = eng'.file => Reached(srv.blk)'
      <3>1. PICK b \in Nat : b = srv.blk
        BY DEF Protocol, TypeOK
      <3>2. srv.file = eng.file => Reached(b)
        BY <1>2, <3>1 DEF Protocol, Acked
      <3>3. srv.file = eng.file => Reached(b)'
        BY <1>11, <3>2
      <3> QED
        BY <1>1, <3>1, <3>3 DEF Reached
    <2> QED
      BY <1>1, <2>1, <2>2, <2>3 DEF Acked
  <1> QED
    BY <1>4, <1>10, <1>12 DEF Protocol

\* What the other steps of the two tasks leave to the protocol.
Keeps ==
  /\ sess'.live = sess.live /\ sess'.peer = sess.peer /\ sess'.st = sess.st
  /\ sess'.seq = sess.seq /\ sess'.last = sess.last
  /\ eng'.file = eng.file /\ (eng'.pc = "idle" => eng.pc = "idle")
  /\ UNCHANGED <<net, srv, flen>>
  /\ up' \subseteq up \cup Acks(sess) /\ (up' = up \/ task.pc # "none")
  /\ task'.pc # "none" => task.pc # "none"
  /\ task.pc = "end" => task'.pc \in {"end", "none"}
  /\ task'.pc \in {"store", "ack", "last"} =>
       task.pc \in {"store", "ack", "last"} /\ task'.file = task.file /\ task'.blk = task.blk

LEMMA KeepsIs ==
  ASSUME Protocol, TypeOK', Keeps
  PROVE  Protocol'
  <1>0. /\ sess \in Sess /\ eng \in Eng /\ net \subseteq Packet /\ up \subseteq Answer
    BY DEF Protocol, TypeOK
  <1>1. \A m \in up' : m \in up \/ (task.pc # "none" /\ m.op = "ack" /\ m.file = sess.peer /\ m.n <= sess.last)
    BY DEF Keeps, Acks
  <1>2. \A b : Reached(b)' <=> Reached(b)
    BY DEF Keeps, Reached
  <1>3. Sent'
    <2>1. \A p \in net' : p.file <= eng'.file /\ p.blk \in 1 .. Blocks(p.file)'
      BY DEF Protocol, Sent, Blocks, Keeps
    <2>2. srv'.file # 0 => srv'.file <= eng'.file /\ srv'.blk \in 1 .. Blocks(srv.file)' + 1
      BY DEF Protocol, Sent, Blocks, Keeps
    <2>3. \A m \in up' : m.file <= eng'.file
      BY <1>1 DEF Protocol, Sent, Keeps
    <2>4. /\ task'.pc \in {"store", "ack", "last"} => task'.file # 0 /\ task'.blk \in 1 .. Blocks(task.file)'
      BY DEF Protocol, Sent, Blocks, Keeps
    <2>5. task'.pc # "none" => sess'.live
      BY DEF Protocol, Sent, Keeps
    <2>6. sess'.peer <= eng'.file /\ (sess'.st = "rrq" => sess'.peer = 0)
      BY DEF Protocol, Sent, Keeps
    <2>7. eng'.pc = "idle" => /\ ~ sess'.live /\ srv'.file < eng'.file
                              /\ \A p \in net' : p.file < eng'.file
                              /\ \A m \in up' : m.file < eng'.file
      BY <1>1 DEF Protocol, Sent, Keeps
    <2> QED
      BY <2>1, <2>2, <2>3, <2>4, <2>5, <2>6, <2>7 DEF Sent
  <1>4. Acked'
    <2>1. task'.pc \notin {"end", "none"} => sess'.seq <= sess'.last
      BY DEF Protocol, Acked, Keeps
    <2>2. sess'.live => \A m \in up' : m.op = "ack" /\ m.file = eng'.file => sess'.peer = eng'.file /\ m.n <= sess'.last
      BY <1>1 DEF Protocol, Acked, Keeps
    <2>3. sess'.live => \A p \in net' : p.file = eng'.file => Reached(p.blk)'
      BY <1>2 DEF Protocol, Acked, Keeps
    <2>4. sess'.live => (srv'.file = eng'.file => Reached(srv.blk)')
      <3>1. PICK b : b = srv.blk
        OBVIOUS
      <3>2. sess.live /\ srv.file = eng.file => Reached(b)'
        BY <1>2, <3>1 DEF Protocol, Acked
      <3> QED
        BY <3>1, <3>2 DEF Keeps, Reached
    <2> QED
      BY <2>1, <2>2, <2>3, <2>4 DEF Acked
  <1> QED
    BY <1>3, <1>4 DEF Protocol

\* What a block leaves in the ring and in the session.
LEMMA StoreIs ==
  ASSUME TypeOK, Sent, task.pc = "store", Store(task)
  PROVE  /\ ring' \in [0 .. Size - 1 -> (Files \cup {0}) \X Nat] /\ sess' \in Sess
         /\ Units(task) \in 0 .. Payload
         /\ sess' = [sess EXCEPT !.wr = (sess.wr + Units(task)) % Size, !.n = sess.n + Units(task)]
  <1>0. /\ sess \in Sess /\ ring \in [0 .. Size - 1 -> (Files \cup {0}) \X Nat] /\ flen \in [Files -> Nat]
    BY DEF TypeOK
  <1>1. task.file \in Files /\ task.blk \in 1 .. Blocks(task.file)
    BY DEF TypeOK, Sent, Recv
  <1>2. Units(task) \in 0 .. Payload /\ (task.blk - 1) * Payload \in Nat
    BY <1>0, <1>1, UnitsAre
  <1>3. PICK k \in Nat, z \in Nat : k = Units(task) /\ z = (task.blk - 1) * Payload
    BY <1>2, TftpAssumption
  <1>d. PICK d \in Nat \ {0} : d = Size
    BY SizeIs
  <1>w. PICK w \in 0 .. d - 1 : w = sess.wr
    BY <1>0, <1>d DEF Sess
  <1>4. sess' = [sess EXCEPT !.wr = (sess.wr + Units(task)) % Size, !.n = sess.n + Units(task)]
    BY <1>0 DEF Store, Sess
  <1>5. (sess.wr + Units(task)) % Size \in 0 .. Size - 1 /\ sess.n + Units(task) \in Nat
    <2>1. w + k \in Nat
      BY <1>3, <1>d, <1>w
    <2>2. (w + k) % d \in 0 .. d - 1
      BY <2>1, DivMod
    <2>3. sess.n \in Nat
      BY <1>0 DEF Sess
    <2> QED
      BY <1>3, <1>d, <1>w, <2>2, <2>3
  <1>6. sess' \in Sess
    BY <1>0, <1>4, <1>5 DEF Sess
  <1>7. \A i \in 0 .. d - 1 : (i - w) % d \in Nat
    BY <1>w, ModIs
  <1>8. ring' = [i \in 0 .. d - 1 |->
                    IF (i - w) % d < k THEN <<task.file, z + ((i - w) % d) + 1>> ELSE ring[i]]
    BY <1>3, <1>d, <1>w DEF Store
  <1>9. ring' \in [0 .. d - 1 -> (Files \cup {0}) \X Nat]
    <2>1. ASSUME NEW i \in 0 .. d - 1
          PROVE  (IF (i - w) % d < k THEN <<task.file, z + ((i - w) % d) + 1>> ELSE ring[i])
                    \in (Files \cup {0}) \X Nat
      <3>1. PICK x \in Nat : x = (i - w) % d
        BY <1>7
      <3>2. <<task.file, z + x + 1>> \in (Files \cup {0}) \X Nat /\ ring[i] \in (Files \cup {0}) \X Nat
        BY <1>0, <1>1, <1>3, <1>d, SMTT(60)
      <3> QED
        BY <3>1, <3>2
    <2> QED
      BY <1>8, <2>1
  <1> QED
    BY <1>2, <1>4, <1>6, <1>9, <1>d

LEMMA TaskKeeps ==
  ASSUME Protocol, TaskLoop \/ TaskFull \/ TaskStore \/ TaskAck \/ TaskLast \/ TaskEnd
  PROVE  TypeOK' /\ Keeps
  <1>0. /\ sess \in Sess /\ task \in Recv /\ eng \in Eng /\ sig \subseteq Signals /\ late \in BOOLEAN
        /\ up \subseteq Answer /\ over \in BOOLEAN /\ TypeOK /\ Sent /\ Acked
    BY DEF Protocol, TypeOK
  <1>1. CASE TaskLoop
    <2>1. PICK q \in {"full", "select", "end"} : Go(q) /\ task.pc = "loop"
      BY <1>1 DEF TaskLoop, At
    <2>2. task' \in Recv /\ task'.pc = q
      BY <1>0, <2>1, TaskMoves
    <2>3. UNCHANGED <<sess, ring, sig, eng, got, over, late, net, up, srv, faults, flen, first>>
      BY <1>1 DEF TaskLoop, envVars
    <2> QED
      BY <1>0, <2>1, <2>2, <2>3 DEF TypeOK, Keeps
  <1>2. CASE TaskFull
    <2>1. Go("select") /\ task.pc = "full" /\ sig' \subseteq Signals
      BY <1>0, <1>2 DEF TaskFull, At
    <2>2. task' \in Recv /\ task'.pc = "select"
      BY <1>0, <2>1, TaskMoves
    <2>3. UNCHANGED <<sess, ring, eng, got, over, late, net, up, srv, faults, flen, first>>
      BY <1>2 DEF TaskFull, envVars
    <2> QED
      BY <1>0, <2>1, <2>2, <2>3 DEF TypeOK, Keeps
  <1>3. CASE TaskStore
    <2>1. Go("ack") /\ task.pc = "store" /\ Store(task) /\ over' \in BOOLEAN
      BY <1>0, <1>3 DEF TaskStore, At
    <2>2. task' \in Recv /\ task'.pc = "ack" /\ task'.file = task.file /\ task'.blk = task.blk
      BY <1>0, <2>1, TaskMoves
    <2>3. UNCHANGED <<sig, eng, got, late, net, up, srv, faults, flen, first>>
      BY <1>3 DEF TaskStore, envVars
    <2>4. /\ ring' \in [0 .. Size - 1 -> (Files \cup {0}) \X Nat] /\ sess' \in Sess
          /\ sess' = [sess EXCEPT !.wr = (sess.wr + Units(task)) % Size, !.n = sess.n + Units(task)]
      BY <1>0, <2>1, StoreIs
    <2>5. /\ sess'.live = sess.live /\ sess'.peer = sess.peer /\ sess'.st = sess.st
          /\ sess'.seq = sess.seq /\ sess'.last = sess.last
      BY <1>0, <2>4 DEF Sess
    <2> QED
      BY <1>0, <2>1, <2>2, <2>3, <2>4, <2>5 DEF TypeOK, Keeps
  <1>4. CASE TaskAck
    <2>1. PICK q \in {"last", "loop"} : Go(q) /\ task.pc = "ack"
      BY <1>4 DEF TaskAck, At
    <2>2. task' \in Recv /\ task'.pc = q /\ task'.file = task.file /\ task'.blk = task.blk
      BY <1>0, <2>1, TaskMoves
    <2>3. UNCHANGED <<sess, ring, eng, got, over, net, srv, faults, flen, first>>
          /\ Send(Ack(sess, sess.seq)) /\ sig' \subseteq Signals
      BY <1>0, <1>4 DEF TaskAck, Signals
    <2>4. sess.seq <= sess.last /\ sess.seq \in 0 .. SeqMod - 1
      BY <1>0, <2>1 DEF Acked, Sess
    <2>5. Ack(sess, sess.seq) \subseteq Acks(sess) /\ Acks(sess) \subseteq Answer
      BY <1>0, <2>4, AckIs DEF Acks
    <2>6. up' \subseteq up \cup Acks(sess) /\ late' \in BOOLEAN
      BY <2>3, <2>5, CarryIs DEF Send
    <2> QED
      BY <1>0, <2>1, <2>2, <2>3, <2>5, <2>6 DEF TypeOK, Keeps
  <1>5. CASE TaskLast
    <2>1. Go("loop") /\ task.pc = "last" /\ sess' = [sess EXCEPT !.status = "waitstop"]
      BY <1>5 DEF TaskLast, At
    <2>2. task' \in Recv /\ task'.pc = "loop"
      BY <1>0, <2>1, TaskMoves
    <2>3. UNCHANGED <<ring, sig, eng, got, over, late, net, up, srv, faults, flen, first>>
      BY <1>5 DEF TaskLast, envVars
    <2>4. /\ sess' \in Sess /\ sess'.live = sess.live /\ sess'.peer = sess.peer /\ sess'.st = sess.st
          /\ sess'.seq = sess.seq /\ sess'.last = sess.last
      BY <1>0, <2>1 DEF Sess
    <2> QED
      BY <1>0, <2>1, <2>2, <2>3, <2>4 DEF TypeOK, Keeps
  <1>6. CASE TaskEnd
    <2>1. task' = NoTask /\ task.pc = "end" /\ sig' \subseteq Signals
      BY <1>0, <1>6 DEF TaskEnd, At, Signals
    <2>2. task' \in Recv /\ task'.pc = "none"
      BY <2>1 DEF NoTask, Recv
    <2>3. UNCHANGED <<sess, ring, eng, got, over, late, net, up, srv, faults, flen, first>>
      BY <1>6 DEF TaskEnd, envVars
    <2> QED
      BY <1>0, <2>1, <2>2, <2>3 DEF TypeOK, Keeps
  <1> QED
    BY <1>1, <1>2, <1>3, <1>4, <1>5, <1>6

Returning == \E r \in {"ok", "err"}, k \in Nat : Returns(r, k)

LEMMA EngMoves ==
  ASSUME eng \in Eng,
         \/ Returning
         \/ \E q \in {"initwait", "recv", "recv2", "wait", "copy", "closing", "delete", "done"} : EngGo(q)
         \/ eng' = [eng EXCEPT !.pc = "done", !.ret = "err"]
         \/ eng' = [eng EXCEPT !.pc = "close", !.ret = "err", !.fin = TRUE]
         \/ eng' = [eng EXCEPT !.pc = "recv", !.fin = TRUE]
  PROVE  eng' \in Eng /\ eng'.file = eng.file /\ eng'.pc # "idle"
  <1>1. CASE Returning
    BY <1>1 DEF Returning, Returns, Eng
  <1>2. ASSUME NEW q \in {"initwait", "recv", "recv2", "wait", "copy", "closing", "delete", "done"}, EngGo(q)
        PROVE  eng' \in Eng /\ eng'.file = eng.file /\ eng'.pc # "idle"
    BY <1>2 DEF EngGo, Eng
  <1>3. CASE eng' = [eng EXCEPT !.pc = "done", !.ret = "err"]
    BY <1>3 DEF Eng
  <1>4. CASE eng' = [eng EXCEPT !.pc = "close", !.ret = "err", !.fin = TRUE]
    BY <1>4 DEF Eng
  <1>5. CASE eng' = [eng EXCEPT !.pc = "recv", !.fin = TRUE]
    BY <1>5 DEF Eng
  <1> QED
    BY <1>1, <1>2, <1>3, <1>4, <1>5

\* A read takes what is there, as far as the engine's buffer goes.
LEMMA CopyIs ==
  ASSUME sess \in Sess
  PROVE  /\ CopyLen \in 0 .. sess.n /\ sess.n - CopyLen \in Nat /\ (sess.n > 0 => CopyLen > 0)
         /\ (sess.rd + CopyLen) % Size \in 0 .. Size - 1
  <1>1. PICK n \in Nat, r \in Nat : n = sess.n /\ r = ReadLen /\ r > 0
    BY TftpAssumption DEF Sess
  <1>2. CopyLen = IF r <= n THEN r ELSE n
    BY <1>1, MinIs DEF CopyLen
  <1>3. PICK d \in Nat \ {0} : d = Size
    BY SizeIs
  <1>4. sess.rd + CopyLen \in Nat
    BY <1>1, <1>2, <1>3 DEF Sess
  <1>5. (sess.rd + CopyLen) % d \in 0 .. d - 1
    BY <1>4, DivMod
  <1> QED
    BY <1>1, <1>2, <1>3, <1>5

LEMMA EngineKeeps ==
  ASSUME Protocol,
         \/ PluginInitWait \/ RecvEnter \/ RecvStatus \/ RecvWait \/ RecvCopy \/ RecvPost
         \/ EngineWork \/ FinClose \/ FinDelete \/ PluginInitFails \/ FinNoMemory \/ Tick
  PROVE  TypeOK' /\ Keeps
  <1>0. /\ sess \in Sess /\ task \in Recv /\ eng \in Eng /\ sig \subseteq Signals /\ late \in BOOLEAN
        /\ up \subseteq Answer /\ over \in BOOLEAN /\ TypeOK /\ got \in [n : Nat, good : BOOLEAN]
    BY DEF Protocol, TypeOK
  <1>1. ASSUME UNCHANGED <<sess, ring, task, got, over, late, net, up, srv, faults, flen, first>>,
               sig' \subseteq Signals, eng' \in Eng, eng'.file = eng.file, eng'.pc # "idle"
        PROVE  TypeOK' /\ Keeps
    BY <1>0, <1>1 DEF TypeOK, Keeps
  <1>2. CASE PluginInitWait
    <2>1. /\ \/ eng' = [eng EXCEPT !.pc = "close", !.ret = "err", !.fin = TRUE]
             \/ EngGo("recv")
          /\ UNCHANGED <<sess, ring, sig, task, got, over, late, net, up, srv, faults, flen, first>>
      BY <1>2 DEF PluginInitWait, envVars, EngGo
    <2>2. eng' \in Eng /\ eng'.file = eng.file /\ eng'.pc # "idle"
      BY <1>0, <2>1, EngMoves
    <2> QED
      BY <1>0, <1>1, <2>1, <2>2
  <1>3. CASE RecvEnter
    <2>1. /\ Returns("err", 0) \/ EngGo("recv2")
          /\ UNCHANGED <<sess, ring, sig, task, got, over, late, net, up, srv, faults, flen, first>>
      BY <1>3 DEF RecvEnter, envVars
    <2>2. eng' \in Eng /\ eng'.file = eng.file /\ eng'.pc # "idle"
      BY <1>0, <2>1, EngMoves DEF Returning
    <2> QED
      BY <1>0, <1>1, <2>1, <2>2
  <1>4. CASE RecvStatus
    <2>1. /\ Returns("ok", 0) \/ EngGo("wait")
          /\ UNCHANGED <<sess, ring, sig, task, got, over, late, net, up, srv, faults, flen, first>>
      BY <1>4 DEF RecvStatus, envVars
    <2>2. eng' \in Eng /\ eng'.file = eng.file /\ eng'.pc # "idle"
      BY <1>0, <2>1, EngMoves DEF Returning
    <2> QED
      BY <1>0, <1>1, <2>1, <2>2
  <1>5. CASE RecvWait
    <2>1. /\ Returns("ok", 0) \/ EngGo("copy")
          /\ UNCHANGED <<sess, ring, task, got, over, late, net, up, srv, faults, flen, first>>
          /\ sig' \subseteq Signals
      BY <1>0, <1>5 DEF RecvWait, envVars
    <2>2. eng' \in Eng /\ eng'.file = eng.file /\ eng'.pc # "idle"
      BY <1>0, <2>1, EngMoves DEF Returning
    <2> QED
      BY <1>0, <1>1, <2>1, <2>2
  <1>6. CASE RecvCopy
    <2>1. PICK k : k = CopyLen
      OBVIOUS
    <2>2. k \in 0 .. sess.n /\ sess.n - k \in Nat /\ (sess.rd + k) % Size \in 0 .. Size - 1 /\ k \in Nat
      <3>1. sess.n \in Nat
        BY <1>0 DEF Sess
      <3> QED
        BY <1>0, <2>1, <3>1, CopyIs
    <2>3. PICK g \in BOOLEAN : g = (got.good /\ InPlace(k))
      OBVIOUS
    <2>p. (sess.n > k) \in BOOLEAN
      <3>1. sess.n \in Int /\ k \in Int
        BY <1>0, <2>2 DEF Sess
      <3> QED
        BY <3>1
    <2>o. PICK o \in BOOLEAN : o = (sess.n > k)
      BY <2>p, Zenon
    <2>4. PICK e \in Nat : e = IF eng.fin THEN eng.n ELSE k
      BY <1>0, <2>2 DEF Eng
    <2>5. /\ sess' = [sess EXCEPT !.n = sess.n - k, !.rd = (sess.rd + k) % Size]
          /\ eng' = [eng EXCEPT !.pc = "post", !.n = e, !.more = o]
          /\ got' = IF eng.fin THEN got ELSE [n |-> got.n + k, good |-> g]
          /\ UNCHANGED <<ring, sig, task, over, late, net, up, srv, faults, flen, first>>
      BY <1>0, <1>6, <2>1, <2>3, <2>4, <2>o DEF RecvCopy, envVars, Sess, Eng
    <2>6. /\ sess' \in Sess /\ sess'.live = sess.live /\ sess'.peer = sess.peer /\ sess'.st = sess.st
          /\ sess'.seq = sess.seq /\ sess'.last = sess.last
      BY <1>0, <2>2, <2>5 DEF Sess
    <2>7. eng' \in Eng /\ eng'.file = eng.file /\ eng'.pc = "post"
      BY <1>0, <2>4, <2>5, <2>o DEF Eng
    <2>8. got' \in [n : Nat, good : BOOLEAN]
      BY <1>0, <2>2, <2>5
    <2> QED
      BY <1>0, <2>5, <2>6, <2>7, <2>8 DEF TypeOK, Keeps
  <1>7. CASE RecvPost
    <2>1. /\ Returns("ok", eng.n) /\ eng.n \in Nat /\ sig' \subseteq Signals
          /\ UNCHANGED <<sess, ring, task, got, over, late, net, up, srv, faults, flen, first>>
      BY <1>0, <1>7 DEF RecvPost, envVars, Post, Signals, Eng
    <2>2. eng' \in Eng /\ eng'.file = eng.file /\ eng'.pc # "idle"
      BY <1>0, <2>1, EngMoves DEF Returning
    <2> QED
      BY <1>0, <1>1, <2>1, <2>2
  <1>8. CASE EngineWork
    <2>1. /\ \/ EngGo("recv") \/ eng' = [eng EXCEPT !.pc = "recv", !.fin = TRUE]
             \/ eng' = [eng EXCEPT !.pc = "close", !.ret = "err", !.fin = TRUE]
          /\ UNCHANGED <<sess, ring, sig, task, got, over, late, net, up, srv, faults, flen, first>>
      BY <1>8 DEF EngineWork, envVars
    <2>2. eng' \in Eng /\ eng'.file = eng.file /\ eng'.pc # "idle"
      BY <1>0, <2>1, EngMoves
    <2> QED
      BY <1>0, <1>1, <2>1, <2>2
  <1>9. CASE FinClose \/ FinDelete
    <2>1. PICK b \in BOOLEAN : sess' = [sess EXCEPT !.open = b] \/ sess' = [sess EXCEPT !.sigs = b]
      BY <1>9 DEF FinClose, FinDelete
    <2>2. /\ EngGo("closing") \/ EngGo("delete")
          /\ UNCHANGED <<ring, sig, task, got, over, late, net, up, srv, faults, flen, first>>
      BY <1>9 DEF FinClose, FinDelete, envVars
    <2>3. eng' \in Eng /\ eng'.file = eng.file /\ eng'.pc # "idle"
      BY <1>0, <2>2, EngMoves
    <2>4. /\ sess' \in Sess /\ sess'.live = sess.live /\ sess'.peer = sess.peer /\ sess'.st = sess.st
          /\ sess'.seq = sess.seq /\ sess'.last = sess.last
      BY <1>0, <2>1 DEF Sess
    <2> QED
      BY <1>0, <2>2, <2>3, <2>4 DEF TypeOK, Keeps
  <1>10. CASE PluginInitFails \/ FinNoMemory
    <2>1. /\ EngGo("done") \/ eng' = [eng EXCEPT !.pc = "done", !.ret = "err"]
          /\ UNCHANGED <<sess, ring, sig, task, got, over, late, net, up, srv, faults, flen, first>>
      BY <1>10 DEF PluginInitFails, FinNoMemory, envVars
    <2>2. eng' \in Eng /\ eng'.file = eng.file /\ eng'.pc # "idle"
      BY <1>0, <2>1, EngMoves
    <2> QED
      BY <1>0, <1>1, <2>1, <2>2
  <1>11. CASE Tick
    BY <1>0, <1>11 DEF Tick, envVars, TypeOK, Keeps
  <1> QED
    BY <1>2, <1>3, <1>4, <1>5, <1>6, <1>7, <1>8, <1>9, <1>10, <1>11

LEMMA InitKeeps ==
  ASSUME Protocol, PluginInit
  PROVE  /\ Protocol' /\ sess' \in Sess /\ sess'.live /\ sess'.status = "running" /\ ~ sess'.err
         /\ sess'.last = 0 /\ sess'.n = 0 /\ sess'.rd = 0 /\ sess'.wr = 0
         /\ task'.pc = "loop" /\ sig' = {} /\ got' = [n |-> 0, good |-> TRUE]
         /\ eng' \in Eng /\ eng'.pc = "initwait" /\ eng'.fin = eng.fin /\ eng'.file = eng.file
         /\ UNCHANGED <<ring, over, flen, first>>
  <1>0. /\ sess \in Sess /\ task \in Recv /\ eng \in Eng /\ up \subseteq Answer /\ TypeOK /\ Sent
        /\ net \subseteq Packet
    BY DEF Protocol, TypeOK
  <1>1. /\ eng.pc = "idle" /\ sig' = {} /\ got' = [n |-> 0, good |-> TRUE] /\ Send(Rrq) /\ EngGo("initwait")
        /\ UNCHANGED <<ring, over, net, srv, faults, flen, first>>
    BY DEF PluginInit, EngAt
  <1>2. PICK c : c = NoSess
    OBVIOUS
  <1>3. /\ c \in Sess /\ ~ c.err /\ c.st = "rrq" /\ c.seq = 0 /\ c.last = 0 /\ c.n = 0 /\ c.rd = 0
        /\ c.wr = 0 /\ c.peer = 0 /\ ~ c.live
    <2>1. 0 \in 0 .. Size - 1 /\ 0 \in 0 .. SeqMod - 1 /\ 0 \in 0 .. MaxRetry
      BY SizeIs, TftpAssumption
    <2> QED
      BY <1>2, <2>1 DEF NoSess, Sess
  <1>4. sess' = [c EXCEPT !.live = TRUE, !.status = "running", !.open = TRUE, !.sigs = TRUE]
    BY <1>2 DEF PluginInit
  <1>5. /\ sess' \in Sess /\ sess'.live /\ sess'.status = "running" /\ ~ sess'.err /\ sess'.st = "rrq"
        /\ sess'.seq = 0 /\ sess'.last = 0 /\ sess'.n = 0 /\ sess'.rd = 0 /\ sess'.wr = 0 /\ sess'.peer = 0
    BY <1>3, <1>4 DEF Sess
  <1>6. PICK t : t = NoTask
    OBVIOUS
  <1>7. t \in Recv
    BY <1>6 DEF NoTask, Recv
  <1>8. PICK b \in BOOLEAN : task' = [t EXCEPT !.pc = "loop", !.from = b]
    BY <1>6 DEF PluginInit
  <1>9. task' \in Recv /\ task'.pc = "loop"
    BY <1>7, <1>8 DEF Recv
  <1>10. eng' \in Eng /\ eng'.file = eng.file /\ eng'.pc = "initwait" /\ eng'.fin = eng.fin
    BY <1>0, <1>1 DEF EngGo, Eng
  <1>11. up' \subseteq up \cup Rrq /\ late' = FALSE
    BY <1>1, CarryIs DEF Send
  <1>12. eng.file \in Nat \ {0}
    BY <1>0, TftpAssumption DEF Eng, Files
  <1>13. TypeOK'
    <2>1. up' \subseteq Answer
      BY <1>0, <1>11, RrqIs
    <2> QED
      BY <1>0, <1>1, <1>5, <1>9, <1>10, <1>11, <2>1 DEF TypeOK
  <1>14. \A m \in up' : (m \in up /\ m.file < eng.file) \/ (m.op = "rrq" /\ m.file = eng.file)
    BY <1>0, <1>1, <1>11, RrqIs DEF Sent
  <1>15. (\A p \in net' : p.file < eng.file) /\ srv'.file < eng.file
    BY <1>0, <1>1 DEF Sent
  <1>16. Sent'
    <2>1. \A p \in net' : p.file <= eng'.file /\ p.blk \in 1 .. Blocks(p.file)'
      BY <1>0, <1>1, <1>10 DEF Sent, Blocks
    <2>2. srv'.file # 0 => srv'.file <= eng'.file /\ srv'.blk \in 1 .. Blocks(srv.file)' + 1
      BY <1>0, <1>1, <1>10 DEF Sent, Blocks
    <2>3. \A m \in up' : m.file <= eng'.file
      BY <1>0, <1>10, <1>12, <1>14 DEF Sent
    <2> QED
      BY <1>5, <1>9, <1>10, <1>12, <2>1, <2>2, <2>3 DEF Sent
  <1>17. Acked'
    <2>1. \A m \in up' : ~ (m.op = "ack" /\ m.file = eng'.file)
      <3>1. \A m \in up : m.file \in Nat
        BY <1>0, TftpAssumption DEF Answer, Files
      <3> QED
        BY <1>10, <1>12, <1>14, <3>1
    <2>2. \A p \in net' : p.file # eng'.file
      <3>1. \A p \in net' : p.file \in Nat
        BY <1>0, <1>1, TftpAssumption DEF Packet, Files
      <3> QED
        BY <1>10, <1>12, <1>15, <3>1
    <2>3. srv'.file # eng'.file
      <3>1. srv'.file \in Nat
        BY <1>0, <1>1, TftpAssumption DEF TypeOK, Files
      <3> QED
        BY <1>10, <1>12, <1>15, <3>1
    <2> QED
      BY <1>5, <2>1, <2>2, <2>3 DEF Acked
  <1> QED
    BY <1>1, <1>5, <1>9, <1>10, <1>13, <1>16, <1>17 DEF Protocol

LEMMA FreeKeeps ==
  ASSUME Protocol, FinFree
  PROVE  /\ Protocol' /\ eng'.pc \in {"idle", "done"} /\ eng'.fin = FALSE /\ sess'.live = FALSE
         /\ task'.pc = "none" /\ UNCHANGED <<ring, got, over, late, envVars>>
         /\ sess'.n = 0 /\ sig' = {}
  <1>0. /\ sess \in Sess /\ task \in Recv /\ eng \in Eng /\ up \subseteq Answer /\ TypeOK /\ Sent
        /\ net \subseteq Packet
    BY DEF Protocol, TypeOK
  <1>1. /\ sess' = NoSess /\ task' = NoTask /\ sig' = {} /\ eng.pc = "delete"
        /\ UNCHANGED <<ring, got, over, late, net, up, srv, faults, flen, first>>
    BY DEF FinFree, EngAt, envVars
  <1>2. PICK f \in Files, q \in {"idle", "done"} :
          /\ eng' = [eng EXCEPT !.pc = q, !.fin = FALSE, !.n = 0, !.file = f]
          /\ f = eng.file \/ f = eng.file + 1
          /\ q = "idle" => f = eng.file + 1
    <2>1. PICK next : next \in BOOLEAN /\ (next => eng.file + 1 \in Files) /\
                    eng' = [eng EXCEPT !.pc = IF next THEN "idle" ELSE "done", !.fin = FALSE, !.n = 0,
                            !.file = IF next THEN eng.file + 1 ELSE eng.file]
      <3>1. PICK next \in BOOLEAN : next = (eng.file + 1 \in Files /\ eng.ret = "ok" /\ got = [n |-> flen[eng.file], good |-> TRUE])
        OBVIOUS
      <3> QED
        BY <1>0, <3>1 DEF FinFree, Eng
    <2>2. CASE next
      BY <1>0, <2>1, <2>2 DEF Eng
    <2>3. CASE ~ next
      BY <1>0, <2>1, <2>3 DEF Eng
    <2> QED
      BY <2>1, <2>2, <2>3
  <1>3. eng' \in Eng /\ eng'.pc = q /\ eng'.file = f /\ eng'.fin = FALSE
    BY <1>0, <1>2 DEF Eng
  <1>4. /\ sess' \in Sess /\ sess'.live = FALSE /\ sess'.st = "rrq" /\ sess'.peer = 0 /\ sess'.n = 0
    <2>1. 0 \in 0 .. Size - 1 /\ 0 \in 0 .. SeqMod - 1 /\ 0 \in 0 .. MaxRetry
      BY SizeIs, TftpAssumption
    <2> QED
      BY <1>1, <2>1 DEF NoSess, Sess
  <1>5. task' \in Recv /\ task'.pc = "none"
    BY <1>1 DEF NoTask, Recv
  <1>6. eng.file \in Nat /\ f \in Nat /\ (q = "idle" => eng.file < f) /\ eng.file <= f
    BY <1>0, <1>2, TftpAssumption DEF Eng, Files
  <1>7. TypeOK'
    BY <1>0, <1>1, <1>3, <1>4, <1>5 DEF TypeOK
  <1>8. /\ \A p \in net : p.file \in Nat
        /\ \A m \in up : m.file \in Nat
        /\ srv.file \in Nat
    BY <1>0, TftpAssumption DEF TypeOK, Answer, Packet, Files
  <1>9. Sent'
    <2>1. \A p \in net' : p.file <= eng.file /\ p.blk \in 1 .. Blocks(p.file)'
      BY <1>0, <1>1 DEF Sent, Blocks
    <2>2. srv'.file <= eng.file /\ (srv'.file # 0 => srv'.blk \in 1 .. Blocks(srv.file)' + 1)
      BY <1>0, <1>1, <1>6 DEF Sent, Blocks
    <2>3. \A m \in up' : m.file <= eng.file
      BY <1>0, <1>1 DEF Sent
    <2>4. \A p \in net' : p.file <= f /\ (q = "idle" => p.file < f)
      BY <1>1, <1>6, <1>8, <2>1
    <2>5. \A m \in up' : m.file <= f /\ (q = "idle" => m.file < f)
      BY <1>1, <1>6, <1>8, <2>3
    <2>6. srv'.file <= f /\ (q = "idle" => srv'.file < f)
      BY <1>1, <1>6, <1>8, <2>2
    <2> QED
      BY <1>3, <1>4, <1>5, <1>6, <2>1, <2>2, <2>4, <2>5, <2>6 DEF Sent
  <1>10. Acked'
    BY <1>4, <1>5 DEF Acked
  <1> QED
    BY <1>1, <1>2, <1>3, <1>4, <1>5, <1>7, <1>9, <1>10 DEF Protocol, envVars

\* The server and its network.
Serves ==
  /\ srv' \in [file : Files \cup {0}, blk : Nat, tries : 0 .. MaxResend]
  /\ faults' \in 0 .. MaxFaults /\ up' \subseteq up
  /\ UNCHANGED <<sess, ring, sig, task, eng, got, over, late, flen, first>>
  /\ \/ srv' = srv /\ net' = net
     \/ /\ srv'.file \in Files /\ srv'.file <= eng.file /\ srv'.blk \in 1 .. Blocks(srv'.file) + 1
        /\ eng.pc = "idle" => srv'.file < eng.file
        /\ sess.live /\ srv'.file = eng.file => Reached(srv'.blk)
        /\ \/ net' = net
           \/ /\ srv'.blk <= Blocks(srv'.file)
              /\ net' \subseteq net \cup {[file |-> srv'.file, blk |-> srv'.blk]}

LEMMA ServesKeeps ==
  ASSUME Protocol, Serves
  PROVE  Protocol'
  <1>0. /\ sess \in Sess /\ task \in Recv /\ eng \in Eng /\ up \subseteq Answer /\ TypeOK /\ Sent
        /\ net \subseteq Packet /\ Acked
    BY DEF Protocol, TypeOK
  <1>1. \A p \in net' : p \in net \/ (p = [file |-> srv'.file, blk |-> srv'.blk] /\ srv'.file \in Files
                        /\ srv'.blk \in 1 .. Blocks(srv'.file) /\ srv'.file <= eng.file
                        /\ (eng.pc = "idle" => srv'.file < eng.file)
                        /\ (sess.live /\ srv'.file = eng.file => Reached(srv'.blk)))
    <2>1. ASSUME NEW p \in net' PROVE p \in net \/ p = [file |-> srv'.file, blk |-> srv'.blk]
      BY DEF Serves
    <2>2. ASSUME NEW p \in net', p \notin net
          PROVE  srv'.file \in Files
                        /\ srv'.blk \in 1 .. Blocks(srv'.file) /\ srv'.file <= eng.file
                        /\ (eng.pc = "idle" => srv'.file < eng.file)
                        /\ (sess.live /\ srv'.file = eng.file => Reached(srv'.blk))
      <3>1. srv'.file \in Files /\ Blocks(srv'.file) \in Nat /\ srv'.blk \in 1 .. Blocks(srv'.file) + 1
            /\ srv'.blk <= Blocks(srv'.file)
        BY <1>0, <2>2, BlocksAre DEF Serves, TypeOK
      <3> QED
        BY <2>2, <3>1 DEF Serves
    <2> QED
      BY <2>1, <2>2
  <1>2. UNCHANGED <<sess, ring, sig, task, eng, got, over, late, flen, first>> /\ up' \subseteq up
    BY DEF Serves
  <1>3. TypeOK'
    <2>1. net' \subseteq Packet
      <3>1. ASSUME NEW p \in net', p \notin net PROVE p \in Packet
        <4>1. srv'.blk \in Nat
          BY DEF Serves
        <4> QED
          BY <1>1, <3>1, <4>1 DEF Packet
      <3> QED
        BY <1>0, <3>1
    <2> QED
      BY <1>0, <1>2, <2>1 DEF TypeOK, Serves
  <1>4. Sent'
    <2>1. \A p \in net' : p.file <= eng.file /\ p.blk \in 1 .. Blocks(p.file)
      BY <1>0, <1>1 DEF Sent
    <2>2. srv'.file # 0 => srv'.file <= eng.file /\ srv'.blk \in 1 .. Blocks(srv'.file) + 1
      BY <1>0 DEF Sent, Serves
    <2>3. eng.pc = "idle" => srv'.file < eng.file /\ \A p \in net' : p.file < eng.file
      BY <1>0, <1>1 DEF Sent, Serves
    <2>4. \A p \in net' : p.file <= eng'.file /\ p.blk \in 1 .. Blocks(p.file)'
      BY <1>2, <2>1 DEF Blocks
    <2>5. srv'.file # 0 => srv'.file <= eng'.file /\ srv'.blk \in 1 .. Blocks(srv.file)' + 1
      BY <1>2, <2>2 DEF Blocks
    <2>6. task'.pc \in {"store", "ack", "last"} => task'.file # 0 /\ task'.blk \in 1 .. Blocks(task.file)'
      BY <1>0, <1>2 DEF Sent, Blocks
    <2>7. \A m \in up' : m.file <= eng'.file /\ (eng'.pc = "idle" => m.file < eng'.file)
      BY <1>0, <1>2 DEF Sent
    <2>8. /\ sess'.peer <= eng'.file /\ (sess'.st = "rrq" => sess'.peer = 0)
          /\ task'.pc # "none" => sess'.live
          /\ eng'.pc = "idle" => ~ sess'.live
      BY <1>0, <1>2 DEF Sent
    <2> QED
      BY <1>2, <2>3, <2>4, <2>5, <2>6, <2>7, <2>8 DEF Sent
  <1>5. Acked'
    <2>1. sess.live /\ srv'.file = eng.file => Reached(srv'.blk)
      BY <1>0 DEF Acked, Serves
    <2>2. \A p \in net' : sess.live /\ p.file = eng.file => Reached(p.blk)
      BY <1>0, <1>1 DEF Acked
    <2>3. \A b : Reached(b)' = Reached(b)
      BY <1>2 DEF Reached
    <2>4. sess'.live /\ srv'.file = eng'.file => Reached(srv.blk)'
      BY <1>2, <2>1 DEF Reached
    <2>5. \A p \in net' : sess'.live /\ p.file = eng'.file => Reached(p.blk)'
      BY <1>2, <2>2, <2>3
    <2> QED
      BY <1>0, <1>2, <2>4, <2>5 DEF Acked
  <1> QED
    BY <1>3, <1>4, <1>5 DEF Protocol

LEMMA ServerIs ==
  ASSUME Protocol, Server \/ ServerAgain
  PROVE  Serves
  <1>0. /\ sess \in Sess /\ eng \in Eng /\ up \subseteq Answer /\ TypeOK /\ Sent /\ Acked
        /\ srv \in [file : Files \cup {0}, blk : Nat, tries : 0 .. MaxResend] /\ faults \in 0 .. MaxFaults
        /\ MaxFaults \in Nat /\ MaxResend \in Nat /\ SeqMod \in Nat \ {0, 1} /\ flen \in [Files -> Nat]
    BY TftpAssumption DEF Protocol, TypeOK
  <1>e. eng.file \in Nat \ {0} /\ srv.file \in Nat
    BY <1>0, TftpAssumption DEF Eng, Files
  <1>1. CASE ServerAgain
    <2>1. /\ srv.file # 0 /\ srv.blk <= Blocks(srv.file) /\ srv.tries < MaxResend
          /\ srv' = [srv EXCEPT !.tries = @ + 1]
          /\ net' \in Carry(net, {[file |-> srv.file, blk |-> srv.blk]}, NetCap)
          /\ UNCHANGED <<sess, ring, sig, task, eng, got, over, late, up, faults, flen, first>>
      BY <1>1 DEF ServerAgain
    <2>2. /\ srv' \in [file : Files \cup {0}, blk : Nat, tries : 0 .. MaxResend]
          /\ srv'.file = srv.file /\ srv'.blk = srv.blk
      BY <1>0, <2>1
    <2>3. net' \subseteq net \cup {[file |-> srv.file, blk |-> srv.blk]}
      BY <2>1, CarryIs
    <2>4. /\ srv.file \in Files /\ srv.file <= eng.file /\ srv.blk \in 1 .. Blocks(srv.file) + 1
          /\ eng.pc = "idle" => srv.file < eng.file
      BY <1>0, <2>1 DEF Sent
    <2>5. sess.live => (srv.file = eng.file => Reached(srv.blk))
      BY <1>0 DEF Acked
    <2> QED
      BY <1>0, <2>1, <2>2, <2>3, <2>4, <2>5 DEF Serves
  <1>2. ASSUME NEW m \in up, ServerGets(m) PROVE Serves
    <2>1. /\ faults' \in 0 .. MaxFaults /\ up' \subseteq up
          /\ UNCHANGED <<sess, ring, sig, task, eng, got, over, late, flen, first>>
      BY <1>0, <1>2 DEF ServerGets
    <2>2. /\ m.file \in Files /\ m.file <= eng.file /\ (eng.pc = "idle" => m.file < eng.file)
          /\ m.n \in Nat /\ m.file # 0
      BY <1>0, TftpAssumption DEF Sent, Answer, Files
    <2>3. Blocks(m.file) \in Nat /\ 1 <= Blocks(m.file)
      BY <1>0, <2>2, BlocksAre
    <2>4. \/ Sends(m.file, 1)
          \/ /\ m.op = "ack" /\ srv.file = m.file /\ m.n = srv.blk % SeqMod /\ srv.blk <= Blocks(m.file)
             /\ \/ Sends(m.file, srv.blk + 1) /\ srv.blk < Blocks(m.file)
                \/ srv' = [srv EXCEPT !.blk = @ + 1] /\ net' = net
          \/ UNCHANGED <<srv, net>>
      <3>1. srv.blk \in Nat
        BY <1>0
      <3> QED
        BY <1>2, <2>3, <3>1 DEF ServerGets
    <2>5. ASSUME NEW b \in 1 .. Blocks(m.file), Sends(m.file, b),
                 sess.live /\ m.file = eng.file => Reached(b)
          PROVE  Serves
      <3>1. /\ srv' = [file |-> m.file, blk |-> b, tries |-> 0]
            /\ net' \subseteq net \cup {[file |-> m.file, blk |-> b]}
        BY <2>5, CarryIs DEF Sends
      <3>2. /\ srv' \in [file : Files \cup {0}, blk : Nat, tries : 0 .. MaxResend]
            /\ srv'.file = m.file /\ srv'.blk = b /\ b \in 1 .. Blocks(m.file) + 1 /\ b <= Blocks(m.file)
        BY <1>0, <2>2, <2>3, <3>1
      <3> QED
        BY <2>1, <2>2, <2>5, <3>1, <3>2 DEF Serves
    <2>6. CASE Sends(m.file, 1)
      <3>1. sess.live /\ m.file = eng.file => Reached(1)
        <4>1. sess.last \in Nat
          BY <1>0 DEF Sess
        <4> QED
          BY <4>1 DEF Reached
      <3> QED
        BY <2>3, <2>5, <2>6, <3>1
    <2>7. CASE /\ m.op = "ack" /\ srv.file = m.file /\ m.n = srv.blk % SeqMod /\ srv.blk <= Blocks(m.file)
               /\ \/ Sends(m.file, srv.blk + 1) /\ srv.blk < Blocks(m.file)
                  \/ srv' = [srv EXCEPT !.blk = @ + 1] /\ net' = net
      <3>1. PICK b \in Nat : b = srv.blk
        BY <1>0
      <3>2. b \in 1 .. Blocks(m.file)
        BY <1>0, <2>2, <2>3, <2>7, <3>1 DEF Sent
      <3>3. sess.live /\ m.file = eng.file => Reached(b + 1)
        <4>1. SUFFICES ASSUME sess.live, m.file = eng.file PROVE Reached(b + 1)
          OBVIOUS
        <4>2. sess.peer = eng.file /\ m.n <= sess.last /\ Reached(b)
          BY <1>0, <2>7, <3>1, <4>1 DEF Acked
        <4>3. sess.last \in 0 .. SeqMod - 1
          BY <1>0 DEF Sess
        <4>4. b <= sess.last + 1 \/ sess.last = SeqMod - 1
          BY <4>2 DEF Reached
        <4>5. b < SeqMod => b % SeqMod = b
          <5>1. PICK d \in Nat \ {0} : d = SeqMod
            BY <1>0
          <5>2. b < d => b % d = b
            BY ModIs
          <5> QED
            BY <5>1, <5>2
        <4>6. b + 1 <= sess.last + 1 \/ sess.last = SeqMod - 1
          BY <1>0, <2>7, <3>1, <4>2, <4>3, <4>4, <4>5
        <4> QED
          BY <4>2, <4>6 DEF Reached
      <3>4. CASE Sends(m.file, srv.blk + 1) /\ srv.blk < Blocks(m.file)
        <4>1. b + 1 \in 1 .. Blocks(m.file)
          BY <2>3, <3>1, <3>4
        <4> QED
          BY <2>5, <3>1, <3>3, <3>4, <4>1
      <3>5. CASE srv' = [srv EXCEPT !.blk = @ + 1] /\ net' = net
        <4>1. /\ srv' \in [file : Files \cup {0}, blk : Nat, tries : 0 .. MaxResend]
              /\ srv'.file = m.file /\ srv'.blk = b + 1 /\ b + 1 \in 1 .. Blocks(m.file) + 1
          BY <1>0, <2>3, <2>7, <3>1, <3>2, <3>5
        <4> QED
          BY <2>1, <2>2, <3>3, <3>5, <4>1 DEF Serves
      <3> QED
        BY <2>7, <3>4, <3>5
    <2>8. CASE UNCHANGED <<srv, net>>
      BY <1>0, <2>1, <2>8 DEF Serves
    <2> QED
      BY <2>4, <2>6, <2>7, <2>8
  <1> QED
    BY <1>1, <1>2 DEF Server

LEMMA ProtocolNext ==
  ASSUME Protocol, [Next]_vars
  PROVE  Protocol'
  <1>1. CASE TaskNothing \/ TaskSocket \/ TaskPacket \/ TaskNoise
    <2>1. Heard /\ (Older \/ Stores) /\ task.pc = "select"
      BY <1>1, Hears DEF TaskPacket, TaskNoise
    <2> QED
      BY <2>1, HeardKeeps
  <1>2. CASE TaskLoop \/ TaskFull \/ TaskStore \/ TaskAck \/ TaskLast \/ TaskEnd
    BY <1>2, TaskKeeps, KeepsIs
  <1>3. CASE \/ PluginInitWait \/ RecvEnter \/ RecvStatus \/ RecvWait \/ RecvCopy \/ RecvPost
             \/ EngineWork \/ FinClose \/ FinDelete \/ PluginInitFails \/ FinNoMemory \/ Tick
    BY <1>3, EngineKeeps, KeepsIs
  <1>4. CASE PluginInit
    BY <1>4, InitKeeps
  <1>5. CASE FinFree
    BY <1>5, FreeKeeps
  <1>6. CASE Server \/ ServerAgain
    BY <1>6, ServerIs, ServesKeeps
  <1>7. CASE UNCHANGED vars
    <2>1. TypeOK' /\ Keeps
      BY <1>7 DEF vars, Protocol, TypeOK, Keeps
    <2> QED
      BY <2>1, KeepsIs
  <1> QED
    BY <1>1, <1>2, <1>3, <1>4, <1>5, <1>6, <1>7 DEF Next, Task, Engine

LEMMA ProtocolInit ==
  ASSUME Init
  PROVE  Protocol
  <1>1. /\ sess = NoSess /\ ring = [i \in 0 .. Size - 1 |-> <<0, 0>>] /\ sig = {}
        /\ task = NoTask /\ eng = [pc |-> "idle", file |-> 1, ret |-> "ok", n |-> 0,
                         more |-> FALSE, fin |-> FALSE]
        /\ got = [n |-> 0, good |-> TRUE] /\ over = FALSE /\ late = FALSE
        /\ net = {} /\ up = {} /\ srv = [file |-> 0, blk |-> 0, tries |-> 0] /\ faults = 0
        /\ \E u \in Setups : flen = u.lens /\ first = u.first
    BY Zenon DEF Init
  <1>2. sess \in Sess /\ sess.live = FALSE /\ sess.peer = 0
    <2>1. 0 \in 0 .. Size - 1 /\ 0 \in 0 .. SeqMod - 1 /\ 0 \in 0 .. MaxRetry
      BY SizeIs, TftpAssumption
    <2> QED
      BY <1>1, <2>1 DEF NoSess, Sess
  <1>3. task \in Recv /\ task.pc = "none"
    BY <1>1 DEF NoTask, Recv
  <1>4. eng \in Eng /\ eng.file = 1
    <2>1. 1 \in Files
      BY TftpAssumption DEF Files
    <2> QED
      BY <1>1, <2>1 DEF Eng
  <1>5. flen \in [Files -> Nat] /\ first \in BOOLEAN
    BY <1>1, TftpAssumption DEF Files
  <1>6. srv \in [file : Files \cup {0}, blk : Nat, tries : 0 .. MaxResend] /\ srv.file = 0 /\ faults \in 0 .. MaxFaults
    BY <1>1, TftpAssumption
  <1>7. ring \in [0 .. Size - 1 -> (Files \cup {0}) \X Nat]
    BY <1>1
  <1>8. TypeOK
    BY <1>1, <1>2, <1>3, <1>4, <1>5, <1>6, <1>7 DEF TypeOK
  <1>9. Sent
    BY <1>1, <1>2, <1>3, <1>4, <1>6 DEF Sent
  <1>10. Acked
    BY <1>2, <1>3 DEF Acked
  <1> QED
    BY <1>8, <1>9, <1>10 DEF Protocol

LEMMA ProtocolHolds == Spec => []Protocol
  <1>1. Init => Protocol
    BY ProtocolInit
  <1>2. Protocol /\ [Next]_vars => Protocol'
    BY ProtocolNext
  <1> QED
    BY <1>1, <1>2, PTL DEF Spec

\* The variables of the plugin, the network and the server keep their types.
THEOREM TypeCorrect == Spec => []TypeOK
  <1>1. Protocol => TypeOK
    BY DEF Protocol
  <1> QED
    BY <1>1, ProtocolHolds, PTL

\* AckedIsStored: neither a retransmission nor an old acknowledgement takes
\* the server of the file being downloaded past a block the client has not
\* stored (ota_tftp_timeout and ota_tftp_recv acknowledge at most
\* last_seq_num), as long as block numbers do not wrap around.
THEOREM StoredBeforeAcked == Spec => []AckedIsStored
  <1>1. Protocol => AckedIsStored
    <2>1. SUFFICES ASSUME Protocol, sess.live, sess.peer = eng.file, srv.file = eng.file, srv.blk <= SeqMod
                   PROVE  srv.blk <= sess.last + 1
      BY DEF AckedIsStored
    <2>2. Reached(srv.blk)
      BY <2>1 DEF Protocol, Acked
    <2>3. srv.blk \in Nat /\ sess.last \in Nat /\ SeqMod \in Nat
      BY <2>1, TftpAssumption DEF Protocol, TypeOK, Sess
    <2> QED
      BY <2>1, <2>2, <2>3 DEF Reached
  <1> QED
    BY <1>1, ProtocolHolds, PTL

-----------------------------------------------------------------------------
(* The stream, for one file.  With more, a late packet of the server of an *)
(* earlier file may be the first to arrive, and its sender becomes the     *)
(* peer.                                                                   *)

\* The engine reads for the upgrade, not to drain the ring.
Reading == ~ eng.fin /\ eng.pc \in {"initwait", "recv", "recv2", "wait", "copy", "post", "work"}

\* Ring r holds, from rd on, the n units of file f that follow the first g.
Holds(r, f, rd, wr, n, g) ==
  /\ wr = (rd + n) % Size /\ n <= Size
  /\ \A j \in 0 .. n - 1 : r[(rd + j) % Size] = <<f, g + j + 1>>

\* The last block that is in the ring, or was.
Stored == IF task.pc = "store" THEN sess.last - 1 ELSE sess.last

Contents ==
  /\ Holds(ring, eng.file, sess.rd, sess.wr, sess.n, got.n)
  /\ got.n + sess.n = Upto(eng.file, Stored)

Stream == (first \/ ~ over) => got.good /\ (Reading => Contents)

Where ==
  /\ task.pc \in {"store", "ack"} => task.blk = sess.last
  /\ task.pc = "last" => sess.last = Blocks(eng.file)
  /\ eng.fin => eng.pc \notin {"idle", "initwait", "work", "done"}

\* When the engine's task comes first, the other one finds an empty ring
\* whenever it stores a block, and what is in the ring has been announced.
InTurn == first /\ Reading =>
  /\ task.pc \in {"store", "ack"} => eng.pc \in {"initwait", "wait"} /\ sig \cap ALL = {}
  /\ task.pc = "store" => sess.n = 0
  /\ task.pc = "ack" => sess.n = Units(task)
  /\ task.pc # "ack" /\ sess.n > 0 =>
       eng.pc = "copy" \/ (eng.pc = "post" /\ eng.more) \/ "data" \in sig
  /\ eng.pc \in {"copy", "post"} => "data" \notin sig
  /\ eng.pc = "post" /\ eng.more => sess.n > 0

\* A transfer that ended without an error has ended with the last block, and
\* a signal for data without data is the one of an empty last block.
Ended == first /\ Reading =>
  /\ sess.status # "not_started"
  /\ task.pc = "end" => sess.status = "stop"
  /\ "finish" \in sig => sess.status = "stop" /\ task.pc = "none"
  /\ "error" \in sig => sess.err
  /\ sess.status # "running" /\ ~ sess.err =>
       /\ got.n = flen[eng.file] /\ sess.n = 0
       /\ task.pc \notin {"store", "ack"} /\ sess.last = Blocks(eng.file)
  /\ "data" \in sig /\ sess.n = 0 => got.n = flen[eng.file]
  /\ eng.pc = "copy" /\ sess.n = 0 => got.n = flen[eng.file]
  /\ eng.pc = "post" /\ eng.n = 0 => got.n = flen[eng.file]
  /\ eng.pc = "work" /\ eng.n = 0 /\ eng.ret = "ok" /\ ~ sess.err => got.n = flen[eng.file]

Whole  == Protocol /\ Where /\ InTurn /\ Stream
Finish == "empty" \notin Noise => Ended

LEMMA Wraps ==
  ASSUME NEW d \in Nat \ {0}, NEW x \in Nat, NEW y \in Nat, x < d, y <= d
  PROVE  /\ (x + y) % d = IF x + y < d THEN x + y ELSE x + y - d
         /\ (x + y) % d \in 0 .. d - 1
  <1>1. PICK z \in Int : z = x + y
    OBVIOUS
  <1>2. z < 2 * d /\ 0 - d <= z /\ 0 <= z
    BY <1>1
  <1>3. z % d = IF z < 0 THEN z + d ELSE IF z < d THEN z ELSE z - d
    BY <1>2, ModIs
  <1> QED
    BY <1>1, <1>3

LEMMA Unwraps ==
  ASSUME NEW d \in Nat \ {0}, NEW x \in 0 .. d - 1, NEW y \in 0 .. d - 1
  PROVE  (x - y) % d = IF x < y THEN x - y + d ELSE x - y
  <1>1. PICK z \in Int : z = x - y
    OBVIOUS
  <1>2. z < 2 * d /\ 0 - d <= z
    BY <1>1
  <1>3. z % d = IF z < 0 THEN z + d ELSE IF z < d THEN z ELSE z - d
    BY <1>2, ModIs
  <1> QED
    BY <1>1, <1>3

\* A block put behind what the ring holds.
LEMMA Puts ==
  ASSUME NEW r, NEW f, NEW rd \in 0 .. Size - 1, NEW wr, NEW n \in Nat, NEW g \in Nat, NEW k \in Nat,
         Holds(r, f, rd, wr, n, g), n + k <= Size,
         NEW q, q = [i \in 0 .. Size - 1 |->
                       IF (i - wr) % Size < k THEN <<f, g + n + ((i - wr) % Size) + 1>> ELSE r[i]]
  PROVE  Holds(q, f, rd, (wr + k) % Size, n + k, g)
  <1>1. PICK d \in Nat \ {0} : d = Size
    BY SizeIs
  <1>2. rd \in Nat /\ rd < d /\ n <= d /\ n + k <= d /\ wr = (rd + n) % d
    BY <1>1 DEF Holds
  <1>3. wr = (IF rd + n < d THEN rd + n ELSE rd + n - d) /\ wr \in 0 .. d - 1
    BY <1>2, Wraps
  <1>k. k <= d /\ n + k \in Nat /\ wr \in Nat /\ wr < d
    BY <1>2, <1>3
  <1>4. (wr + k) % d = (rd + (n + k)) % d
    <2>1. (wr + k) % d = IF wr + k < d THEN wr + k ELSE wr + k - d
      BY <1>3, <1>k, Wraps
    <2>2. (rd + (n + k)) % d = IF rd + (n + k) < d THEN rd + (n + k) ELSE rd + (n + k) - d
      BY <1>2, <1>k, Wraps
    <2>3. CASE rd + n < d
      <3>1. wr = rd + n
        BY <1>3, <2>3
      <3>2. wr + k = rd + (n + k)
        BY <1>2, <3>1
      <3> QED
        BY <3>2
    <2>4. CASE ~ (rd + n < d)
      <3>1. wr = rd + n - d
        BY <1>3, <2>4
      <3>2. wr + k < d /\ ~ (rd + (n + k) < d) /\ rd + (n + k) - d = wr + k
        BY <1>2, <2>4, <3>1
      <3> QED
        BY <2>1, <2>2, <3>2
    <2> QED
      BY <2>3, <2>4
  <1>5. ASSUME NEW j \in 0 .. (n + k) - 1 PROVE q[(rd + j) % d] = <<f, g + j + 1>>
    <2>1. PICK i \in 0 .. d - 1 : i = (rd + j) % d /\ i = IF rd + j < d THEN rd + j ELSE rd + j - d
      <3>0. j \in Nat /\ j <= d /\ rd < d /\ rd \in Nat
        BY <1>2
      <3>1. (rd + j) % d = IF rd + j < d THEN rd + j ELSE rd + j - d
        BY <3>0, Wraps
      <3> QED
        BY <1>2, <3>1, SMTT(60)
    <2>2. (i - wr) % d = IF i < wr THEN i - wr + d ELSE i - wr
      BY <1>3, Unwraps
    <2>3. PICK x \in Nat : x = (i - wr) % d /\ x = IF j < n THEN j - n + d ELSE j - n
      BY <1>2, <1>3, <2>1, <2>2
    <2>4. q[i] = IF x < k THEN <<f, g + n + x + 1>> ELSE r[i]
      BY <1>1, <2>3
    <2>5. CASE j < n
      <3>1. ~ (x < k)
        BY <1>2, <2>3, <2>5
      <3>2. r[(rd + j) % Size] = <<f, g + j + 1>>
        BY <2>5 DEF Holds
      <3> QED
        BY <1>1, <2>1, <2>4, <3>1, <3>2
    <2>6. CASE ~ (j < n)
      <3>1. x < k /\ g + n + x + 1 = g + j + 1
        BY <2>3, <2>6
      <3> QED
        BY <2>1, <2>4, <3>1
    <2> QED
      BY <2>5, <2>6
  <1>6. (wr + k) % Size = (rd + (n + k)) % Size /\ n + k <= Size
    BY <1>1, <1>4
  <1>7. ASSUME NEW j \in 0 .. (n + k) - 1 PROVE q[(rd + j) % Size] = <<f, g + j + 1>>
    <2>1. q[(rd + j) % d] = <<f, g + j + 1>> /\ (rd + j) % Size = (rd + j) % d
      BY <1>1, <1>5, Zenon
    <2> QED
      BY <2>1, Zenon
  <1>8. ASSUME NEW w, NEW a, w = (rd + a) % Size, a <= Size,
               \A j \in 0 .. a - 1 : q[(rd + j) % Size] = <<f, g + j + 1>>
        PROVE  Holds(q, f, rd, w, a, g)
    BY <1>8, Zenon DEF Holds
  <1> QED
    BY <1>6, <1>7, <1>8, Zenon

\* What the ring holds once k units have been taken.
LEMMA Takes ==
  ASSUME NEW r, NEW f, NEW rd \in 0 .. Size - 1, NEW wr, NEW n \in Nat, NEW g \in Nat, NEW k \in 0 .. n,
         Holds(r, f, rd, wr, n, g)
  PROVE  Holds(r, f, (rd + k) % Size, wr, n - k, g + k)
  <1>1. PICK d \in Nat \ {0} : d = Size
    BY SizeIs
  <1>2. rd \in Nat /\ rd < d /\ n <= d /\ wr = (rd + n) % d /\ k \in Nat /\ k <= d
    BY <1>1 DEF Holds
  <1>3. PICK e \in 0 .. d - 1 : e = (rd + k) % d /\ e = IF rd + k < d THEN rd + k ELSE rd + k - d
    <2>1. (rd + k) % d = IF rd + k < d THEN rd + k ELSE rd + k - d
      BY <1>2, Wraps
    <2> QED
      BY <1>2, <2>1
  <1>4. ASSUME NEW j \in 0 .. n - k PROVE (e + j) % d = (rd + (k + j)) % d
    <2>0. j <= d /\ j \in Nat /\ k + j \in Nat /\ k + j <= d /\ e < d /\ e \in Nat /\ rd \in Nat /\ rd < d
      BY <1>2, <1>3
    <2>1. (e + j) % d = IF e + j < d THEN e + j ELSE e + j - d
      BY <2>0, Wraps
    <2>2. (rd + (k + j)) % d = IF rd + (k + j) < d THEN rd + (k + j) ELSE rd + (k + j) - d
      BY <2>0, Wraps
    <2> QED
      BY <1>2, <1>3, <2>1, <2>2
  <1>5. wr = (e + (n - k)) % d
    <2>1. n - k \in 0 .. n - k /\ k + (n - k) = n
      OBVIOUS
    <2> QED
      BY <1>2, <1>4, <2>1
  <1>6. ASSUME NEW j \in 0 .. n - k - 1 PROVE r[(e + j) % d] = <<f, g + k + j + 1>>
    <2>1. k + j \in 0 .. n - 1 /\ j \in 0 .. n - k /\ g + (k + j) + 1 = g + k + j + 1
      OBVIOUS
    <2>2. r[(rd + (k + j)) % Size] = <<f, g + (k + j) + 1>>
      BY <2>1 DEF Holds
    <2> QED
      BY <1>1, <1>4, <2>1, <2>2
  <1> QED
    BY <1>1, <1>2, <1>3, <1>5, <1>6 DEF Holds

\* A packet that is newer is the next one.
LEMMA NewIsNext ==
  ASSUME NFiles = 1, Protocol, task.pc = "select", NEW p \in net, Newer(p)
  PROVE  p.file = eng.file /\ p.blk = sess.last + 1 /\ SeqOf(p) = p.blk /\ p.blk \in 1 .. Blocks(eng.file)
  <1>1. p \in Packet /\ sess \in Sess /\ eng \in Eng /\ sess.live /\ p.blk \in 1 .. Blocks(p.file)
    BY DEF Protocol, TypeOK, Sent
  <1>2. p.file = 1 /\ eng.file = 1 /\ p.file = eng.file
    BY <1>1 DEF Packet, Eng, Files
  <1>3. PICK d \in Nat \ {0, 1} : d = SeqMod
    BY TftpAssumption
  <1>4. PICK b \in Nat, l \in 0 .. d - 1 : b = p.blk /\ l = sess.last
    BY <1>1, <1>3 DEF Packet, Sess
  <1>5. b <= l + 1 \/ l = d - 1 \/ b = 1
    BY <1>1, <1>2, <1>3, <1>4 DEF Protocol, Acked, Reached
  <1>6. b % d \in 0 .. d - 1 /\ b % d > l
    BY <1>3, <1>4, DivMod DEF Newer, SeqOf
  <1>7. b < d => b % d = b
    BY ModIs
  <1>8. b < d
    BY <1>5, <1>6
  <1> QED
    BY <1>1, <1>2, <1>3, <1>4, <1>5, <1>6, <1>7, <1>8 DEF SeqOf

\* Steps that leave alone what the stream is about.
Calm ==
  /\ UNCHANGED <<ring, got, flen, first, over>> /\ eng'.file = eng.file
  /\ sess'.rd = sess.rd /\ sess'.wr = sess.wr /\ sess'.n = sess.n /\ Stored' = Stored
  /\ Reading' => Reading

LEMMA CalmIs ==
  ASSUME Stream, Calm
  PROVE  Stream'
  <1>1. UNCHANGED <<ring, got, flen, first, over>> /\ (Reading' => Reading)
    BY DEF Calm
  <1>2. Contents' <=> Contents
    BY DEF Calm, Contents, Holds, Upto
  <1> QED
    BY <1>1, <1>2 DEF Stream

LEMMA OneFileIs ==
  ASSUME NFiles = 1, Protocol
  PROVE  /\ eng.file = 1 /\ eng.file \in Files /\ flen \in [Files -> Nat] /\ Blocks(eng.file) \in Nat
         /\ Upto(eng.file, Blocks(eng.file)) = flen[eng.file] /\ Upto(eng.file, 0) = 0
         /\ task.pc \in {"store", "ack", "last"} =>
              /\ task.file = eng.file /\ task.blk \in 1 .. Blocks(eng.file)
              /\ Units(task) \in 0 .. Payload
              /\ Upto(eng.file, task.blk) = Upto(eng.file, task.blk - 1) + Units(task)
              /\ (task.blk - 1) * Payload = Upto(eng.file, task.blk - 1)
              /\ Short(task) => task.blk = Blocks(eng.file)
  <1>1. eng \in Eng /\ task \in Recv /\ flen \in [Files -> Nat] /\ Files = {1}
    BY DEF Protocol, TypeOK, Files
  <1>2. eng.file = 1 /\ eng.file \in Files
    BY <1>1 DEF Eng
  <1>3. task.pc \in {"store", "ack", "last"} => task.file = eng.file /\ task.blk \in 1 .. Blocks(task.file)
    BY <1>1, <1>2 DEF Protocol, Sent, Recv
  <1>4. task.pc \in {"store", "ack", "last"} =>
          /\ Units(task) \in 0 .. Payload
          /\ Upto(task.file, task.blk) = Upto(task.file, task.blk - 1) + Units(task)
          /\ (task.blk - 1) * Payload = Upto(task.file, task.blk - 1)
          /\ Short(task) => task.blk = Blocks(task.file)
    BY <1>1, <1>2, <1>3, UnitsAre
  <1>5. Blocks(eng.file) \in Nat /\ Upto(eng.file, 0) = 0 /\ Upto(eng.file, Blocks(eng.file)) = flen[eng.file]
    BY <1>1, <1>2, BlocksAre
  <1> QED
    BY <1>1, <1>2, <1>3, <1>4, <1>5

LEMMA SelectIs ==
  ASSUME NFiles = 1, Whole, Heard, Older \/ Stores, task.pc = "select", first => EngineBlocked
  PROVE  Where' /\ InTurn' /\ Stream' /\ (Finish => Finish')
  <1>0. /\ sess \in Sess /\ Protocol /\ Where /\ InTurn /\ Stream
        /\ UNCHANGED <<ring, sig, eng, got, over, flen, first>>
        /\ sess'.n = sess.n /\ sess'.rd = sess.rd /\ sess'.wr = sess.wr
        /\ task'.pc = "end" => sess'.status = "stop"
    BY DEF Whole, Protocol, TypeOK, Heard
  <1>1. sess.last \in Int /\ sess.n \in Nat /\ (Reading' <=> Reading)
    BY <1>0 DEF Sess, Reading
  <1>2. CASE Older
    <2>1. /\ task'.pc \in {"loop", "end"} /\ sess'.last = sess.last
          /\ \/ sess'.status = sess.status /\ sess'.err = sess.err
             \/ sess'.status = "stop" /\ sess'.err
             \/ /\ sess'.status = "stop" /\ sess'.err = sess.err
                /\ sess.status = "waitstop" \/ "empty" \in Noise
      BY <1>2 DEF Older
    <2>2. Where'
      BY <1>0, <2>1 DEF Where
    <2>3. InTurn'
      BY <1>0, <1>1, <2>1 DEF InTurn
    <2>4. Stream'
      <3>1. Stored' = Stored
        BY <2>1 DEF Stored
      <3> QED
        BY <1>0, <1>1, <3>1, CalmIs DEF Calm
    <2>5. ASSUME Finish, "empty" \notin Noise PROVE Ended'
      <3>1. SUFFICES ASSUME first, Reading PROVE Ended'
        BY <1>0, <1>1 DEF Ended
      <3>2. Ended /\ Blocks(eng.file)' = Blocks(eng.file)
        BY <1>0, <2>5 DEF Finish, Blocks
      <3>4. "error" \in sig' => sess'.err
        BY <1>0, <2>1, <3>1, <3>2 DEF Ended
      <3>5. sess'.status # "running" /\ ~ sess'.err => sess.status # "running" /\ ~ sess.err
        BY <2>1, <2>5
      <3>6. "finish" \notin sig' /\ sess'.status # "not_started"
        BY <1>0, <2>1, <3>1, <3>2 DEF Ended
      <3>7. ~ sess'.err => ~ sess.err
        BY <2>1
      <3> QED
        BY <1>0, <2>1, <3>1, <3>2, <3>4, <3>5, <3>6, <3>7 DEF Ended
    <2> QED
      BY <2>2, <2>3, <2>4, <2>5 DEF Finish
  <1>3. CASE Stores
    <2>1. PICK p \in net : /\ Newer(p) /\ sess'.last = SeqOf(p) /\ task'.pc = "store"
                           /\ task'.file = p.file /\ task'.blk = p.blk
                           /\ sess'.status = sess.status /\ sess'.err = sess.err
      BY <1>3 DEF Stores
    <2>2. p.blk = sess.last + 1 /\ SeqOf(p) = p.blk /\ p.blk \in 1 .. Blocks(eng.file)
      BY <1>0, <2>1, NewIsNext
    <2>3. sess'.last = sess.last + 1 /\ task'.blk = sess'.last
      BY <2>1, <2>2
    <2>4. first /\ Reading => eng.pc \in {"initwait", "wait"} /\ sig \cap ALL = {}
      BY DEF EngineBlocked, Reading
    <2>5. first /\ Reading => sess.n = 0
      <3>1. "data" \in ALL
        BY DEF ALL
      <3>2. sess.n > 0 \/ sess.n = 0
        BY <1>1
      <3> QED
        BY <1>0, <2>4, <3>1, <3>2 DEF InTurn
    <2>6. Where'
      BY <1>0, <2>1, <2>3 DEF Where
    <2>7. InTurn'
      BY <1>0, <1>1, <2>1, <2>4, <2>5 DEF InTurn
    <2>8. Stream'
      <3>1. Stored' = Stored
        BY <1>1, <2>1, <2>3 DEF Stored
      <3> QED
        BY <1>0, <1>1, <3>1, CalmIs DEF Calm
    <2>9. ASSUME Finish, "empty" \notin Noise PROVE Ended'
      <3>1. SUFFICES ASSUME first, Reading PROVE Ended'
        BY <1>0, <1>1 DEF Ended
      <3>2. Ended
        BY <2>9 DEF Finish
      <3>3. sess.last # Blocks(eng.file)
        <4>1. Blocks(eng.file) \in Nat
          BY <1>0, OneFileIs
        <4> QED
          BY <1>1, <2>2, <4>1
      <3>4. sess.status = "running" \/ sess.err
        BY <3>1, <3>2, <3>3 DEF Ended
      <3>5. "finish" \notin sig
        BY <3>1, <3>2 DEF Ended
      <3> QED
        BY <1>0, <2>1, <3>1, <3>2, <3>4, <3>5 DEF Ended
    <2> QED
      BY <2>6, <2>7, <2>8, <2>9 DEF Finish
  <1> QED
    BY <1>2, <1>3

LEMMA TaskSteps ==
  ASSUME NFiles = 1, Whole, TaskLoop \/ TaskFull \/ TaskStore \/ TaskAck \/ TaskLast \/ TaskEnd
  PROVE  Where' /\ InTurn' /\ Stream' /\ (Finish => Finish')
  <1>0. /\ sess \in Sess /\ task \in Recv /\ Protocol /\ Where /\ InTurn /\ Stream /\ TypeOK /\ Sent
        /\ got \in [n : Nat, good : BOOLEAN] /\ over \in BOOLEAN
    BY DEF Whole, Protocol, TypeOK
  <1>1. sess.last \in Int /\ sess.n \in Nat /\ sess.rd \in 0 .. Size - 1 /\ got.n \in Nat
    BY <1>0 DEF Sess
  <1>2. UNCHANGED <<eng, got, flen, first>> /\ (Reading' <=> Reading) /\ \A f : Blocks(f)' = Blocks(f)
    BY DEF TaskLoop, TaskFull, TaskStore, TaskAck, TaskLast, TaskEnd, envVars, Reading, Blocks
  <1>3. first /\ Reading => eng.pc \in {"initwait", "wait"} /\ sig \cap ALL = {}
    BY DEF EngineBlocked, Reading, TaskLoop, TaskFull, TaskStore, TaskAck, TaskLast, TaskEnd, At
  <1>4. "data" \in ALL /\ "finish" \in ALL /\ "error" \in ALL /\ "buf" \notin ALL
    BY DEF ALL
  <1>5. first /\ Reading /\ task.pc # "ack" => sess.n = 0
    <2>1. sess.n > 0 \/ sess.n = 0
      BY <1>1
    <2> QED
      BY <1>0, <1>3, <1>4, <2>1 DEF InTurn
  <1>6. CASE TaskLoop
    <2>1. PICK q \in {"full", "select", "end"} : Go(q) /\ task.pc = "loop" /\ (q = "end" => sess.status \notin {"running", "waitstop"})
      BY <1>6 DEF TaskLoop, At
    <2>2. task'.pc = q
      BY <1>0, <2>1, TaskMoves
    <2>3. UNCHANGED <<sess, ring, sig, over>>
      BY <1>6 DEF TaskLoop
    <2>4. Where' /\ InTurn'
      BY <1>0, <1>2, <1>5, <2>1, <2>2, <2>3 DEF Where, InTurn
    <2>5. Stream'
      <3>1. Stored' = Stored
        BY <2>1, <2>2, <2>3 DEF Stored
      <3> QED
        BY <1>0, <1>2, <2>3, <3>1, CalmIs DEF Calm
    <2>6. ASSUME Ended PROVE Ended'
      <3>1. SUFFICES ASSUME first, Reading PROVE Ended'
        BY <1>2 DEF Ended
      <3>2. q = "end" => sess.status = "stop"
        BY <1>0, <2>1, <2>6, <3>1 DEF Ended, Sess
      <3>3. "finish" \notin sig
        BY <2>1, <2>6, <3>1 DEF Ended
      <3> QED
        BY <1>2, <2>1, <2>2, <2>3, <2>6, <3>1, <3>2, <3>3 DEF Ended
    <2> QED
      BY <2>4, <2>5, <2>6 DEF Finish
  <1>7. CASE TaskFull
    <2>1. Go("select") /\ task.pc = "full" /\ UNCHANGED <<sess, ring, over>> /\ sig' = sig \ {"buf"}
      BY <1>7 DEF TaskFull, At
    <2>2. task'.pc = "select"
      BY <1>0, <2>1, TaskMoves
    <2>3. Where' /\ InTurn'
      BY <1>0, <1>2, <1>5, <2>1, <2>2 DEF Where, InTurn
    <2>4. Stream'
      <3>1. Stored' = Stored
        BY <2>1, <2>2 DEF Stored
      <3> QED
        BY <1>0, <1>2, <2>1, <3>1, CalmIs DEF Calm
    <2>5. ASSUME Ended PROVE Ended'
      BY <1>2, <2>1, <2>2, <2>5 DEF Ended
    <2> QED
      BY <2>3, <2>4, <2>5 DEF Finish
  <1>8. CASE TaskStore
    <2>1. Go("ack") /\ task.pc = "store" /\ Store(task) /\ UNCHANGED sig
          /\ over' = (over \/ sess.n + Units(task) > Size)
      BY <1>8 DEF TaskStore, At
    <2>2. task' \in Recv /\ task'.pc = "ack" /\ task'.file = task.file /\ task'.blk = task.blk
      BY <1>0, <2>1, TaskMoves
    <2>3. PICK k \in Nat : k = Units(task) /\ k <= Payload
      BY <1>0, <2>1, OneFileIs, TftpAssumption
    <2>4. sess' = [sess EXCEPT !.wr = (sess.wr + k) % Size, !.n = sess.n + k]
      BY <1>0, <2>1, <2>3, StoreIs
    <2>5. /\ sess'.n = sess.n + k /\ sess'.wr = (sess.wr + k) % Size /\ sess'.rd = sess.rd
          /\ sess'.last = sess.last /\ sess'.status = sess.status /\ sess'.err = sess.err
      BY <1>0, <2>4 DEF Sess
    <2>6. /\ task.file = eng.file /\ task.blk = sess.last
          /\ Upto(eng.file, sess.last) = Upto(eng.file, sess.last - 1) + k
          /\ (task.blk - 1) * Payload = Upto(eng.file, sess.last - 1)
      BY <1>0, <2>1, <2>3, OneFileIs DEF Where
    <2>7. Units(task)' = k
      <3>1. Units(task)' = Units(task)
        BY <1>2, <2>2 DEF Units
      <3> QED
        BY <2>3, <3>1
    <2>8. Where'
      BY <1>0, <1>2, <2>2, <2>5, <2>6 DEF Where
    <2>9. InTurn'
      <3>1. SUFFICES ASSUME first, Reading PROVE InTurn'
        BY <1>2 DEF InTurn
      <3>2. sess'.n = k
        BY <1>5, <2>1, <2>3, <2>5, <3>1
      <3> QED
        BY <1>2, <1>3, <2>1, <2>2, <2>7, <3>1, <3>2 DEF InTurn
    <2>10. Stream'
      <3>1. SUFFICES ASSUME first \/ ~ over' PROVE got.good /\ (Reading => Contents')
        BY <1>2 DEF Stream
      <3>2. first \/ ~ over
        BY <2>1, <3>1
      <3>3. got.good /\ (Reading => Contents)
        BY <1>0, <3>2 DEF Stream
      <3>4. ASSUME Reading PROVE Contents'
        <4>1. Contents /\ Stored = sess.last - 1 /\ Stored' = sess.last
          BY <2>1, <2>2, <2>5, <3>3, <3>4 DEF Stored
        <4>2. sess.n + k <= Size
          <5>1. CASE first
            BY <1>5, <2>1, <2>3, <3>4, <5>1, SizeIs, TftpAssumption
          <5>2. CASE ~ first
            <6>1. ~ (sess.n + k > Size) /\ Size \in Nat
              BY <2>1, <2>3, <3>1, <5>2, SizeIs
            <6> QED
              BY <1>1, <6>1
          <5> QED
            BY <5>1, <5>2
        <4>3. got.n + sess.n = Upto(eng.file, sess.last - 1) /\ Holds(ring, eng.file, sess.rd, sess.wr, sess.n, got.n)
          BY <4>1 DEF Contents
        <4>4. ring' = [i \in 0 .. Size - 1 |->
                         IF (i - sess.wr) % Size < k
                         THEN <<eng.file, got.n + sess.n + ((i - sess.wr) % Size) + 1>> ELSE ring[i]]
          <5>1. PICK z : z = (task.blk - 1) * Payload
            OBVIOUS
          <5>2. z = got.n + sess.n
            BY <2>6, <4>3, <5>1
          <5>3. ring' = [i \in 0 .. Size - 1 |->
                         IF (i - sess.wr) % Size < k
                         THEN <<task.file, z + ((i - sess.wr) % Size) + 1>> ELSE ring[i]]
            BY <2>1, <2>3, <5>1, Zenon DEF Store
          <5> QED
            BY <2>6, <5>2, <5>3, Zenon
        <4>5. Holds(ring', eng.file, sess.rd, (sess.wr + k) % Size, sess.n + k, got.n)
          <5>1. PICK q : q = ring'
            OBVIOUS
          <5>2. PICK n \in Nat, g \in Nat, rd \in 0 .. Size - 1 : n = sess.n /\ g = got.n /\ rd = sess.rd
            BY <1>1
          <5>0. PICK w, r, f : w = sess.wr /\ r = ring /\ f = eng.file
            OBVIOUS
          <5>3. Holds(r, f, rd, w, n, g) /\ n + k <= Size
            BY <4>2, <4>3, <5>0, <5>2
          <5>4. q = [i \in 0 .. Size - 1 |->
                         IF (i - w) % Size < k THEN <<f, g + n + ((i - w) % Size) + 1>> ELSE r[i]]
            BY <4>4, <5>1, <5>0, <5>2, Zenon
          <5>5. Holds(q, f, rd, (w + k) % Size, n + k, g)
            BY <5>3, <5>4, Puts
          <5> QED
            BY <5>1, <5>0, <5>2, <5>5
        <4>6. got.n + (sess.n + k) = Upto(eng.file, sess.last)
          <5>1. got.n + (sess.n + k) = (got.n + sess.n) + k
            BY <1>1
          <5> QED
            BY <2>6, <4>3, <5>1
        <4>7. Upto(eng.file, Stored)' = Upto(eng.file, sess.last)
          BY <1>2, <4>1 DEF Upto
        <4>8. Holds(ring, eng.file, sess.rd, sess.wr, sess.n, got.n)'
          BY <1>2, <2>5, <4>5 DEF Holds
        <4> QED
          BY <1>2, <2>5, <4>6, <4>7, <4>8 DEF Contents
      <3> QED
        BY <3>3, <3>4
    <2>11. ASSUME Ended PROVE Ended'
      <3>1. SUFFICES ASSUME first, Reading PROVE Ended'
        BY <1>2 DEF Ended
      <3>2. "finish" \notin sig /\ "data" \notin sig /\ "error" \notin sig /\ (sess.status = "running" \/ sess.err)
            /\ sess.status # "not_started"
        BY <1>3, <1>4, <2>1, <2>11, <3>1 DEF Ended
      <3>3. eng.pc \notin {"copy", "post", "work"}
        BY <1>3, <3>1
      <3> QED
        BY <1>2, <2>1, <2>2, <2>5, <3>1, <3>2, <3>3 DEF Ended
    <2> QED
      BY <2>8, <2>9, <2>10, <2>11 DEF Finish
  <1>9. CASE TaskAck
    <2>1. /\ task.pc = "ack" /\ UNCHANGED <<sess, ring, over>> /\ sig' = sig \cup {"data"}
          /\ Go(IF Short(task) THEN "last" ELSE "loop")
      BY <1>9 DEF TaskAck, At
    <2>2. PICK q \in {"last", "loop"} : Go(q) /\ (q = "last" <=> Short(task))
      BY <2>1
    <2>3. task'.pc = q
      BY <1>0, <2>2, TaskMoves
    <2>4. task.blk = sess.last /\ (Short(task) => sess.last = Blocks(eng.file))
      BY <1>0, <2>1, OneFileIs DEF Where
    <2>5. Where'
      BY <1>0, <1>2, <2>1, <2>2, <2>3, <2>4 DEF Where
    <2>6. InTurn'
      BY <1>2, <1>3, <2>1, <2>3 DEF InTurn
    <2>7. Stream'
      <3>1. Stored' = Stored
        BY <2>1, <2>3 DEF Stored
      <3> QED
        BY <1>0, <1>2, <2>1, <3>1, CalmIs DEF Calm
    <2>8. ASSUME Ended PROVE Ended'
      <3>1. SUFFICES ASSUME first, Reading PROVE Ended'
        BY <1>2 DEF Ended
      <3>2. "finish" \notin sig' /\ "error" \notin sig' /\ (sess.status = "running" \/ sess.err)
            /\ sess.status # "not_started"
        BY <1>3, <1>4, <2>1, <2>8, <3>1 DEF Ended
      <3>3. eng.pc \notin {"copy", "post", "work"}
        BY <1>3, <3>1
      <3>4. sess.n = 0 => got.n = flen[eng.file]
        <4>1. SUFFICES ASSUME sess.n = 0 PROVE got.n = flen[eng.file]
          OBVIOUS
        <4>2. Units(task) = 0
          BY <1>0, <2>1, <3>1, <4>1 DEF InTurn
        <4>3. Short(task)
          BY <4>2, TftpAssumption DEF Short
        <4>4. sess.last = Blocks(eng.file) /\ Upto(eng.file, Blocks(eng.file)) = flen[eng.file]
          BY <1>0, <2>4, <4>3, OneFileIs
        <4>5. got.n + sess.n = Upto(eng.file, sess.last)
          BY <1>0, <2>1, <3>1 DEF Stream, Contents, Stored
        <4> QED
          BY <1>1, <4>1, <4>4, <4>5
      <3> QED
        BY <1>2, <2>1, <2>3, <3>1, <3>2, <3>3, <3>4 DEF Ended
    <2> QED
      BY <2>5, <2>6, <2>7, <2>8 DEF Finish
  <1>10. CASE TaskLast
    <2>1. /\ Go("loop") /\ task.pc = "last" /\ sess' = [sess EXCEPT !.status = "waitstop"]
          /\ UNCHANGED <<ring, sig, over>>
      BY <1>10 DEF TaskLast, At
    <2>2. task'.pc = "loop"
      BY <1>0, <2>1, TaskMoves
    <2>3. /\ sess'.n = sess.n /\ sess'.rd = sess.rd /\ sess'.wr = sess.wr /\ sess'.last = sess.last
          /\ sess'.status = "waitstop" /\ sess'.err = sess.err
      BY <1>0, <2>1 DEF Sess
    <2>4. Where' /\ InTurn'
      BY <1>0, <1>2, <1>5, <2>1, <2>2, <2>3 DEF Where, InTurn
    <2>5. Stream'
      <3>1. Stored' = Stored
        BY <2>1, <2>2, <2>3 DEF Stored
      <3> QED
        BY <1>0, <1>2, <2>1, <2>3, <3>1, CalmIs DEF Calm
    <2>6. ASSUME Ended PROVE Ended'
      <3>1. SUFFICES ASSUME first, Reading PROVE Ended'
        BY <1>2 DEF Ended
      <3>2. "finish" \notin sig /\ "error" \notin sig /\ "data" \notin sig
        BY <1>3, <1>4, <3>1
      <3>3. sess.n = 0 /\ sess.last = Blocks(eng.file)
        BY <1>0, <1>5, <2>1, <3>1 DEF Where
      <3>4. got.n = flen[eng.file]
        <4>1. got.n + sess.n = Upto(eng.file, sess.last)
          BY <1>0, <2>1, <3>1 DEF Stream, Contents, Stored
        <4>2. Upto(eng.file, Blocks(eng.file)) = flen[eng.file]
          BY <1>0, OneFileIs
        <4> QED
          BY <1>1, <3>3, <4>1, <4>2
      <3> QED
        BY <1>2, <2>1, <2>2, <2>3, <3>1, <3>2, <3>3, <3>4 DEF Ended
    <2> QED
      BY <2>4, <2>5, <2>6 DEF Finish
  <1>11. CASE TaskEnd
    <2>1. /\ task.pc = "end" /\ task' = NoTask /\ UNCHANGED <<sess, ring, over>>
          /\ sig' = sig \cup {IF sess.err THEN "error" ELSE "finish"}
      BY <1>11 DEF TaskEnd, At
    <2>2. task'.pc = "none"
      BY <2>1 DEF NoTask
    <2>3. Where' /\ InTurn'
      BY <1>0, <1>2, <1>3, <1>5, <2>1, <2>2 DEF Where, InTurn
    <2>4. Stream'
      <3>1. Stored' = Stored
        BY <2>1, <2>2 DEF Stored
      <3> QED
        BY <1>0, <1>2, <2>1, <3>1, CalmIs DEF Calm
    <2>5. ASSUME Ended PROVE Ended'
      <3>1. SUFFICES ASSUME first, Reading PROVE Ended'
        BY <1>2 DEF Ended
      <3>2. sess.status = "stop"
        BY <2>1, <2>5, <3>1 DEF Ended
      <3>3. "data" \in sig' => "data" \in sig
        BY <2>1
      <3>4. "error" \in sig' => sess.err
        BY <1>3, <1>4, <2>1, <3>1
      <3> QED
        BY <1>2, <2>1, <2>2, <2>5, <3>1, <3>2, <3>3, <3>4 DEF Ended
    <2> QED
      BY <2>3, <2>4, <2>5 DEF Finish
  <1> QED
    BY <1>6, <1>7, <1>8, <1>9, <1>10, <1>11

\* Where a step takes the engine's task, with what result.
EngTo(q, r, k, b) ==
  eng'.pc = q /\ eng'.ret = r /\ eng'.n = k /\ eng'.fin = b /\ eng'.file = eng.file /\ eng'.more = eng.more

LEMMA ReturnsIs ==
  ASSUME eng \in Eng, NEW r, NEW k, Returns(r, k)
  PROVE  IF eng.fin THEN EngTo("close", eng.ret, eng.n, TRUE) ELSE EngTo("work", r, k, FALSE)
  BY DEF Returns, EngTo, Eng

LEMMA EngGoIs ==
  ASSUME eng \in Eng, NEW q, EngGo(q)
  PROVE  EngTo(q, eng.ret, eng.n, eng.fin)
  BY DEF EngGo, EngTo, Eng

\* What the engine's task does besides reading from the ring.
Pauses ==
  /\ UNCHANGED <<ring, task, got, over, flen, first>>
  /\ sess'.n = sess.n /\ sess'.rd = sess.rd /\ sess'.wr = sess.wr /\ sess'.last = sess.last
  /\ sess'.status = sess.status /\ sess'.err = sess.err

LEMMA PausesIs ==
  ASSUME Stream, Where, Pauses, eng'.file = eng.file, Reading' => Reading,
         eng'.fin => eng'.pc \notin {"idle", "initwait", "work", "done"}
  PROVE  Stream' /\ Where' /\ (~ Reading' => InTurn' /\ Ended')
         /\ Blocks(eng.file)' = Blocks(eng.file) /\ Units(task)' = Units(task)
  <1>1. Stored' = Stored /\ Blocks(eng.file)' = Blocks(eng.file) /\ Units(task)' = Units(task)
    BY DEF Stored, Pauses, Blocks, Units
  <1>2. Calm
    BY <1>1 DEF Calm, Pauses
  <1>3. Stream'
    BY <1>2, CalmIs
  <1>4. Where'
    BY <1>1 DEF Where, Pauses
  <1> QED
    BY <1>1, <1>3, <1>4 DEF InTurn, Ended

LEMMA EngineSteps ==
  ASSUME NFiles = 1, Whole,
         \/ PluginInitWait \/ RecvEnter \/ RecvStatus \/ RecvWait \/ RecvPost
         \/ EngineWork \/ FinClose \/ FinDelete \/ PluginInitFails \/ FinNoMemory
  PROVE  Where' /\ InTurn' /\ Stream' /\ (Finish => Finish')
  <1>0. /\ sess \in Sess /\ eng \in Eng /\ Where /\ InTurn /\ Stream /\ TypeOK
        /\ eng.fin => eng.pc \notin {"idle", "initwait", "work", "done"}
    BY DEF Whole, Protocol, TypeOK, Where
  <1>1. "data" \in ALL /\ "finish" \in ALL /\ "error" \in ALL /\ "buf" \notin ALL
        /\ \A x \in ALL : x \in {"data", "finish", "error"}
    BY DEF ALL
  <1>2. ASSUME Pauses, sig' = sig, NEW q, NEW r, NEW k, NEW b \in BOOLEAN, EngTo(q, r, k, b),
               b => q \notin {"idle", "initwait", "work", "done"},
               Reading' => Reading /\ q \notin {"copy", "post"},
               eng.pc \notin {"copy", "post"},
               Reading' => ~ (eng.pc \in {"initwait", "wait"} /\ sig \cap ALL = {}),
               Ended /\ first /\ Reading' =>
                  (q = "work" /\ k = 0 /\ r = "ok" /\ ~ sess.err => got.n = flen[eng.file])
        PROVE  Where' /\ InTurn' /\ Stream' /\ (Ended => Ended')
    <2>1. /\ eng'.pc = q /\ eng'.ret = r /\ eng'.n = k /\ eng'.fin = b /\ eng'.file = eng.file
          /\ eng'.more = eng.more
      BY <1>2 DEF EngTo
    <2>2. Stream' /\ Where' /\ (~ Reading' => InTurn' /\ Ended')
          /\ Blocks(eng.file)' = Blocks(eng.file) /\ Units(task)' = Units(task)
      BY <1>0, <1>2, <2>1, PausesIs
    <2>3. ASSUME Reading' PROVE InTurn' /\ (Ended => Ended')
      <3>1. /\ UNCHANGED <<ring, task, got, over, flen, first, sig>>
            /\ sess'.n = sess.n /\ sess'.last = sess.last
            /\ sess'.status = sess.status /\ sess'.err = sess.err
        BY <1>2 DEF Pauses
      <3>2. Reading /\ q \notin {"copy", "post"}
        BY <1>2, <2>3
      <3>3. first => task.pc \notin {"store", "ack"}
        BY <1>0, <1>2, <2>3, <3>2 DEF InTurn
      <3>4. InTurn'
        BY <1>0, <1>2, <2>1, <3>1, <3>2, <3>3 DEF InTurn
      <3>5. ASSUME Ended PROVE Ended'
        <4>1. SUFFICES ASSUME first PROVE Ended'
          BY <3>1 DEF Ended
        <4>2. q = "work" /\ k = 0 /\ r = "ok" /\ ~ sess.err => got.n = flen[eng.file]
          BY <1>2, <2>3, <3>5, <4>1
        <4> QED
          BY <2>1, <2>2, <3>1, <3>2, <3>5, <4>1, <4>2 DEF Ended
      <3> QED
        BY <3>4, <3>5
    <2> QED
      BY <2>2, <2>3
  <1>3. CASE PluginInitWait
    <2>1. /\ eng.pc = "initwait" /\ sig \cap ALL # {} /\ Pauses /\ sig' = sig
          /\ \/ eng' = [eng EXCEPT !.pc = "close", !.ret = "err", !.fin = TRUE]
             \/ EngGo("recv")
      BY <1>3 DEF PluginInitWait, EngAt, EngGo, Pauses, envVars
    <2>2. CASE EngGo("recv")
      <3>1. EngTo("recv", eng.ret, eng.n, eng.fin) /\ eng.fin = FALSE
        BY <1>0, <2>1, <2>2, EngGoIs DEF Eng
      <3>2. Reading' /\ Reading
        BY <2>1, <3>1 DEF Reading, EngTo
      <3> QED
        BY <1>2, <2>1, <3>1, <3>2 DEF Finish
    <2>3. CASE eng' = [eng EXCEPT !.pc = "close", !.ret = "err", !.fin = TRUE]
      <3>1. EngTo("close", "err", eng.n, TRUE)
        BY <1>0, <2>3 DEF Eng, EngTo
      <3>2. ~ Reading'
        BY <3>1 DEF Reading, EngTo
      <3> QED
        BY <1>2, <2>1, <3>1, <3>2 DEF Finish
    <2> QED
      BY <2>1, <2>2, <2>3
  <1>4. ASSUME Pauses, sig' = sig, NEW r, NEW k, Returns(r, k), eng.pc \in {"recv", "recv2", "wait"},
               ~ (eng.pc \in {"initwait", "wait"} /\ sig \cap ALL = {}),
               Ended /\ first /\ Reading => (k = 0 /\ r = "ok" /\ ~ sess.err => got.n = flen[eng.file])
        PROVE  Where' /\ InTurn' /\ Stream' /\ (Ended => Ended')
    <2>1. CASE eng.fin
      <3>1. EngTo("close", eng.ret, eng.n, TRUE)
        BY <1>0, <1>4, <2>1, ReturnsIs
      <3>2. ~ Reading'
        BY <3>1 DEF Reading, EngTo
      <3> QED
        BY <1>2, <1>4, <3>1, <3>2
    <2>2. CASE ~ eng.fin
      <3>1. EngTo("work", r, k, FALSE)
        BY <1>0, <1>4, <2>2, ReturnsIs
      <3>2. Reading' /\ Reading
        BY <1>4, <2>2, <3>1 DEF Reading, EngTo
      <3> QED
        BY <1>2, <1>4, <3>1, <3>2
    <2> QED
      BY <2>1, <2>2
  <1>5. CASE RecvEnter
    <2>1. /\ eng.pc = "recv" /\ Pauses /\ sig' = sig
          /\ Returns("err", 0) \/ EngGo("recv2")
      BY <1>5 DEF RecvEnter, EngAt, Pauses, envVars
    <2>2. CASE EngGo("recv2")
      <3>1. EngTo("recv2", eng.ret, eng.n, eng.fin) /\ eng.fin \in BOOLEAN
        BY <1>0, <2>1, <2>2, EngGoIs DEF Eng
      <3>2. Reading' => Reading
        BY <2>1, <3>1 DEF Reading, EngTo
      <3> QED
        BY <1>2, <2>1, <3>1, <3>2 DEF Finish
    <2>3. CASE Returns("err", 0)
      BY <1>4, <2>1, <2>3 DEF Finish
    <2> QED
      BY <2>1, <2>2, <2>3
  <1>6. CASE RecvStatus
    <2>1. /\ eng.pc = "recv2" /\ Pauses /\ sig' = sig
          /\ (sess.status # "running" /\ Returns("ok", 0)) \/ EngGo("wait")
      BY <1>6 DEF RecvStatus, EngAt, Pauses, envVars
    <2>2. CASE EngGo("wait")
      <3>1. EngTo("wait", eng.ret, eng.n, eng.fin) /\ eng.fin \in BOOLEAN
        BY <1>0, <2>1, <2>2, EngGoIs DEF Eng
      <3>2. Reading' => Reading
        BY <2>1, <3>1 DEF Reading, EngTo
      <3> QED
        BY <1>2, <2>1, <3>1, <3>2 DEF Finish
    <2>3. CASE sess.status # "running" /\ Returns("ok", 0)
      <3>1. Ended /\ first /\ Reading => (~ sess.err => got.n = flen[eng.file])
        BY <2>3 DEF Ended
      <3> QED
        BY <1>4, <2>1, <2>3, <3>1 DEF Finish
    <2> QED
      BY <2>1, <2>2, <2>3
  <1>7. CASE EngineWork
    <2>1. /\ eng.pc = "work" /\ Pauses /\ sig' = sig
          /\ \/ EngGo("recv") \/ eng' = [eng EXCEPT !.pc = "recv", !.fin = TRUE]
             \/ eng' = [eng EXCEPT !.pc = "close", !.ret = "err", !.fin = TRUE]
      BY <1>7 DEF EngineWork, EngAt, Pauses, envVars
    <2>2. CASE EngGo("recv")
      <3>1. EngTo("recv", eng.ret, eng.n, eng.fin) /\ eng.fin = FALSE
        BY <1>0, <2>1, <2>2, EngGoIs DEF Eng
      <3>2. Reading' /\ Reading
        BY <2>1, <3>1 DEF Reading, EngTo
      <3> QED
        BY <1>2, <2>1, <3>1, <3>2, ZenonT(60) DEF Finish
    <2>3. CASE eng' = [eng EXCEPT !.pc = "close", !.ret = "err", !.fin = TRUE]
      <3>1. EngTo("close", "err", eng.n, TRUE)
        BY <1>0, <2>3 DEF Eng, EngTo
      <3>2. ~ Reading'
        BY <3>1 DEF Reading, EngTo
      <3> QED
        BY <1>2, <2>1, <3>1, <3>2 DEF Finish
    <2>4. CASE eng' = [eng EXCEPT !.pc = "recv", !.fin = TRUE]
      <3>1. EngTo("recv", eng.ret, eng.n, TRUE)
        BY <1>0, <2>4 DEF Eng, EngTo
      <3>2. ~ Reading'
        BY <3>1 DEF Reading, EngTo
      <3> QED
        BY <1>2, <2>1, <3>1, <3>2 DEF Finish
    <2> QED
      BY <2>1, <2>2, <2>3, <2>4
  <1>8. CASE FinClose \/ FinDelete
    <2>1. PICK b \in BOOLEAN : sess' = [sess EXCEPT !.open = b] \/ sess' = [sess EXCEPT !.sigs = b]
      BY <1>8 DEF FinClose, FinDelete
    <2>2. PICK q \in {"closing", "delete"} : EngGo(q)
      BY <1>8 DEF FinClose, FinDelete
    <2>3. Pauses /\ sig' = sig /\ eng.pc \in {"close", "closing"}
      <3>1. /\ sess'.n = sess.n /\ sess'.rd = sess.rd /\ sess'.wr = sess.wr /\ sess'.last = sess.last
            /\ sess'.status = sess.status /\ sess'.err = sess.err
        BY <1>0, <2>1 DEF Sess
      <3> QED
        BY <1>8, <3>1 DEF FinClose, FinDelete, Pauses, EngAt, envVars
    <2>4. EngTo(q, eng.ret, eng.n, eng.fin) /\ eng.fin \in BOOLEAN
      BY <1>0, <2>2, EngGoIs DEF Eng
    <2>5. ~ Reading'
      BY <2>4 DEF Reading, EngTo
    <2> QED
      BY <1>2, <2>3, <2>4, <2>5 DEF Finish
  <1>9. CASE PluginInitFails \/ FinNoMemory
    <2>1. /\ eng.pc \in {"idle", "work"} /\ Pauses /\ sig' = sig
          /\ EngGo("done") \/ eng' = [eng EXCEPT !.pc = "done", !.ret = "err"]
      BY <1>9 DEF PluginInitFails, FinNoMemory, EngAt, Pauses, envVars
    <2>2. PICK r : EngTo("done", r, eng.n, eng.fin) /\ eng.fin = FALSE
      <3>0. eng.fin = FALSE
        BY <1>0, <2>1 DEF Eng
      <3>1. CASE EngGo("done")
        BY <1>0, <3>0, <3>1, EngGoIs
      <3>2. CASE eng' = [eng EXCEPT !.pc = "done", !.ret = "err"]
        <4>1. EngTo("done", "err", eng.n, eng.fin)
          BY <1>0, <3>2 DEF Eng, EngTo
        <4> QED
          BY <3>0, <4>1
      <3> QED
        BY <2>1, <3>1, <3>2
    <2>3. ~ Reading' /\ EngTo("done", r, eng.n, FALSE)
      BY <2>2 DEF Reading, EngTo
    <2>4. Where' /\ InTurn' /\ Stream' /\ (Ended => Ended')
      BY <1>2, <2>1, <2>3
    <2> QED
      BY <2>4 DEF Finish
  <1>10. CASE RecvWait
    <2>1. /\ eng.pc = "wait" /\ sig \cap ALL # {} /\ sig' = sig \ ALL /\ Pauses
          /\ ("data" \in sig /\ EngGo("copy")) \/ ("data" \notin sig /\ Returns("ok", 0))
      BY <1>10 DEF RecvWait, EngAt, Pauses, envVars
    <2>2. /\ UNCHANGED <<ring, task, got, over, flen, first>>
          /\ sess'.n = sess.n /\ sess'.last = sess.last
          /\ sess'.status = sess.status /\ sess'.err = sess.err
      BY <2>1 DEF Pauses
    <2>3. \A x \in ALL : x \notin sig'
      BY <2>1
    <2>4. Reading /\ first => task.pc \notin {"store", "ack"}
      BY <1>0, <2>1 DEF InTurn
    <2>5. Reading /\ first /\ "data" \notin sig => ~ (sess.n > 0)
      BY <1>0, <2>1, <2>4 DEF InTurn
    <2>6. PICK q, r, k, b : EngTo(q, r, k, b) /\ b \in BOOLEAN /\ (b => q \in {"copy", "close"})
                            /\ (~ b => \/ "data" \in sig /\ q = "copy"
                                       \/ "data" \notin sig /\ q = "work" /\ r = "ok" /\ k = 0)
                            /\ (b <=> eng.fin)
      <3>1. CASE "data" \in sig /\ EngGo("copy")
        <4>1. EngTo("copy", eng.ret, eng.n, eng.fin) /\ eng.fin \in BOOLEAN
          BY <1>0, <3>1, EngGoIs DEF Eng
        <4> QED
          BY <3>1, <4>1
      <3>2. CASE "data" \notin sig /\ Returns("ok", 0)
        <4>1. CASE eng.fin
          BY <1>0, <3>2, <4>1, ReturnsIs
        <4>2. CASE ~ eng.fin
          BY <1>0, <3>2, <4>2, ReturnsIs
        <4> QED
          BY <4>1, <4>2
      <3> QED
        BY <2>1, <3>1, <3>2
    <2>7. /\ eng'.pc = q /\ eng'.ret = r /\ eng'.n = k /\ eng'.fin = b /\ eng'.file = eng.file
          /\ eng'.more = eng.more
      BY <2>6 DEF EngTo
    <2>8. Reading' => Reading /\ ~ b
      BY <2>1, <2>6, <2>7 DEF Reading
    <2>9. Stream' /\ Where' /\ (~ Reading' => InTurn' /\ Ended')
          /\ Blocks(eng.file)' = Blocks(eng.file)
      BY <1>0, <2>1, <2>6, <2>7, <2>8, PausesIs
    <2>10. ASSUME Reading' PROVE InTurn' /\ (Ended => Ended')
      <3>1. InTurn'
        BY <1>1, <2>2, <2>3, <2>4, <2>5, <2>6, <2>7, <2>8, <2>10 DEF InTurn
      <3>2. ASSUME Ended PROVE Ended'
        <4>1. SUFFICES ASSUME first PROVE Ended'
          BY <2>2 DEF Ended
        <4>2. Reading /\ ~ b
          BY <2>8, <2>10
        <4>3. q = "copy" /\ sess.n = 0 => got.n = flen[eng.file]
          BY <2>6, <3>2, <4>1, <4>2 DEF Ended
        <4>4. q = "work" /\ ~ sess.err => got.n = flen[eng.file]
          <5>1. SUFFICES ASSUME "data" \notin sig, ~ sess.err PROVE got.n = flen[eng.file]
            BY <2>6, <4>2
          <5>2. "finish" \in sig \/ "error" \in sig
            BY <1>1, <2>1, <5>1
          <5> QED
            BY <3>2, <4>1, <4>2, <5>1, <5>2 DEF Ended
        <4> QED
          BY <1>1, <2>2, <2>3, <2>6, <2>7, <2>9, <3>2, <4>1, <4>2, <4>3, <4>4 DEF Ended
      <3> QED
        BY <3>1, <3>2
    <2> QED
      BY <2>9, <2>10 DEF Finish
  <1>11. CASE RecvPost
    <2>1. /\ eng.pc = "post" /\ sig' = sig \cup Post /\ Pauses /\ Returns("ok", eng.n)
      BY <1>11 DEF RecvPost, EngAt, Pauses, envVars
    <2>2. /\ UNCHANGED <<ring, task, got, over, flen, first>>
          /\ sess'.n = sess.n /\ sess'.last = sess.last
          /\ sess'.status = sess.status /\ sess'.err = sess.err
      BY <2>1 DEF Pauses
    <2>3. /\ "data" \in sig' <=> ("data" \in sig \/ eng.more)
          /\ "finish" \in sig' <=> "finish" \in sig
          /\ "error" \in sig' <=> "error" \in sig
      BY <2>1 DEF Post
    <2>4. PICK q, r, k, b : EngTo(q, r, k, b) /\ b \in BOOLEAN /\ (b => q = "close")
                            /\ (~ b => q = "work" /\ r = "ok" /\ k = eng.n) /\ (b <=> eng.fin)
      <3>1. CASE eng.fin
        BY <1>0, <2>1, <3>1, ReturnsIs
      <3>2. CASE ~ eng.fin
        BY <1>0, <2>1, <3>2, ReturnsIs
      <3> QED
        BY <3>1, <3>2
    <2>5. /\ eng'.pc = q /\ eng'.ret = r /\ eng'.n = k /\ eng'.fin = b /\ eng'.file = eng.file
          /\ eng'.more = eng.more
      BY <2>4 DEF EngTo
    <2>6. Reading' => Reading /\ ~ b
      BY <2>1, <2>4, <2>5 DEF Reading
    <2>7. Stream' /\ Where' /\ (~ Reading' => InTurn' /\ Ended')
          /\ Blocks(eng.file)' = Blocks(eng.file)
      BY <1>0, <2>1, <2>4, <2>5, <2>6, PausesIs
    <2>8. ASSUME Reading' PROVE InTurn' /\ (Ended => Ended')
      <3>1. Reading /\ ~ b /\ q = "work"
        BY <2>4, <2>6, <2>8
      <3>2. first => task.pc \notin {"store", "ack"} /\ (sess.n > 0 => "data" \in sig')
        BY <1>0, <2>1, <2>3, <3>1 DEF InTurn
      <3>3. InTurn'
        BY <2>2, <2>5, <3>1, <3>2 DEF InTurn
      <3>4. ASSUME Ended PROVE Ended'
        <4>1. SUFFICES ASSUME first PROVE Ended'
          BY <2>2 DEF Ended
        <4>2. "data" \in sig' => sess.n > 0
          BY <1>0, <2>1, <2>3, <3>1, <4>1 DEF InTurn
        <4>3. "data" \in sig' => sess.n # 0
          BY <1>0, <4>2 DEF Sess
        <4>4. k = 0 => got.n = flen[eng.file]
          BY <2>1, <2>4, <3>1, <3>4, <4>1 DEF Ended
        <4> QED
          BY <2>2, <2>3, <2>5, <2>7, <3>1, <3>4, <4>1, <4>3, <4>4 DEF Ended
      <3> QED
        BY <3>3, <3>4
    <2> QED
      BY <2>7, <2>8 DEF Finish
  <1> QED
    BY <1>3, <1>5, <1>6, <1>7, <1>8, <1>9, <1>10, <1>11

LEMMA CopyStep ==
  ASSUME NFiles = 1, Whole, RecvCopy
  PROVE  Where' /\ InTurn' /\ Stream' /\ (Finish => Finish')
  <1>0. /\ sess \in Sess /\ eng \in Eng /\ task \in Recv /\ Where /\ InTurn /\ Stream
        /\ got \in [n : Nat, good : BOOLEAN]
    BY DEF Whole, Protocol, TypeOK
  <1>1. PICK n \in Nat, g \in Nat, rd \in 0 .. Size - 1 : n = sess.n /\ g = got.n /\ rd = sess.rd
    BY <1>0 DEF Sess
  <1>2. PICK k \in 0 .. n : k = CopyLen /\ (n > 0 => k > 0)
    BY <1>0, <1>1, CopyIs
  <1>3. /\ eng.pc = "copy" /\ UNCHANGED <<ring, sig, task, over, flen, first>>
        /\ sess' = [sess EXCEPT !.n = @ - k, !.rd = (@ + k) % Size]
        /\ got' = IF eng.fin THEN got ELSE [n |-> got.n + k, good |-> got.good /\ InPlace(k)]
        /\ eng' = [eng EXCEPT !.pc = "post", !.n = IF eng.fin THEN @ ELSE k, !.more = sess.n > k]
    BY <1>2 DEF RecvCopy, EngAt, envVars
  <1>4. /\ sess'.n = n - k /\ sess'.rd = (rd + k) % Size /\ sess'.wr = sess.wr /\ sess'.last = sess.last
        /\ sess'.status = sess.status /\ sess'.err = sess.err
    BY <1>0, <1>1, <1>3 DEF Sess
  <1>5. /\ eng'.pc = "post" /\ eng'.file = eng.file /\ eng'.fin = eng.fin
        /\ eng'.n = IF eng.fin THEN eng.n ELSE k
    BY <1>0, <1>3 DEF Eng
  <1>6. eng'.more <=> n > k
    BY <1>0, <1>1, <1>3 DEF Eng
  <1>7. Reading' <=> Reading
    BY <1>3, <1>5 DEF Reading
  <1>8. Where'
    <2>1. Blocks(eng.file)' = Blocks(eng.file)
      BY <1>3, <1>5 DEF Blocks
    <2> QED
      BY <1>0, <1>3, <1>4, <1>5, <2>1 DEF Where
  <1>9. InTurn'
    <2>1. SUFFICES ASSUME first, Reading PROVE InTurn'
      BY <1>3, <1>7 DEF InTurn
    <2>2. task.pc \notin {"store", "ack"} /\ "data" \notin sig
      BY <1>0, <1>3, <2>1 DEF InTurn
    <2>3. n > k <=> n - k > 0
      OBVIOUS
    <2> QED
      BY <1>3, <1>4, <1>5, <1>6, <2>1, <2>2, <2>3 DEF InTurn
  <1>10. Stream'
    <2>1. SUFFICES ASSUME first \/ ~ over PROVE got'.good /\ (Reading' => Contents')
      BY <1>3 DEF Stream
    <2>2. got.good /\ (Reading => Contents)
      BY <1>0, <2>1 DEF Stream
    <2>3. CASE eng.fin
      BY <1>3, <1>7, <2>2, <2>3 DEF Reading
    <2>4. CASE ~ eng.fin
      <3>1. Reading
        BY <1>3, <2>4 DEF Reading
      <3>2. Holds(ring, eng.file, rd, sess.wr, n, g) /\ g + n = Upto(eng.file, Stored)
        BY <1>1, <2>2, <3>1 DEF Contents
      <3>3. InPlace(k)
        <4>1. ASSUME NEW i \in 0 .. k - 1 PROVE ring[(sess.rd + i) % Size] = <<eng.file, got.n + i + 1>>
          <5>1. i \in 0 .. n - 1
            BY <4>1
          <5> QED
            BY <1>1, <3>2, <5>1 DEF Holds
        <4> QED
          BY <4>1 DEF InPlace
      <3>4. got'.good /\ got'.n = g + k
        BY <1>1, <1>3, <2>2, <2>4, <3>3
      <3>5. Holds(ring, eng.file, (rd + k) % Size, sess.wr, n - k, g + k)
        <4>1. PICK w, r, f : w = sess.wr /\ r = ring /\ f = eng.file
          OBVIOUS
        <4>2. Holds(r, f, rd, w, n, g)
          BY <3>2, <4>1
        <4>3. Holds(r, f, (rd + k) % Size, w, n - k, g + k)
          BY <4>2, Takes
        <4> QED
          BY <4>1, <4>3
      <3>6. Holds(ring, eng.file, sess.rd, sess.wr, sess.n, got.n)'
        BY <1>3, <1>4, <1>5, <3>4, <3>5 DEF Holds
      <3>7. Upto(eng.file, Stored)' = Upto(eng.file, Stored)
        BY <1>3, <1>4, <1>5 DEF Upto, Stored
      <3>8. got'.n + sess'.n = Upto(eng.file, Stored)'
        <4>1. (g + k) + (n - k) = g + n
          BY <1>1, <1>2
        <4> QED
          BY <1>4, <3>2, <3>4, <3>7, <4>1
      <3> QED
        BY <3>4, <3>6, <3>8 DEF Contents
    <2> QED
      BY <2>3, <2>4
  <1>11. ASSUME Ended PROVE Ended'
    <2>1. SUFFICES ASSUME first, Reading PROVE Ended'
      BY <1>3, <1>7 DEF Ended
    <2>2. ~ eng.fin /\ got'.n = g + k /\ eng'.n = k
      BY <1>1, <1>3, <1>5, <2>1 DEF Reading
    <2>3. "data" \notin sig
      BY <1>0, <1>3, <2>1 DEF InTurn
    <2>4. ASSUME ~ (n > 0) PROVE k = 0 /\ got'.n = got.n /\ sess'.n = 0
      <3>1. k = 0 /\ n - k = 0 /\ g + k = g
        BY <2>4
      <3> QED
        BY <1>1, <1>4, <2>2, <3>1
    <2>5. k = 0 => got'.n = flen[eng.file]
      <3>1. SUFFICES ASSUME k = 0 PROVE got'.n = flen[eng.file]
        OBVIOUS
      <3>2. n = 0
        BY <1>2, <3>1
      <3>3. got.n = flen[eng.file]
        BY <1>1, <1>3, <1>11, <2>1, <3>2 DEF Ended
      <3> QED
        BY <2>4, <3>2, <3>3
    <2>6. Blocks(eng.file)' = Blocks(eng.file)
      BY <1>3, <1>5 DEF Blocks
    <2>7. sess'.status # "running" /\ ~ sess'.err =>
            /\ got'.n = flen[eng.file] /\ sess'.n = 0
            /\ task.pc \notin {"store", "ack"} /\ sess.last = Blocks(eng.file)
      <3>1. sess.status # "running" /\ ~ sess.err =>
              /\ got.n = flen[eng.file] /\ sess.n = 0
              /\ task.pc \notin {"store", "ack"} /\ sess.last = Blocks(eng.file)
        BY <1>11, <2>1 DEF Ended
      <3>2. sess.n = 0 => ~ (n > 0)
        BY <1>1
      <3> QED
        BY <1>1, <1>4, <2>4, <3>1, <3>2
    <2> QED
      BY <1>3, <1>4, <1>5, <1>11, <2>1, <2>2, <2>3, <2>5, <2>6, <2>7 DEF Ended
  <1> QED
    BY <1>8, <1>9, <1>10, <1>11 DEF Finish

LEMMA OtherSteps ==
  ASSUME NFiles = 1, Whole, PluginInit \/ FinFree \/ Tick \/ Server \/ ServerAgain \/ UNCHANGED vars
  PROVE  Where' /\ InTurn' /\ Stream' /\ (Finish => Finish')
  <1>0. /\ sess \in Sess /\ eng \in Eng /\ Where /\ InTurn /\ Stream /\ Protocol
    BY DEF Whole, Protocol, TypeOK
  <1>1. CASE PluginInit
    <2>1. /\ Protocol' /\ sess'.live /\ sess'.status = "running" /\ ~ sess'.err
          /\ sess'.last = 0 /\ sess'.n = 0 /\ sess'.rd = 0 /\ sess'.wr = 0
          /\ task'.pc = "loop" /\ sig' = {} /\ got' = [n |-> 0, good |-> TRUE]
          /\ eng'.pc = "initwait" /\ eng'.fin = eng.fin /\ eng'.file = eng.file
          /\ UNCHANGED <<ring, over, flen, first>>
      BY <1>0, <1>1, InitKeeps
    <2>2. ~ eng.fin
      BY <1>0, <1>1 DEF PluginInit, EngAt, Where
    <2>3. Where' /\ InTurn' /\ Ended'
      BY <2>1, <2>2 DEF Where, InTurn, Ended
    <2>4. Contents'
      <3>1. got'.n = 0 /\ Stored' = 0
        BY <2>1 DEF Stored
      <3>2. PICK d \in Nat \ {0} : d = Size
        BY SizeIs
      <3>3. (0 + 0) % d = 0
        BY ModIs
      <3>4. Holds(ring, eng.file, sess.rd, sess.wr, sess.n, got.n)'
        BY <2>1, <3>1, <3>2, <3>3 DEF Holds
      <3>5. Upto(eng.file, 0)' = 0
        BY <1>0, <2>1, OneFileIs DEF Upto
      <3> QED
        BY <2>1, <3>1, <3>4, <3>5 DEF Contents, Upto
    <2>5. Stream'
      BY <2>1, <2>4 DEF Stream
    <2> QED
      BY <2>3, <2>5 DEF Finish
  <1>2. CASE FinFree
    <2>1. /\ eng'.pc \in {"idle", "done"} /\ eng'.fin = FALSE /\ task'.pc = "none"
          /\ UNCHANGED <<got, over, first>>
      BY <1>0, <1>2, FreeKeeps DEF envVars
    <2>2. ~ Reading'
      BY <2>1 DEF Reading
    <2> QED
      BY <1>0, <2>1, <2>2 DEF Where, InTurn, Stream, Ended, Finish
  <1>3. CASE Tick \/ Server \/ ServerAgain \/ UNCHANGED vars
    <2>1. UNCHANGED <<sess, ring, sig, task, eng, got, over, flen, first>>
      <3>1. CASE Server \/ ServerAgain
        BY <1>0, <3>1, ServerIs DEF Serves
      <3>2. CASE Tick \/ UNCHANGED vars
        BY <3>2 DEF Tick, envVars, vars
      <3> QED
        BY <1>3, <3>1, <3>2
    <2>2. Calm /\ (Reading' <=> Reading) /\ Blocks(eng.file)' = Blocks(eng.file) /\ Units(task)' = Units(task)
      BY <2>1 DEF Calm, Stored, Reading, Blocks, Units
    <2>3. Stream'
      BY <1>0, <2>2, CalmIs
    <2>4. Where'
      BY <1>0, <2>1, <2>2 DEF Where
    <2>5. InTurn'
      BY <1>0, <2>1, <2>2 DEF InTurn
    <2>6. ASSUME Ended PROVE Ended'
      BY <2>1, <2>2, <2>6 DEF Ended
    <2> QED
      BY <2>3, <2>4, <2>5, <2>6 DEF Finish
  <1> QED
    BY <1>1, <1>2, <1>3

LEMMA WholeNext ==
  ASSUME NFiles = 1, Whole, [Next]_vars
  PROVE  Whole' /\ (Finish => Finish')
  <1>0. Protocol /\ Protocol'
    BY ProtocolNext DEF Whole
  <1>1. CASE TaskNothing \/ TaskSocket \/ TaskPacket \/ TaskNoise
    <2>1. Heard /\ (Older \/ Stores) /\ task.pc = "select" /\ (first => EngineBlocked)
      BY <1>0, <1>1, Hears DEF TaskPacket, TaskNoise
    <2> QED
      BY <1>0, <2>1, SelectIs DEF Whole
  <1>2. CASE TaskLoop \/ TaskFull \/ TaskStore \/ TaskAck \/ TaskLast \/ TaskEnd
    BY <1>0, <1>2, TaskSteps DEF Whole
  <1>3. CASE \/ PluginInitWait \/ RecvEnter \/ RecvStatus \/ RecvWait \/ RecvPost
             \/ EngineWork \/ FinClose \/ FinDelete \/ PluginInitFails \/ FinNoMemory
    BY <1>0, <1>3, EngineSteps DEF Whole
  <1>4. CASE RecvCopy
    BY <1>0, <1>4, CopyStep DEF Whole
  <1>5. CASE PluginInit \/ FinFree \/ Tick \/ Server \/ ServerAgain \/ UNCHANGED vars
    BY <1>0, <1>5, OtherSteps DEF Whole
  <1> QED
    BY <1>1, <1>2, <1>3, <1>4, <1>5 DEF Next, Task, Engine

LEMMA WholeInit ==
  ASSUME Init
  PROVE  Whole /\ Finish
  <1>1. /\ task = NoTask /\ eng = [pc |-> "idle", file |-> 1, ret |-> "ok", n |-> 0,
                         more |-> FALSE, fin |-> FALSE]
        /\ got = [n |-> 0, good |-> TRUE]
    BY Zenon DEF Init
  <1>2. eng.pc = "idle" /\ ~ eng.fin /\ got.good /\ task.pc = "none" /\ ~ Reading
    BY <1>1 DEF NoTask, Reading
  <1> QED
    BY <1>2, ProtocolInit DEF Whole, Finish, Where, InTurn, Stream, Ended

\* StreamIntact, for a download of one file: what plugin_tftp_recv_data hands
\* out is the file from its start on, whatever the network loses, repeats and
\* reorders and whatever calls fail; with the engine's task first always, and
\* otherwise as long as the ring is not overrun.
THEOREM StreamIsIntact ==
  ASSUME NFiles = 1
  PROVE  Spec => []StreamIntact
  <1>1. Init => Whole
    BY WholeInit
  <1>2. Whole /\ [Next]_vars => Whole'
    BY WholeNext
  <1>3. Whole => StreamIntact
    BY DEF Whole, Stream, StreamIntact
  <1> QED
    BY <1>1, <1>2, <1>3, PTL DEF Spec

\* EndMeansEnd, for a download of one file in which no empty datagram arrives
\* (recvfrom returns 0 for one, and ota_tftp_recv takes that for the end): with
\* the engine's task first, a call of plugin_tftp_recv_data that returns
\* success and no data, and no error recorded, has handed out the whole file.
THEOREM EndIsEnd ==
  ASSUME NFiles = 1, "empty" \notin Noise
  PROVE  Spec => []EndMeansEnd
  <1>1. Init => Whole /\ Finish
    BY WholeInit
  <1>2. Whole /\ Finish /\ [Next]_vars => (Whole /\ Finish)'
    BY WholeNext
  <1>3. Whole /\ Finish => EndMeansEnd
    <2>1. SUFFICES ASSUME Whole, Ended, first, SaysEnd PROVE got.n = flen[eng.file]
      BY DEF Finish, EndMeansEnd
    <2>2. Reading
      BY <2>1 DEF SaysEnd, Whole, Where, Reading
    <2> QED
      BY <2>1, <2>2 DEF Ended, SaysEnd
  <1> QED
    BY <1>1, <1>2, <1>3, PTL DEF Spec
=============================================================================

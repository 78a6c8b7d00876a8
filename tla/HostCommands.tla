----------------------------- MODULE HostCommands -----------------------------
(***************************************************************************)
(* A ring from the host to the firmware (A2F) of                           *)
(* modules/core/hostif/ring_if_lib.  The elements the host has not used    *)
(* hold empty buffers; the host fills the buffer at the write index,       *)
(* moves the index and interrupts.  The firmware takes the packet with its *)
(* buffer and puts a new buffer into the ring.  Nothing is locked.  There  *)
(* are two such rings.  The control ring's thread (ringif_handle_tasks)    *)
(* takes one packet per notification, gives the element back and then      *)
(* looks for an element that needs a buffer.  The data ring's thread       *)
(* (qcspi_hfc_thread) takes all packets, replaces the buffer of each and   *)
(* only then gives its element back.  Its queue is shared with the ring to *)
(* the host, whose elements the same thread clears (HostEvents).           *)
(*                                                                         *)
(* The timer is shared: clearing a ring to the host may start it           *)
(* (HostEvents) at any time.                                               *)
(***************************************************************************)
EXTENDS Naturals, Sequences, FiniteSets

CONSTANTS
  Msg,        \* the packets
  Null,       \* an element without a buffer
  Bad,        \* ... but with the length of one
  Buf,        \* an element with an empty buffer
  N,          \* ring_num_elem
  QueueSize,  \* TOTAL_NUM_DATA_RING_ELEMS: callbacks qcspi_hfc_data_queue holds
  MaxFails    \* how often an allocation fails: memory is short for a while

ASSUME CommandsAssumption ==
  /\ N \in Nat /\ N >= 2 /\ QueueSize \in Nat \ {0} /\ MaxFails \in Nat
  /\ Null # Bad /\ Null # Buf /\ Bad # Buf /\ {Null, Bad, Buf} \cap Msg = {}

Index == 0 .. N - 1

VARIABLES
  ctrl,   \* the control ring
  wr,     \* write index, the host's
  rd,     \* read index
  slot,   \* the elements
  got,    \* the packet handed over last
  thr,    \* where the thread is
  note,   \* updates posted to it: of this ring or, for the data thread, the other
  irq,    \* an interrupt of the host is pending
  timer,  \* ringif_timer runs
  fails,  \* the allocations that have failed
  lost    \* history: the last update of this ring was dropped, with none waiting

vars == <<ctrl, wr, rd, slot, got, thr, note, irq, timer, fails, lost>>

\* create_config_rings, create_data_rings: ringif_a2f_refill_bufs gives every
\* element a buffer.
Init ==
  /\ ctrl \in BOOLEAN
  /\ wr = 0 /\ rd = 0
  /\ slot = [i \in Index |-> Buf] /\ got = Null
  /\ thr = "idle" /\ note = <<>> /\ irq = FALSE /\ timer = TRUE /\ fails = 0 /\ lost = FALSE

Succ(i) == (i + 1) % N
Full    == rd = Succ(wr)

-----------------------------------------------------------------------------
(* The host.                                                               *)

HostPut(m) ==
  /\ ~ Full /\ slot[wr] = Buf
  /\ slot' = [slot EXCEPT ![wr] = m]
  /\ wr' = Succ(wr)
  /\ irq' = TRUE
  /\ UNCHANGED <<ctrl, rd, got, thr, note, timer, fails, lost>>

\* It has read an event.
HostInterrupts ==
  /\ irq' = TRUE
  /\ UNCHANGED <<ctrl, wr, rd, slot, got, thr, note, timer, fails, lost>>

-----------------------------------------------------------------------------
(* Tickling (ringif_tickle_all_rings, ringif_tickle_a2f_ring).             *)

\* The control ring's thread is sent a bit, the other one a callback; a full
\* queue drops it.  This ring comes first, then, if it has elements to clear,
\* the one to the host.
Limit      == IF ctrl THEN 1 ELSE QueueSize
Post(q, u) == IF Len(q) < Limit THEN Append(q, u) ELSE q
Posted ==
  LET q == IF rd # wr THEN Post(note, "a2f") ELSE note
  IN  {q} \cup (IF ctrl THEN {} ELSE {Post(q, "f2a")})
Dropped == rd # wr /\ Len(note) >= Limit /\ \A k \in DOMAIN note : note[k] # "a2f"

Tickle == timer' = FALSE /\ note' \in Posted /\ lost' = Dropped

\* ringif_apps_ring_update_isr.
Isr ==
  /\ irq /\ irq' = FALSE /\ Tickle
  /\ UNCHANGED <<ctrl, wr, rd, slot, got, thr, fails>>

\* ringif_handle_timer.
TimerFires ==
  /\ timer /\ Tickle
  /\ UNCHANGED <<ctrl, wr, rd, slot, got, thr, irq, fails>>

TimerStarted ==
  /\ ~ timer /\ timer' = TRUE
  /\ UNCHANGED <<ctrl, wr, rd, slot, got, thr, note, irq, fails, lost>>

-----------------------------------------------------------------------------
(* The control ring (process_ctrl_a2f_ring_update).                        *)

\* The notification is consumed, the first packet handed over, to functions that
\* never refuse it in the builds with the HFC data path.
CtrlTake ==
  /\ ctrl /\ thr = "idle" /\ note # <<>>
  /\ note' = <<>>
  /\ IF rd = wr THEN UNCHANGED <<got, thr>> ELSE got' = slot[rd] /\ thr' = "mark"
  /\ UNCHANGED <<ctrl, wr, rd, slot, irq, timer, fails, lost>>

\* ringif_a2f_mark_as_read.
CtrlMark ==
  /\ thr = "mark"
  /\ slot' = [slot EXCEPT ![rd] = Null]
  /\ rd' = Succ(rd)
  /\ thr' = "fill"
  /\ UNCHANGED <<ctrl, wr, got, note, irq, timer, fails, lost>>

\* ringif_a2f_get_next_empty_elem: the first element without a buffer among
\* those the host may fill, from the write index on.
Distance(i) == (i + N - wr) % N
Missing == {i \in Index : slot[i] \in {Null, Bad}}
NextEmpty ==
  {i \in Missing : \A j \in Missing : Distance(i) <= Distance(j)}

\* ringif_a2f_refill_next_empty_elem, ringif_refill_ctrl_elem.  A full ring is
\* left alone, though the element just given back has no buffer.  A failed
\* allocation has set the length already, and an element with a length is
\* refused from then on.
Refilled(b) == \E i \in NextEmpty :
  slot' = IF slot[i] = Null THEN [slot EXCEPT ![i] = b] ELSE slot

CtrlFill ==
  /\ thr = "fill"
  /\ IF Full THEN UNCHANGED slot ELSE Refilled(Buf)
  /\ thr' = "idle"
  /\ UNCHANGED <<ctrl, wr, rd, got, note, irq, timer, fails, lost>>

CtrlFillFails ==
  /\ thr = "fill" /\ fails < MaxFails /\ ~ Full /\ \E i \in NextEmpty : slot[i] = Null
  /\ fails' = fails + 1
  /\ Refilled(Bad)
  /\ thr' = "idle"
  /\ UNCHANGED <<ctrl, wr, rd, got, note, irq, timer, lost>>

-----------------------------------------------------------------------------
(* The data ring (ringif_a2f_process_pkts).                                *)

DataStart ==
  /\ ~ ctrl /\ thr = "idle" /\ note # <<>> /\ Head(note) = "a2f"
  /\ note' = Tail(note)
  /\ IF rd = wr THEN UNCHANGED <<thr, timer>> ELSE thr' = "next" /\ timer' = FALSE
  /\ UNCHANGED <<ctrl, wr, rd, slot, got, irq, fails, lost>>

\* handle_f2a_hfc_data_ring_update: what it does to the other ring is in
\* HostEvents, that it may start the timer in TimerStarted.
DataOther ==
  /\ ~ ctrl /\ thr = "idle" /\ note # <<>> /\ Head(note) = "f2a"
  /\ note' = Tail(note)
  /\ UNCHANGED <<ctrl, wr, rd, slot, got, thr, irq, timer, fails, lost>>

\* process_hfc_data_pkt gets the packet, unless it has it already.  The write
\* index is read again for every packet.
DataNext ==
  /\ thr = "next"
  /\ thr' = IF rd = wr THEN "idle" ELSE "replace"
  /\ got' = IF rd # wr /\ slot[rd] # Null THEN slot[rd] ELSE got
  /\ UNCHANGED <<ctrl, wr, rd, slot, note, irq, timer, fails, lost>>

\* data_svc_get_hfc_data_buff.
DataReplace ==
  /\ thr = "replace"
  /\ slot' = [slot EXCEPT ![rd] = Buf]
  /\ rd' = Succ(rd)
  /\ thr' = "next"
  /\ UNCHANGED <<ctrl, wr, got, note, irq, timer, fails, lost>>

\* Without memory the element loses the packet and is kept; the timer is to
\* remind.  (With CONFIG_QCSPI_HFC_ETH_ENABLE, which is off by default, the
\* caller clears the element.)
\* Mutants: the packet stays; the element is given back; nobody reminds.
KeptPacket  == UNCHANGED <<slot, rd>> /\ timer' = TRUE
KeptNothing == slot' = [slot EXCEPT ![rd] = Null] /\ rd' = Succ(rd) /\ timer' = TRUE
KeptQuiet   == slot' = [slot EXCEPT ![rd] = Null] /\ UNCHANGED <<rd, timer>>

Kept == slot' = [slot EXCEPT ![rd] = Null] /\ UNCHANGED rd /\ timer' = TRUE

DataReplaceFails ==
  /\ thr = "replace" /\ fails < MaxFails
  /\ fails' = fails + 1
  /\ Kept
  /\ thr' = "idle"
  /\ UNCHANGED <<ctrl, wr, got, note, irq, lost>>

-----------------------------------------------------------------------------
Ctrl == CtrlTake \/ CtrlMark \/ CtrlFill \/ CtrlFillFails
Data == DataStart \/ DataOther \/ DataNext \/ DataReplace \/ DataReplaceFails

Next ==
  \/ \E m \in Msg : HostPut(m)
  \/ HostInterrupts \/ Isr \/ TimerFires \/ TimerStarted \/ Ctrl \/ Data

Spec == Init /\ [][Next]_vars

\* The threads run, interrupts are taken, timers expire.
FairSpec ==
  Spec /\ WF_vars(Ctrl) /\ WF_vars(Data) /\ WF_vars(Isr) /\ WF_vars(TimerFires)

-----------------------------------------------------------------------------
(* Properties.                                                             *)

\* What the queue may hold.
Notes == {q \in Seq({"a2f", "f2a"}) : Len(q) <= QueueSize}

\* The values of the variables.
TypeOK ==
  /\ ctrl \in BOOLEAN /\ irq \in BOOLEAN /\ timer \in BOOLEAN
  /\ wr \in Index /\ rd \in Index
  /\ slot \in [Index -> Msg \cup {Null, Bad, Buf}] /\ got \in Msg \cup {Null}
  /\ thr \in {"idle", "mark", "fill", "next", "replace"}
  /\ note \in Notes /\ fails \in 0 .. MaxFails /\ lost \in BOOLEAN

Between(a, b) == {i \in Index : IF a <= b THEN a <= i /\ i < b ELSE a <= i \/ i < b}
Unread == Between(rd, wr)

\* Every element the host may fill has a buffer.  The data ring's thread sees
\* to it whatever fails.  The control ring gives elements back first: unless an
\* allocation fails, two of them are without a buffer at most, one that a full
\* ring kept it from replacing and the one just given back.
BuffersKept ==
  /\ ~ ctrl => \A i \in Index \ Unread : slot[i] = Buf
  /\ ctrl /\ fails = 0 => Cardinality(Missing) <= IF thr = "fill" THEN 2 ELSE 1

\* "If posting successful, detaches from the ring, updates read index, refills
\* another buffer." (process_ctrl_a2f_ring_update): a failed allocation costs
\* the ring one buffer.
LosesOnePerFailure ==
  ctrl => Cardinality(Missing) <= fails + IF thr = "fill" THEN 2 ELSE 1

\* The ring is a channel: every packet of the host is handed over, once, in
\* order, although the data ring keeps an element it cannot give a buffer.
Taken == rd # wr /\ (thr \in {"mark", "replace"} \/ slot[rd] = Null)
First == IF Taken THEN Succ(rd) ELSE rd
Count == IF First <= wr THEN wr - First ELSE wr + N - First
Place(k) == IF First + k <= N THEN First + k - 1 ELSE First + k - 1 - N
Channel == INSTANCE HostChannel
  WITH Cap <- N - 1, None <- Null, last <- got, chan <- [k \in 1 .. Count |-> slot[Place(k)]]
IsChannel == Channel!Spec

\* "Process any pending packets in the rings" (ringif_resume_all_rings): the
\* first packet is taken in the end.  The data ring needs one interrupt for all
\* packets, or its timer, unless a queue full of the other ring's updates drops
\* its own; the control ring needs one for each.  Whatever was dropped, a host
\* that goes on interrupting is served.
ServedIn(c) == \A i \in Index : (ctrl = c /\ rd = i /\ wr # i) ~> rd # i
ServedUnlessLost == \A i \in Index : (~ ctrl /\ rd = i /\ wr # i) ~> (rd # i \/ lost)
Served == ServedUnlessLost /\ (([]<> irq) => ServedIn(FALSE) /\ ServedIn(TRUE))
\* ... also when the host waits for the answer: of neither ring is it true.
ServedData == ServedIn(FALSE)
ServedCtrl == ServedIn(TRUE)
=============================================================================

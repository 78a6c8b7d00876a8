------------------------------ MODULE HostEvents ------------------------------
(***************************************************************************)
(* A ring from the firmware to the host (F2A) of                           *)
(* modules/core/hostif/ring_if_lib: ringif_f2a_pkt_attach puts a packet    *)
(* into the ring, the host reads it and moves the read index, and          *)
(* ringif_f2a_clear_used_bufs frees what the host has read.  Nothing is    *)
(* locked.  There are two such rings.  Events of the control ring are      *)
(* attached by the thread that also clears it (ringif_handle_tasks);       *)
(* packets of the data ring are attached by the thread that sends them     *)
(* (data_svc_hfc_send_data_pkt) while qcspi_hfc_thread clears.  The        *)
(* application lets one thread send at a time.                             *)
(*                                                                         *)
(* An index update by the host comes with an interrupt; the host also      *)
(* interrupts for its commands, and handling those stops the timer the     *)
(* rings share (HostCommands): both may happen here at any time.           *)
(***************************************************************************)
EXTENDS Naturals, Sequences

CONSTANTS
  Msg,        \* the packets
  Null,       \* an element without a buffer
  N,          \* ring_num_elem
  QueueSize   \* TOTAL_NUM_DATA_RING_ELEMS: callbacks qcspi_hfc_data_queue holds

ASSUME EventsAssumption ==
  N \in Nat /\ N >= 2 /\ Null \notin Msg /\ QueueSize \in Nat \ {0}

Index == 0 .. N - 1

VARIABLES
  own,    \* the control ring: the clearing thread attaches
  wr,     \* write index
  rd,     \* read index, the host's
  clr,    \* ring_idx_to_clear
  pend,   \* ring_idx_clear_pending
  slot,   \* the elements
  last,   \* what the host read last
  snd,    \* where the attaching thread is
  thr,    \* where the clearing thread is
  lrd,    \* ... and its read_idx
  lwr,    \* ... and its write_idx
  idx,    \* ... and its idx
  note,   \* updates posted to it
  irq,    \* an interrupt of the host is pending
  timer   \* ringif_timer runs

ring == <<wr, rd, clr, pend, slot, last>>
vars == <<own, ring, snd, thr, lrd, lwr, idx, note, irq, timer>>

Init ==
  /\ own \in BOOLEAN
  /\ wr = 0 /\ rd = 0 /\ clr = 0 /\ pend = FALSE
  /\ slot = [i \in Index |-> Null] /\ last = Null
  /\ snd = "idle" /\ thr = "idle" /\ lrd = 0 /\ lwr = 0 /\ idx = 0
  /\ note = 0 /\ irq = FALSE /\ timer = TRUE

\* The element after i, and the one before it.
Succ(i) == (i + 1) % N
Pred(i) == IF i = 0 THEN N - 1 ELSE i - 1

\* ringif_ring_full: one element is always left out.
\* Mutant: it is not.
FullNever == FALSE

Full == rd = Succ(wr)

-----------------------------------------------------------------------------
(* Attaching (ringif_f2a_pkt_attach).                                      *)

\* An element that has not been cleared yet is not used again.  Without room
\* the packet is dropped or tried again later.
Fill(m) ==
  /\ snd = "idle" /\ (own => thr = "idle")
  /\ ~ Full /\ slot[wr] = Null
  /\ slot' = [slot EXCEPT ![wr] = m]
  /\ snd' = "publish"
  /\ UNCHANGED <<own, wr, rd, clr, pend, last, thr, lrd, lwr, idx, note, irq, timer>>

Publish ==
  /\ snd = "publish"
  /\ wr' = Succ(wr)
  /\ snd' = "pend"
  /\ UNCHANGED <<own, rd, clr, pend, slot, last, thr, lrd, lwr, idx, note, irq, timer>>

SetPending ==
  /\ snd = "pend"
  /\ pend' = TRUE
  /\ snd' = "idle"
  /\ UNCHANGED <<own, wr, rd, clr, slot, last, thr, lrd, lwr, idx, note, irq, timer>>

-----------------------------------------------------------------------------
(* The host.                                                               *)

HostTake ==
  /\ rd # wr
  /\ last' = slot[rd]
  /\ rd' = Succ(rd)
  /\ irq' = TRUE
  /\ UNCHANGED <<own, wr, clr, pend, slot, snd, thr, lrd, lwr, idx, note, timer>>

\* It has a command.
HostInterrupts ==
  /\ irq' = TRUE
  /\ UNCHANGED <<own, ring, snd, thr, lrd, lwr, idx, note, timer>>

-----------------------------------------------------------------------------
(* Tickling (ringif_tickle_all_rings, ringif_tickle_f2a_ring).             *)

\* ringif_f2a_num_elems_to_clear is not 0.  If the read index is where the
\* clearing stopped, nothing is to be cleared or everything.
\* Mutant: it is nothing.
SomeToClearNone == rd # clr

SomeToClear == rd # clr \/ (wr = rd /\ pend)

\* The control ring's thread is sent a bit, the other one a callback; a full
\* queue drops it.
Tickle ==
  /\ timer' = FALSE
  /\ note' = IF SomeToClear /\ note < (IF own THEN 1 ELSE QueueSize) THEN note + 1 ELSE note

\* ringif_apps_ring_update_isr.
Isr ==
  /\ irq /\ irq' = FALSE
  /\ Tickle
  /\ UNCHANGED <<own, ring, snd, thr, lrd, lwr, idx>>

\* ringif_handle_timer.
TimerFires ==
  /\ timer
  /\ Tickle
  /\ UNCHANGED <<own, ring, snd, thr, lrd, lwr, idx, irq>>

\* ringif_a2f_process_pkts, which handles the host's packets, stops the timer.
TimerStopped ==
  /\ timer /\ timer' = FALSE
  /\ UNCHANGED <<own, ring, snd, thr, lrd, lwr, idx, note, irq>>

-----------------------------------------------------------------------------
(* Clearing (ringif_f2a_clear_used_bufs).                                  *)

ClearStart ==
  /\ thr = "idle" /\ note > 0 /\ (own => snd = "idle")
  /\ note' = note - 1
  /\ lrd' = rd
  /\ thr' = "look"
  /\ UNCHANGED <<own, ring, snd, lwr, idx, irq, timer>>

ClearLook ==
  /\ thr = "look"
  /\ lwr' = wr
  /\ thr' = "check"
  /\ UNCHANGED <<own, ring, snd, lrd, idx, note, irq, timer>>

\* ringif_ring_buf_full looks at the element to clear and the one before it.
\* Mutant: at the element to clear only.
BufFullOne == slot[clr] # Null

BufFull == slot[clr] # Null /\ slot[Pred(clr)] # Null

ClearCheck ==
  /\ thr = "check"
  /\ IF clr = lrd /\ (lwr # lrd \/ ~ BufFull)
     THEN thr' = "idle" /\ UNCHANGED idx
     ELSE thr' = "clear" /\ idx' = clr
  /\ UNCHANGED <<own, ring, snd, lrd, lwr, note, irq, timer>>

ClearOne ==
  /\ thr = "clear"
  /\ IF slot[idx] # Null
     THEN slot' = [slot EXCEPT ![idx] = Null] /\ idx' = Succ(idx) /\ thr' = "again"
     ELSE thr' = "end" /\ UNCHANGED <<slot, idx>>
  /\ UNCHANGED <<own, wr, rd, clr, pend, last, snd, lrd, lwr, note, irq, timer>>

\* The read index is read again after every element.
ClearAgain ==
  /\ thr = "again"
  /\ thr' = IF idx = rd THEN "end" ELSE "clear"
  /\ UNCHANGED <<own, ring, snd, lrd, lwr, idx, note, irq, timer>>

ClearEnd ==
  /\ thr = "end"
  /\ clr' = idx
  /\ thr' = "empty"
  /\ UNCHANGED <<own, wr, rd, pend, slot, last, snd, lrd, lwr, idx, note, irq, timer>>

\* Packets the host has not read: the timer is to remind.
ClearEmpty ==
  /\ thr = "empty"
  /\ IF rd # wr THEN timer' = TRUE /\ thr' = "idle"
                ELSE thr' = "done" /\ UNCHANGED timer
  /\ UNCHANGED <<own, ring, snd, lrd, lwr, idx, note, irq>>

ClearDone ==
  /\ thr = "done"
  /\ pend' = FALSE
  /\ thr' = "idle"
  /\ UNCHANGED <<own, wr, rd, clr, slot, last, snd, lrd, lwr, idx, note, irq, timer>>

-----------------------------------------------------------------------------
Attach == Publish \/ SetPending
Clear  == ClearStart \/ ClearLook \/ ClearCheck \/ ClearOne \/ ClearAgain
          \/ ClearEnd \/ ClearEmpty \/ ClearDone

Next ==
  \/ \E m \in Msg : Fill(m)
  \/ Attach \/ HostTake \/ HostInterrupts \/ Isr \/ TimerFires \/ TimerStopped \/ Clear

Spec == Init /\ [][Next]_vars

\* The threads run, the interrupt is taken; the host reads its events and has
\* a command now and then.
FairSpec ==
  /\ Spec
  /\ WF_vars(Attach) /\ WF_vars(Clear) /\ WF_vars(Isr) /\ WF_vars(HostTake)
  /\ WF_vars(HostInterrupts)

-----------------------------------------------------------------------------
(* Properties.                                                             *)

\* The values of the variables.
TypeOK ==
  /\ own \in BOOLEAN /\ pend \in BOOLEAN /\ irq \in BOOLEAN /\ timer \in BOOLEAN
  /\ wr \in Index /\ rd \in Index /\ clr \in Index /\ lrd \in Index /\ lwr \in Index /\ idx \in Index
  /\ slot \in [Index -> Msg \cup {Null}] /\ last \in Msg \cup {Null}
  /\ snd \in {"idle", "publish", "pend"}
  /\ thr \in {"idle", "look", "check", "clear", "again", "end", "empty", "done"}
  /\ note \in 0 .. QueueSize

\* The elements the host may read.
Between(a, b) == {i \in Index : IF a <= b THEN a <= i /\ i < b ELSE a <= i \/ i < b}
Unread == Between(rd, wr)

\* An element the host may still read has its buffer: clearing stops in time,
\* whatever the host and the sender do between its steps.
UnreadKept == \A i \in Unread : slot[i] # Null

\* The ring is a channel: the host gets every packet attached, once, in order.
Count == IF rd <= wr THEN wr - rd ELSE wr + N - rd
Place(k) == IF rd + k - 1 < N THEN rd + k - 1 ELSE rd + k - 1 - N
Channel == INSTANCE HostChannel
  WITH Cap <- N - 1, None <- Null, chan <- [k \in 1 .. Count |-> slot[Place(k)]]
IsChannel == Channel!Spec

\* "Call registered free function for all read-packets of an F2A ring"
\* (ringif_f2a_clear_used_bufs): an element the next packet needs is free in
\* the end.
Jams(o) == (own \in o /\ slot[wr] # Null) ~> (slot[wr] = Null)
\* ... of the control ring.
NeverJams == Jams({TRUE})
\* ... of either ring.
NeverJamsAny == Jams(BOOLEAN)
=============================================================================

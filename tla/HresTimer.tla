------------------------------- MODULE HresTimer -------------------------------
(***************************************************************************)
(* The high resolution timers of modules/hal/qcc730/qtmr/timer.c: a pool   *)
(* of software timers on one hardware comparator.  Armed timers are in a   *)
(* list sorted by expiry; the comparator is programmed for the first one.  *)
(* Its interrupt switches the comparator off and notifies the timer task,  *)
(* which posts a message to the queue of the timer's owner for each timer  *)
(* that has expired, and programs the comparator again.  One mutex guards  *)
(* all of it, but the task gives it back while it posts.  The owner's task *)
(* calls the callbacks from hres_timer_handler.                            *)
(*                                                                         *)
(* The build is the one of fwconfig_QCP7321.h and fwconfig_QCP5321.h:      *)
(* QTMR_DRV, where only a new comparator value switches it on, and no      *)
(* SUPPORT_ROOTCLK_DISABLE.  A tick of the 38.4 MHz counter is shorter     *)
(* than any of the calls, so durations are not zero here.                  *)
(***************************************************************************)
EXTENDS Naturals, Sequences, SequencesExt, FiniteSetsExt

CONSTANTS
  HandleNum, \* the application's handles (timer_type variables) 1 .. HandleNum
  Nodes,     \* timers_max: timers 1 .. Nodes
  Durations, \* of timers that are not periodic, in ticks
  Periods,   \* of periodic timers
  QLen,      \* length of the owner's timer_queue
  MaxTime,   \* bound of the counter
  MaxCalls   \* bound of the application's calls

ASSUME HresTimerAssumption ==
  /\ Nodes \in Nat /\ HandleNum \in 0 .. Nodes
  /\ QLen \in Nat \ {0} /\ MaxTime \in Nat /\ MaxCalls \in Nat
  /\ Durations \cup Periods \subseteq Nat \ {0}

Handles == 1 .. HandleNum

VARIABLES
  now,       \* the counter
  node,      \* ptr_timer_buffer
  handle,    \* the handles' values, 0 for TIMER_INVALID_HANDLE
  active,    \* timers.active
  match,     \* timers.match_value, also the comparator's value
  on,        \* the comparator is enabled
  reprogram, \* timers.do_reprogram_isr
  notified,  \* TIMER_EVENT_EXPIRY_FROM_ISR is set for the timer task
  tt,        \* the timer task: where it is, ticks_now and timer_msg while in use
  setting,   \* the timer that the owner's timer_set is about to insert, or 0
  queue,     \* timer_queue
  evt,       \* the owner's task is notified
  drain,     \* the owner is in hres_timer_handler
  asleep,    \* between hres_timer_pre_sleep and waking up
  calls      \* calls so far; numbers the armings

sw   == <<node, handle, active>>
hw   == <<match, on>>
own  == <<queue, evt, drain>>
vars == <<now, sw, hw, reprogram, notified, tt, setting, own, asleep, calls>>

\* timer_internal_type; gen tells the armings apart.
Free == [ext |-> 0, st |-> "free", dur |-> 0, exp |-> 0, reload |-> FALSE, gen |-> 0]
\* A timer that is not armed; its times do not matter any more.
Idle(t, st) == [t EXCEPT !.st = st, !.dur = 0, !.exp = 0, !.reload = FALSE]
NoMsg == [gen |-> 0, reload |-> FALSE]

\* hres_timer_init, and the application has defined its timers.
Init ==
  /\ now = 0
  /\ node = [n \in 1 .. Nodes |->
               IF n \in Handles THEN [Free EXCEPT !.ext = n, !.st = "def"] ELSE Free]
  /\ handle = [h \in Handles |-> h]
  /\ active = <<>>
  /\ match = 0 /\ on = FALSE
  /\ reprogram = TRUE /\ notified = FALSE
  /\ tt = [pc |-> "wait", ticks |-> 0, msg |-> NoMsg]
  /\ setting = 0
  /\ queue = <<>> /\ evt = FALSE /\ drain = FALSE
  /\ asleep = FALSE /\ calls = 0

-----------------------------------------------------------------------------
(* The list and the comparator.                                            *)

\* timer_remove
Without(n) ==
  LET at == {k \in 1 .. Len(active) : active[k] = n}
  IN  IF at = {} THEN active ELSE RemoveAt(active, Min(at))

\* timer_insert: behind the timers that do not expire later.
Inserted(list, nd, n) ==
  LET ahead == {k \in 0 .. Len(list) : \A j \in 1 .. k : nd[list[j]].exp <= nd[n].exp}
  IN  InsertAt(list, Max(ahead) + 1, n)

\* timer_set_next_interrupt
SetNextInterrupt(v) ==
  IF v = match THEN UNCHANGED hw ELSE match' = v /\ on' = TRUE

Processing == tt.pc \notin {"wait", "take"}

\* timer_update_timer_interrupt; it runs after the list has changed.
\* Mutant: an earlier interrupt is taken to do as well.
UpdateInterruptLazy ==
  IF \/ ~ reprogram \/ Processing \/ active' = <<>>
     \/ match > 0 /\ node'[Head(active')].exp >= match
    THEN UNCHANGED hw
    ELSE SetNextInterrupt(Max({node'[Head(active')].exp, now}))
UpdateInterrupt ==
  IF ~ reprogram \/ Processing \/ active' = <<>> \/ node'[Head(active')].exp = match
    THEN UNCHANGED hw
    ELSE SetNextInterrupt(Max({node'[Head(active')].exp, now}))

-----------------------------------------------------------------------------
(* The application's calls.  A call holds the mutex; all but timer_set are *)
(* one step.  Calls with a handle that is not defined are left out.        *)

MutexFree == tt.pc # "loop" /\ setting = 0

Call ==
  /\ ~ asleep /\ MutexFree /\ calls < MaxCalls
  /\ calls' = calls + 1

\* timer_get_new_client_timer asserts that there is one.
FreeNodes == {n \in 1 .. Nodes : node[n].st = "free"}

\* hres_timer_def: the first free timer, also for a handle that already has
\* one.
Def(h) ==
  /\ Call
  /\ FreeNodes # {}
  /\ node' = [node EXCEPT ![Min(FreeNodes)] = [Free EXCEPT !.ext = h, !.st = "def"]]
  /\ handle' = [handle EXCEPT ![h] = Min(FreeNodes)]
  /\ UNCHANGED <<now, active, hw, reprogram, notified, tt, setting, own, asleep>>

\* timer_set by the timer's own task, up to the computation of the expiry ...
SetStart(h, d, r) ==
  /\ Call
  /\ handle[h] # 0
  /\ active' = Without(handle[h])
  /\ node' = [node EXCEPT ![handle[h]] = [@ EXCEPT !.st = "set", !.dur = d,
                !.exp = now + d, !.reload = r, !.gen = calls + 1]]
  /\ setting' = handle[h]
  /\ UNCHANGED <<now, handle, hw, reprogram, notified, tt, own, asleep>>

\* ... and from the insertion to the end.
SetInsert ==
  /\ ~ asleep /\ setting # 0
  /\ active' = Inserted(active, node, setting)
  /\ setting' = 0
  /\ node' = node
  /\ UpdateInterrupt
  /\ UNCHANGED <<now, handle, reprogram, notified, tt, own, asleep, calls>>

\* timer_set by another task is refused after the timer has been removed.
SetElsewhere(h) ==
  /\ Call
  /\ handle[h] # 0
  /\ active' = Without(handle[h])
  /\ node' = [node EXCEPT ![handle[h]] = Idle(@, "set")]
  /\ UNCHANGED <<now, handle, hw, reprogram, notified, tt, setting, own, asleep>>

\* hres_timer_stop of an armed timer; it changes nothing for another.
Stop(h) ==
  /\ Call
  /\ handle[h] \in ToSet(active)
  /\ active' = Without(handle[h])
  /\ node' = [node EXCEPT ![handle[h]] = Idle(@, "cleared")]
  /\ UpdateInterrupt
  /\ UNCHANGED <<now, handle, reprogram, notified, tt, setting, own, asleep>>

\* hres_timer_undef
\* Mutant: the timer is only removed while none is being processed.
UndefKeeps(h) ==
  /\ Call
  /\ handle[h] # 0
  /\ active' = IF Processing THEN active ELSE Without(handle[h])
  /\ node' = [node EXCEPT ![handle[h]] = Free]
  /\ IF handle[h] \in ToSet(active) THEN UpdateInterrupt ELSE UNCHANGED hw
  /\ handle' = [handle EXCEPT ![h] = 0]
  /\ UNCHANGED <<now, reprogram, notified, tt, setting, own, asleep>>
Undef(h) ==
  /\ Call
  /\ handle[h] # 0
  /\ active' = Without(handle[h])
  /\ node' = [node EXCEPT ![handle[h]] = Free]
  /\ IF handle[h] \in ToSet(active) THEN UpdateInterrupt ELSE UNCHANGED hw
  /\ handle' = [handle EXCEPT ![h] = 0]
  /\ UNCHANGED <<now, reprogram, notified, tt, setting, own, asleep>>

-----------------------------------------------------------------------------
(* The interrupt and the timer task.                                       *)

\* qtmr_frame_irq, hres_qtmr_callback
Irq ==
  /\ ~ asleep /\ on /\ now >= match
  /\ on' = FALSE /\ notified' = TRUE
  /\ UNCHANGED <<now, sw, match, reprogram, tt, setting, own, asleep, calls>>

\* timer_task
TaskWake ==
  /\ ~ asleep /\ tt.pc = "wait" /\ notified
  /\ tt' = [tt EXCEPT !.pc = "take"]
  /\ notified' = FALSE
  /\ UNCHANGED <<now, sw, hw, reprogram, setting, own, asleep, calls>>

\* timer_process_active_timers takes the mutex, first and after each message.
TaskTake ==
  /\ ~ asleep /\ tt.pc \in {"take", "retake"} /\ setting = 0
  /\ tt' = [tt EXCEPT !.pc = "loop", !.ticks = now]
  /\ UNCHANGED <<now, sw, hw, reprogram, notified, setting, own, asleep, calls>>

Due == active # <<>> /\ node[Head(active)].exp <= tt.ticks

\* The next expiry of a periodic timer: at least one period on, and after
\* ticks_now.  The counter does not wrap.
\* Mutant: rounded down.
NextExpiryDown(t) ==
  LET late == tt.ticks - t.exp IN
  IF t.exp + t.dur <= tt.ticks THEN t.exp + late - (late % t.dur) ELSE t.exp + t.dur
NextExpiry(t) ==
  LET late == tt.ticks - t.exp IN
  IF t.exp + t.dur <= tt.ticks THEN t.exp + late + (t.dur - (late % t.dur)) ELSE t.exp + t.dur

\* The loop's body up to timer_expire, which gives the mutex back.
\* Mutant: a timer that is not periodic leaves the list when its message has
\* been posted.
TaskExpireKeeps ==
  /\ ~ asleep /\ tt.pc = "loop" /\ Due
  /\ LET n == Head(active)
         t == node[n] IN
     /\ IF t.st = "expired"
          THEN active' = Tail(active) /\ node' = node
          ELSE IF t.reload
            THEN /\ node' = [node EXCEPT ![n].exp = NextExpiry(t)]
                 /\ active' = Inserted(Tail(active), node', n)
            ELSE node' = [node EXCEPT ![n].st = "expired"] /\ active' = active
     /\ tt' = IF t.st = "set"
                THEN [pc |-> "send", ticks |-> 0,
                      msg |-> [gen |-> t.gen, reload |-> t.reload]]
                ELSE [tt EXCEPT !.ticks = now]
  /\ UNCHANGED <<now, handle, hw, reprogram, notified, setting, own, asleep, calls>>
TaskExpire ==
  /\ ~ asleep /\ tt.pc = "loop" /\ Due
  /\ LET n == Head(active)
         t == node[n] IN
     /\ IF t.reload
          THEN /\ node' = [node EXCEPT ![n] = [@ EXCEPT !.exp = NextExpiry(t), !.st = "set"]]
               /\ active' = Inserted(Tail(active), node', n)
          ELSE /\ node' = [node EXCEPT ![n] = Idle(@, IF @.st = "set" THEN "expired" ELSE @.st)]
               /\ active' = Tail(active)
     /\ tt' = IF t.st = "set"
                THEN [pc |-> "send", ticks |-> 0,
                      msg |-> [gen |-> t.gen, reload |-> t.reload]]
                ELSE [tt EXCEPT !.ticks = now]
  /\ UNCHANGED <<now, handle, hw, reprogram, notified, setting, own, asleep, calls>>

\* xQueueSend waits for room, for at most MAX_QUEUE_WAIT.
Room == Len(queue) < QLen

TaskSend ==
  /\ ~ asleep /\ tt.pc = "send"
  /\ Room
  /\ queue' = Append(queue, tt.msg)
  /\ tt' = [tt EXCEPT !.pc = "notify", !.msg = NoMsg]
  /\ UNCHANGED <<now, sw, hw, reprogram, notified, setting, evt, drain, asleep, calls>>

TaskSendTimeout ==
  /\ ~ asleep /\ tt.pc = "send"
  /\ ~ Room
  /\ tt' = [tt EXCEPT !.pc = "notify", !.msg = NoMsg]
  /\ UNCHANGED <<now, sw, hw, reprogram, notified, setting, own, asleep, calls>>

TaskNotify ==
  /\ ~ asleep /\ tt.pc = "notify"
  /\ evt' = TRUE
  /\ tt' = [tt EXCEPT !.pc = "retake"]
  /\ UNCHANGED <<now, sw, hw, reprogram, notified, setting, queue, drain, asleep, calls>>

\* Mutant: it leaves the comparator to timer_update_timer_interrupt.
TaskEndUpdates ==
  /\ ~ asleep /\ tt.pc = "loop" /\ ~ Due
  /\ UNCHANGED sw
  /\ UpdateInterrupt
  /\ tt' = [tt EXCEPT !.pc = "wait", !.ticks = 0]
  /\ UNCHANGED <<now, reprogram, notified, setting, own, asleep, calls>>
TaskEnd ==
  /\ ~ asleep /\ tt.pc = "loop" /\ ~ Due
  /\ IF active = <<>> THEN UNCHANGED hw ELSE SetNextInterrupt(node[Head(active)].exp)
  /\ tt' = [tt EXCEPT !.pc = "wait", !.ticks = 0]
  /\ UNCHANGED <<now, sw, reprogram, notified, setting, own, asleep, calls>>

-----------------------------------------------------------------------------
(* The owner's task: xTaskNotifyWait, then hres_timer_handler, from whose  *)
(* callbacks it may call too.                                              *)

OwnerWake ==
  /\ ~ asleep /\ setting = 0 /\ evt /\ ~ drain
  /\ evt' = FALSE /\ drain' = TRUE
  /\ UNCHANGED <<now, sw, hw, reprogram, notified, tt, setting, queue, asleep, calls>>

\* Mutant: one message for each notification.
OwnerHandleOne ==
  /\ ~ asleep /\ setting = 0 /\ drain
  /\ queue' = IF queue = <<>> THEN <<>> ELSE Tail(queue)
  /\ drain' = FALSE
  /\ UNCHANGED <<now, sw, hw, reprogram, notified, tt, setting, evt, asleep, calls>>
OwnerHandle ==
  /\ ~ asleep /\ setting = 0 /\ drain
  /\ IF queue = <<>> THEN drain' = FALSE /\ UNCHANGED queue
                     ELSE queue' = Tail(queue) /\ UNCHANGED drain
  /\ UNCHANGED <<now, sw, hw, reprogram, notified, tt, setting, evt, asleep, calls>>

-----------------------------------------------------------------------------
(* Time and sleep.  The idle task goes to sleep when no other can run.     *)

Tick ==
  /\ now < MaxTime
  /\ now' = now + 1
  /\ UNCHANGED <<sw, hw, reprogram, notified, tt, setting, own, asleep, calls>>

\* hres_timer_pre_sleep
PreSleep ==
  /\ ~ asleep /\ tt.pc = "wait" /\ ~ notified /\ ~ (on /\ now >= match)
  /\ setting = 0 /\ ~ evt /\ ~ drain
  /\ asleep' = TRUE
  /\ reprogram' = (reprogram /\ active # <<>> /\ node[Head(active)].exp < now)
  /\ UNCHANGED <<now, sw, hw, notified, tt, setting, own, calls>>

\* hres_timer_post_sleep, which is not called after clock gating.
WakeUp ==
  /\ asleep /\ asleep' = FALSE
  /\ notified' \in {notified, TRUE}
  /\ UNCHANGED <<now, sw, hw, reprogram, tt, setting, own, calls>>

-----------------------------------------------------------------------------
Calls ==
  \E h \in Handles :
    \/ Def(h) \/ SetElsewhere(h) \/ Stop(h) \/ Undef(h)
    \/ \E d \in Durations : SetStart(h, d, FALSE)
    \/ \E d \in Periods : SetStart(h, d, TRUE)
Task == TaskWake \/ TaskTake \/ TaskExpire \/ TaskSend \/ TaskNotify \/ TaskEnd
Next ==
  \/ Calls \/ SetInsert \/ Irq \/ Task \/ TaskSendTimeout \/ OwnerWake \/ OwnerHandle
  \/ Tick \/ PreSleep \/ WakeUp

Spec == Init /\ [][Next]_vars
\* Time passes, the interrupt is taken, a device that sleeps wakes up, and
\* tasks that can run do.
FairSpec ==
  /\ Spec /\ WF_vars(Tick) /\ WF_vars(Irq) /\ WF_vars(Task) /\ WF_vars(SetInsert)
  /\ WF_vars(OwnerWake) /\ WF_vars(OwnerHandle) /\ WF_vars(WakeUp)

-----------------------------------------------------------------------------
(* Properties.                                                             *)

Msg == [gen : 0 .. MaxCalls, reload : BOOLEAN]
Timer == [ext : 0 .. HandleNum, st : {"free", "def", "set", "expired", "cleared"},
          dur : Nat, exp : Nat, reload : BOOLEAN, gen : 0 .. MaxCalls]
\* Every variable has its type; in particular the queue does not overflow.
TypeOK ==
  /\ now \in 0 .. MaxTime /\ match \in Nat
  /\ {on, reprogram, notified, evt, drain, asleep} \subseteq BOOLEAN
  /\ node \in [1 .. Nodes -> Timer]
  /\ handle \in [Handles -> 0 .. Nodes] /\ setting \in 0 .. Nodes
  /\ active \in Seq(1 .. Nodes) /\ Len(active) <= Nodes
  /\ tt \in [pc : {"wait", "take", "loop", "send", "notify", "retake"},
             ticks : 0 .. MaxTime, msg : Msg]
  /\ queue \in Seq(Msg) /\ Len(queue) <= QLen
  /\ calls \in 0 .. MaxCalls

\* The list holds each armed timer once, in the order of their expiry, and no
\* timer that has been stopped, freed or is being set: what timer_insert,
\* timer_remove and the task's loop leave behind, whoever calls meanwhile.
ListSound ==
  /\ \A i, j \in 1 .. Len(active) :
       i < j => active[i] # active[j] /\ node[active[i]].exp <= node[active[j]].exp
  /\ \A n \in ToSet(active) : node[n].st = "set" /\ node[n].dur > 0 /\ n # setting

\* Unless a sleep has switched reprogramming off, the comparator is on and set
\* for the first timer, or for earlier, whenever the task waits, nothing is
\* pending for it and nobody holds the mutex: no armed timer is forgotten,
\* whatever the comparator did while the list changed.
Programmed ==
  (reprogram /\ tt.pc = "wait" /\ ~ notified /\ setting = 0 /\ active # <<>>)
    => on /\ match <= Max({node[Head(active)].exp, now})

\* A timer that is not periodic expires at most once per timer_set, and not
\* at all once hres_timer_stop has found it armed: no message about it is under
\* way while it is armed or cleared.
OnceOrStopped ==
  \A m \in ToSet(queue) \cup {tt.msg} :
    m.gen > 0 /\ ~ m.reload =>
      /\ \A n \in 1 .. Nodes :
           node[n].gen = m.gen => n \notin ToSet(active) /\ node[n].st # "cleared"
      /\ m # tt.msg \/ m \notin ToSet(queue)

\* A message in the owner's queue is never left there: the owner is in its
\* handler, has been notified or is about to be.
Delivered == queue # <<>> => drain \/ evt \/ tt.pc = "notify"

\* A periodic timer keeps its phase, however late the task is: the next expiry
\* is the first one after now that lies a whole number of periods on.
PhaseKept ==
  [][\A n \in 1 .. Nodes :
      (tt.pc = "loop" /\ node[n].reload /\ node'[n].exp # node[n].exp) =>
         /\ (node'[n].exp - node[n].exp) % node[n].dur = 0
         /\ node'[n].exp > tt.ticks
         /\ node'[n].exp - node[n].dur <= tt.ticks]_vars

\* A timer whose time has come does not stay in the list: it is always going to
\* be the case that no armed timer is overdue, unless a sleep has switched
\* reprogramming off.
Overdue == active # <<>> /\ node[Head(active)].exp <= now
Expires == []<>(reprogram => ~ Overdue)
=============================================================================

-------------------------- MODULE HostCommandsProofs --------------------------
(***************************************************************************)
(* HostCommands for every ring size and any number of failed allocations:  *)
(* the elements the host may fill have their buffers, and the ring is a    *)
(* channel from the host to the firmware.                                  *)
(***************************************************************************)
EXTENDS HostCommands, TLAPS, SequenceTheorems, FiniteSetTheorems

Wrap(i) == IF i < N THEN i ELSE i - N

\* The data ring: every unread element has its packet, but for the first one,
\* which loses it when there is no new buffer; the others have a buffer.
DataInv ==
  /\ thr \in {"idle", "next", "replace"} /\ (thr = "replace" => rd # wr)
  /\ \A i \in Index \ Unread : slot[i] = Buf
  /\ \A i \in Unread : slot[i] \in Msg \/ (i = rd /\ slot[i] = Null)

\* The control ring: every unread element has its packet, the others have none.
\* As long as no allocation failed, at most two of them are without a buffer,
\* and after CtrlFill one.
CtrlInv ==
  /\ thr \in {"idle", "mark", "fill"} /\ (thr = "mark" => rd # wr)
  /\ \A i \in Index \ Unread : slot[i] \in {Buf, Null, Bad}
  /\ \A i \in Unread : slot[i] \in Msg
  /\ fails = 0 =>
       /\ \A i \in Index : slot[i] # Bad
       /\ \E a, b \in Index : Missing \subseteq {a, b} /\ (thr # "fill" => a = b)

IInv == TypeOK /\ (IF ctrl THEN CtrlInv ELSE DataInv)

LEMMA SuccWraps == \A i \in Index : Succ(i) = Wrap(i + 1) /\ Succ(i) \in Index
  <1>1. SUFFICES ASSUME NEW i \in Index PROVE Succ(i) = Wrap(i + 1) /\ Succ(i) \in Index
    OBVIOUS
  <1>2. CASE i + 1 < N
    BY <1>2, CommandsAssumption DEF Succ, Wrap, Index
  <1>3. CASE i + 1 = N
    BY <1>3, CommandsAssumption DEF Succ, Wrap, Index
  <1> QED
    BY <1>2, <1>3, CommandsAssumption DEF Index

\* The unread elements when the host has moved its index ...
LEMMA UnreadPut ==
  ASSUME wr \in Index, rd \in Index, ~ Full, wr' = Succ(wr), rd' = rd
  PROVE  Unread' = Unread \cup {wr} /\ wr \notin Unread /\ wr \in Index
  BY SuccWraps, CommandsAssumption DEF Full, Unread, Between, Index, Wrap

\* ... and the firmware its own.
LEMMA UnreadTake ==
  ASSUME wr \in Index, rd \in Index, rd # wr, rd' = Succ(rd), wr' = wr
  PROVE  Unread' = Unread \ {rd} /\ rd \in Unread
  BY SuccWraps, CommandsAssumption DEF Unread, Between, Index, Wrap

\* A full ring leaves the host one element, the one at its index.
LEMMA UnreadFull ==
  ASSUME wr \in Index, rd \in Index, Full
  PROVE  Index \ Unread = {wr}
  BY SuccWraps, CommandsAssumption DEF Full, Unread, Between, Index, Wrap

LEMMA UnreadEmpty == wr = rd /\ rd \in Index => Unread = {}
  BY CommandsAssumption DEF Unread, Between, Index

LEMMA UnreadFirst == rd # wr /\ rd \in Index /\ wr \in Index => rd \in Unread
  BY CommandsAssumption DEF Unread, Between, Index

\* Posting an update keeps to the limit of the queue.
LEMMA PostedBound ==
  ASSUME note \in Notes
  PROVE  Posted \subseteq Notes
  <1>1. Limit \in Nat /\ Limit <= QueueSize
    BY CommandsAssumption DEF Limit
  <1>2. ASSUME NEW q \in Notes, NEW u \in {"a2f", "f2a"} PROVE Post(q, u) \in Notes
    <2>1. q \in Seq({"a2f", "f2a"}) /\ Len(q) <= QueueSize
      BY DEF Notes
    <2>2. CASE Len(q) < Limit
      <3>1. PICK p : p = Append(q, u) /\ p \in Seq({"a2f", "f2a"}) /\ Len(p) = Len(q) + 1
        BY <2>1, AppendProperties
      <3>2. Len(p) <= QueueSize
        BY <1>1, <2>1, <2>2, <3>1, CommandsAssumption
      <3> QED
        BY <2>2, <3>1, <3>2 DEF Post, Notes
    <2>3. CASE ~ (Len(q) < Limit)
      BY <2>3 DEF Post
    <2> QED
      BY <2>2, <2>3
  <1>3. PICK q \in Notes : Posted = {q} \cup (IF ctrl THEN {} ELSE {Post(q, "f2a")})
    BY <1>2 DEF Posted
  <1> QED
    BY <1>2, <1>3

\* Taking one keeps it, too.
LEMMA TailBound ==
  ASSUME NEW q \in Notes, q # <<>>
  PROVE  Tail(q) \in Notes
  <1>1. q \in Seq({"a2f", "f2a"}) /\ Len(q) <= QueueSize
    BY DEF Notes
  <1>2. Tail(q) \in Seq({"a2f", "f2a"}) /\ Len(Tail(q)) = Len(q) - 1
    BY <1>1, HeadTailProperties
  <1> QED
    BY <1>1, <1>2, CommandsAssumption DEF Notes

\* An update, an interrupt or the timer leaves the ring alone.
LEMMA RingSame ==
  ASSUME IInv, UNCHANGED <<ctrl, wr, rd, slot, thr, fails, got>>,
         note' \in Notes, irq' \in BOOLEAN, timer' \in BOOLEAN, lost' \in BOOLEAN
  PROVE  IInv'
  <1>1. TypeOK'
    BY DEF IInv, TypeOK
  <1>2. Unread' = Unread /\ Missing' = Missing
    BY DEF Unread, Missing
  <1>3. CtrlInv => CtrlInv'
    BY <1>2 DEF CtrlInv
  <1>4. DataInv => DataInv'
    BY <1>2 DEF DataInv
  <1> QED
    BY <1>1, <1>3, <1>4 DEF IInv

LEMMA InitIInv == Init => IInv
  <1> SUFFICES ASSUME Init PROVE IInv
    OBVIOUS
  <1>1. 0 \in Index /\ <<>> \in Notes /\ 0 \in 0 .. MaxFails
    BY CommandsAssumption DEF Index, Notes
  <1>2. TypeOK
    BY <1>1, Zenon DEF Init, TypeOK
  <1>3. \A i \in Index : slot[i] = Buf
    BY DEF Init
  <1>4. Unread = {}
    BY <1>1, UnreadEmpty DEF Init
  <1>5. thr = "idle"
    BY DEF Init
  <1>6. Missing = {}
    BY <1>3, CommandsAssumption DEF Missing
  <1>7. CtrlInv
    BY <1>1, <1>3, <1>4, <1>5, <1>6, CommandsAssumption DEF CtrlInv
  <1>8. DataInv
    BY <1>3, <1>4, <1>5 DEF DataInv
  <1> QED
    BY <1>2, <1>7, <1>8 DEF IInv

LEMMA PutIInv ==
  ASSUME IInv, NEW m \in Msg, HostPut(m)
  PROVE  IInv'
  <1>0. /\ wr \in Index /\ rd \in Index /\ slot \in [Index -> Msg \cup {Null, Bad, Buf}]
        /\ slot' = [slot EXCEPT ![wr] = m] /\ wr' = Succ(wr) /\ rd' = rd /\ ~ Full
        /\ slot[wr] = Buf /\ thr' = thr /\ ctrl' = ctrl /\ fails' = fails
    BY DEF IInv, TypeOK, HostPut
  <1>1. TypeOK'
    <2>1. slot' \in [Index -> Msg \cup {Null, Bad, Buf}] /\ wr' \in Index /\ irq' \in BOOLEAN
      BY <1>0, SuccWraps DEF HostPut
    <2> QED
      BY <2>1 DEF HostPut, IInv, TypeOK
  <1>2. Unread' = Unread \cup {wr} /\ wr \notin Unread
    BY <1>0, UnreadPut
  <1>3. m # Null /\ m # Bad /\ m # Buf
    BY CommandsAssumption
  <1>4. Missing' = Missing
    BY <1>0, <1>3, CommandsAssumption DEF Missing
  <1>5. thr \in {"mark", "replace"} => rd' # wr'
    BY <1>0 DEF Full
  <1>6. CtrlInv => CtrlInv'
    BY <1>0, <1>2, <1>3, <1>4, <1>5 DEF CtrlInv
  <1>7. DataInv => DataInv'
    BY <1>0, <1>2, <1>3, <1>5 DEF DataInv
  <1> QED
    BY <1>0, <1>1, <1>6, <1>7 DEF IInv

LEMMA CtrlIInv ==
  ASSUME IInv, Ctrl
  PROVE  IInv'
  <1>0. /\ wr \in Index /\ rd \in Index /\ slot \in [Index -> Msg \cup {Null, Bad, Buf}]
        /\ thr \in {"idle", "mark", "fill", "next", "replace"} /\ fails \in 0 .. MaxFails
        /\ ctrl \in BOOLEAN
    BY DEF IInv, TypeOK
  <1>1. CASE CtrlTake
    <2>1. ctrl /\ CtrlInv
      BY <1>1 DEF CtrlTake, IInv
    <2>2. UNCHANGED <<ctrl, wr, rd, slot, fails>>
      BY <1>1 DEF CtrlTake
    <2>3. \/ thr' = thr /\ got' = got
          \/ thr' = "mark" /\ got' = slot[rd] /\ rd # wr
      BY <1>1 DEF CtrlTake
    <2>4. got' \in Msg \cup {Null}
      BY <1>0, <2>1, <2>3, UnreadFirst DEF CtrlInv, IInv, TypeOK
    <2>5. TypeOK'
      <3>1. <<>> \in Notes
        BY CommandsAssumption DEF Notes
      <3>2. thr' \in {"idle", "mark", "fill", "next", "replace"}
        BY <1>0, <2>3
      <3> QED
        BY <1>1, <2>4, <3>1, <3>2 DEF CtrlTake, IInv, TypeOK
    <2>6. Unread' = Unread /\ Missing' = Missing
      BY <2>2 DEF Unread, Missing
    <2>7. thr = "idle"
      BY <1>1 DEF CtrlTake
    <2>8. CtrlInv'
      BY <2>1, <2>2, <2>3, <2>6, <2>7 DEF CtrlInv
    <2> QED
      BY <2>1, <2>2, <2>5, <2>8 DEF IInv
  <1>2. CASE CtrlMark
    <2>1. ctrl /\ CtrlInv
      BY <1>0, <1>2 DEF CtrlMark, IInv, DataInv
    <2>2. rd # wr
      BY <1>2, <2>1 DEF CtrlMark, CtrlInv
    <2>3. Unread' = Unread \ {rd} /\ rd \in Unread
      BY <1>0, <1>2, <2>2, UnreadTake DEF CtrlMark
    <2>4. /\ slot' = [slot EXCEPT ![rd] = Null] /\ thr' = "fill" /\ thr = "mark"
          /\ UNCHANGED <<ctrl, wr, fails>>
      BY <1>2 DEF CtrlMark
    <2>5. TypeOK'
      <3>1. rd' \in Index
        BY <1>0, <1>2, SuccWraps DEF CtrlMark
      <3>2. slot' \in [Index -> Msg \cup {Null, Bad, Buf}]
        BY <1>0, <2>4
      <3> QED
        BY <1>2, <3>1, <3>2 DEF CtrlMark, IInv, TypeOK
    <2>6. Missing' = Missing \cup {rd}
      BY <1>0, <2>4 DEF Missing
    <2>7. fails = 0 => \E a, b \in Index : Missing' \subseteq {a, b}
      BY <1>0, <2>1, <2>4, <2>6 DEF CtrlInv
    <2>8. fails = 0 => \A i \in Index : slot'[i] # Bad
      BY <1>0, <2>1, <2>4, CommandsAssumption DEF CtrlInv
    <2>9. \A i \in Index \ Unread' : slot'[i] \in {Buf, Null, Bad}
      BY <1>0, <2>1, <2>3, <2>4 DEF CtrlInv
    <2>10. \A i \in Unread' : slot'[i] \in Msg
      BY <1>0, <2>1, <2>3, <2>4 DEF CtrlInv, Unread, Between
    <2>11. CtrlInv'
      BY <2>4, <2>7, <2>8, <2>9, <2>10 DEF CtrlInv
    <2> QED
      BY <2>1, <2>4, <2>5, <2>11 DEF IInv
  <1>3. CASE CtrlFill \/ CtrlFillFails
    <2>1. ctrl /\ CtrlInv
      BY <1>0, <1>3 DEF CtrlFill, CtrlFillFails, IInv, DataInv
    <2>2. /\ UNCHANGED <<ctrl, wr, rd, got, note, irq, timer, lost>> /\ thr' = "idle" /\ thr = "fill"
          /\ fails' \in 0 .. MaxFails /\ fails' >= fails
      BY <1>0, <1>3, CommandsAssumption DEF CtrlFill, CtrlFillFails
    <2>3. \/ slot' = slot
          \/ \E i \in Missing : slot' = [slot EXCEPT ![i] = Buf] \/ slot' = [slot EXCEPT ![i] = Bad]
      BY <1>3 DEF CtrlFill, CtrlFillFails, Refilled, NextEmpty
    <2>4. \A i \in Missing : i \in Index /\ i \notin Unread
      BY <2>1, CommandsAssumption DEF Missing, CtrlInv
    <2>5. Unread' = Unread /\ Unread \subseteq Index
      BY <2>2 DEF Unread, Between
    <2>6. TypeOK'
      <3>1. slot' \in [Index -> Msg \cup {Null, Bad, Buf}]
        BY <1>0, <2>3, <2>4
      <3> QED
        BY <2>2, <3>1 DEF IInv, TypeOK
    <2>7. /\ \A i \in Index \ Unread : slot'[i] \in {Buf, Null, Bad}
          /\ \A i \in Unread : slot'[i] \in Msg
      <3>1. CASE slot' = slot
        BY <3>1, <2>1 DEF CtrlInv
      <3>2. ASSUME NEW k \in Missing,
                   slot' = [slot EXCEPT ![k] = Buf] \/ slot' = [slot EXCEPT ![k] = Bad]
            PROVE  /\ \A i \in Index \ Unread : slot'[i] \in {Buf, Null, Bad}
                   /\ \A i \in Unread : slot'[i] \in Msg
        BY <3>2, <1>0, <2>1, <2>4, <2>5 DEF CtrlInv
      <3> QED
        BY <2>3, <3>1, <3>2
    <2>8. ASSUME fails' = 0
          PROVE  /\ \A i \in Index : slot'[i] # Bad
                 /\ \E a \in Index : Missing' \subseteq {a}
      <3>1. CtrlFill /\ fails = 0
        <4>1. fails \in Nat
          BY <1>0
        <4> QED
          BY <1>3, <2>8, <4>1 DEF CtrlFill, CtrlFillFails
      <3>2. /\ \A i \in Index : slot[i] # Bad
            /\ \E a, b \in Index : Missing \subseteq {a, b}
        BY <2>1, <3>1 DEF CtrlInv
      <3>3. CASE Full
        <4>1. slot' = slot
          BY <3>1, <3>3 DEF CtrlFill
        <4>2. Missing' = Missing /\ Missing \subseteq {wr}
          BY <1>0, <2>4, <3>3, <4>1, UnreadFull DEF Missing
        <4> QED
          BY <1>0, <3>2, <4>1, <4>2
      <3>4. CASE ~ Full
        <4>1. PICK i \in NextEmpty : slot' = IF slot[i] = Null THEN [slot EXCEPT ![i] = Buf] ELSE slot
          BY <3>1, <3>4 DEF CtrlFill, Refilled
        <4>2. i \in Index /\ slot[i] = Null /\ i \in Missing
          BY <3>2, <4>1 DEF NextEmpty, Missing
        <4>3. slot' = [slot EXCEPT ![i] = Buf]
          BY <4>1, <4>2
        <4>4. Missing' = Missing \ {i}
          BY <1>0, <4>2, <4>3, CommandsAssumption DEF Missing
        <4>5. \A j \in Index : slot'[j] # Bad
          BY <1>0, <3>2, <4>3, CommandsAssumption
        <4> QED
          BY <3>2, <4>2, <4>4, <4>5
      <3> QED
        BY <3>3, <3>4
    <2>9. CtrlInv'
      <3>1. fails' = 0 =>
              /\ \A i \in Index : slot'[i] # Bad
              /\ \E a, b \in Index : Missing' \subseteq {a, b} /\ a = b
        BY <2>8
      <3> QED
        BY <2>2, <2>5, <2>7, <3>1 DEF CtrlInv
    <2> QED
      BY <2>1, <2>2, <2>6, <2>9 DEF IInv
  <1> QED
    BY <1>1, <1>2, <1>3 DEF Ctrl

LEMMA DataIInv ==
  ASSUME IInv, Data
  PROVE  IInv'
  <1>0. /\ wr \in Index /\ rd \in Index /\ slot \in [Index -> Msg \cup {Null, Bad, Buf}]
        /\ thr \in {"idle", "mark", "fill", "next", "replace"} /\ fails \in 0 .. MaxFails
        /\ ctrl \in BOOLEAN /\ Unread \subseteq Index
    BY DEF IInv, TypeOK, Unread, Between
  <1>1. CASE DataStart
    <2>1. ~ ctrl /\ DataInv
      BY <1>1 DEF DataStart, IInv
    <2>2. UNCHANGED <<ctrl, wr, rd, slot, fails>> /\ thr' \in {"idle", "next"}
      BY <1>1 DEF DataStart
    <2>3. TypeOK'
      <3>1. note' \in Notes
        BY <1>1, TailBound DEF DataStart, IInv, TypeOK
      <3>2. timer' \in BOOLEAN
        BY <1>1 DEF DataStart, IInv, TypeOK
      <3> QED
        BY <1>1, <2>2, <3>1, <3>2 DEF DataStart, IInv, TypeOK
    <2>4. Unread' = Unread
      BY <2>2 DEF Unread
    <2>5. DataInv'
      BY <2>1, <2>2, <2>4 DEF DataInv
    <2> QED
      BY <2>1, <2>2, <2>3, <2>5 DEF IInv
  <1>2. CASE DataNext
    <2>1. ~ ctrl /\ DataInv
      BY <1>0, <1>2 DEF DataNext, IInv, CtrlInv
    <2>2. /\ UNCHANGED <<ctrl, wr, rd, slot, fails>>
          /\ thr' \in {"idle", "next", "replace"} /\ (thr' = "replace" => rd # wr)
      BY <1>2 DEF DataNext
    <2>3. TypeOK'
      <3>1. got' \in Msg \cup {Null}
        BY <1>0, <1>2, <2>1, UnreadFirst DEF DataNext, DataInv, IInv, TypeOK
      <3> QED
        BY <1>2, <2>2, <3>1 DEF DataNext, IInv, TypeOK
    <2>4. Unread' = Unread
      BY <2>2 DEF Unread
    <2>5. DataInv'
      BY <2>1, <2>2, <2>4 DEF DataInv
    <2> QED
      BY <2>1, <2>2, <2>3, <2>5 DEF IInv
  <1>3. CASE DataReplace
    <2>1. ~ ctrl /\ DataInv
      BY <1>0, <1>3 DEF DataReplace, IInv, CtrlInv
    <2>2. rd # wr
      BY <1>3, <2>1 DEF DataReplace, DataInv
    <2>3. Unread' = Unread \ {rd} /\ rd \in Unread
      BY <1>0, <1>3, <2>2, UnreadTake DEF DataReplace
    <2>4. slot' = [slot EXCEPT ![rd] = Buf] /\ thr' = "next" /\ UNCHANGED <<ctrl, wr, fails>>
      BY <1>3 DEF DataReplace
    <2>5. TypeOK'
      <3>1. rd' \in Index
        BY <1>0, <1>3, SuccWraps DEF DataReplace
      <3>2. slot' \in [Index -> Msg \cup {Null, Bad, Buf}]
        BY <1>0, <2>4
      <3> QED
        BY <1>3, <3>1, <3>2 DEF DataReplace, IInv, TypeOK
    <2>6. \A i \in Index \ Unread' : slot'[i] = Buf
      BY <1>0, <2>1, <2>3, <2>4 DEF DataInv
    <2>7. \A i \in Unread' : slot'[i] \in Msg
      BY <1>0, <2>1, <2>3, <2>4 DEF DataInv
    <2>8. DataInv'
      BY <2>4, <2>6, <2>7 DEF DataInv
    <2> QED
      BY <2>1, <2>4, <2>5, <2>8 DEF IInv
  <1>4. CASE DataReplaceFails
    <2>1. ~ ctrl /\ DataInv
      BY <1>0, <1>4 DEF DataReplaceFails, IInv, CtrlInv
    <2>2. rd # wr
      BY <1>4, <2>1 DEF DataReplaceFails, DataInv
    <2>3. /\ slot' = [slot EXCEPT ![rd] = Null] /\ thr' = "idle"
          /\ UNCHANGED <<ctrl, wr, rd, got, note, irq, lost>> /\ timer' = TRUE /\ fails' = fails + 1
          /\ fails < MaxFails
      BY <1>4 DEF DataReplaceFails, Kept
    <2>4. rd \in Unread /\ Unread' = Unread
      BY <1>0, <2>2, <2>3, UnreadFirst DEF Unread
    <2>5. TypeOK'
      <3>1. slot' \in [Index -> Msg \cup {Null, Bad, Buf}]
        BY <1>0, <2>3
      <3>2. fails' \in 0 .. MaxFails
        BY <1>0, <2>3, CommandsAssumption
      <3> QED
        BY <2>3, <3>1, <3>2 DEF IInv, TypeOK
    <2>6. \A i \in Index \ Unread : slot'[i] = Buf
      BY <1>0, <2>1, <2>3, <2>4 DEF DataInv
    <2>7. \A i \in Unread : slot'[i] \in Msg \/ (i = rd /\ slot'[i] = Null)
      BY <1>0, <2>1, <2>3 DEF DataInv
    <2>8. DataInv'
      BY <2>3, <2>4, <2>6, <2>7 DEF DataInv
    <2> QED
      BY <2>1, <2>3, <2>5, <2>8 DEF IInv
  <1>5. CASE DataOther
    <2>1. note' \in Notes /\ irq \in BOOLEAN /\ timer \in BOOLEAN /\ lost \in BOOLEAN
      BY <1>5, TailBound DEF DataOther, IInv, TypeOK
    <2> QED
      BY <1>5, <2>1, RingSame DEF DataOther
  <1> QED
    BY <1>1, <1>2, <1>3, <1>4, <1>5 DEF Data

LEMMA Inductive == Spec => []IInv
  <1>1. IInv /\ [Next]_vars => IInv'
    <2> SUFFICES ASSUME IInv, [Next]_vars PROVE IInv'
      OBVIOUS
    <2>0. note \in Notes /\ irq \in BOOLEAN /\ timer \in BOOLEAN /\ lost \in BOOLEAN
      BY DEF IInv, TypeOK
    <2>1. CASE \E m \in Msg : HostPut(m)
      BY <2>1, PutIInv
    <2>2. CASE HostInterrupts
      BY <2>0, <2>2, RingSame DEF HostInterrupts
    <2>3. CASE Isr
      BY <2>0, <2>3, RingSame, PostedBound DEF Isr, Tickle, Dropped
    <2>4. CASE TimerFires
      BY <2>0, <2>4, RingSame, PostedBound DEF TimerFires, Tickle, Dropped
    <2>5. CASE TimerStarted
      BY <2>0, <2>5, RingSame DEF TimerStarted
    <2>6. CASE Ctrl \/ Data
      BY <2>6, CtrlIInv, DataIInv
    <2>7. CASE UNCHANGED vars
      BY <2>0, <2>7, RingSame DEF vars
    <2> QED
      BY <2>1, <2>2, <2>3, <2>4, <2>5, <2>6, <2>7 DEF Next
  <1> QED
    BY <1>1, InitIInv, PTL DEF Spec

\* The values of the variables (HostCommands.TypeOK): no index leaves the ring,
\* the queue of updates does not overflow, and what the firmware is handed is a
\* packet of the host, never an empty buffer.
THEOREM TypeCorrect == Spec => []TypeOK
  <1>1. IInv => TypeOK
    BY DEF IInv
  <1> QED
    BY <1>1, Inductive, PTL

\* The elements the host may fill have their buffers (HostCommands.BuffersKept),
\* in a ring of any size: all of them, whatever fails, in the data ring; all but
\* one, or two while a refill is due, in a control ring whose allocations succeed.
THEOREM BuffersAreKept == Spec => []BuffersKept
  <1>1. ASSUME IInv PROVE BuffersKept
    <2>1. CASE ~ ctrl
      BY <1>1, <2>1 DEF IInv, DataInv, BuffersKept
    <2>2. CASE ctrl
      <3> SUFFICES ASSUME fails = 0
                   PROVE  Cardinality(Missing) <= IF thr = "fill" THEN 2 ELSE 1
        BY <2>2 DEF BuffersKept
      <3>1. PICK a, b \in Index : Missing \subseteq {a, b} /\ (thr # "fill" => a = b)
        BY <1>1, <2>2 DEF IInv, CtrlInv
      <3>2. \/ Missing = {} \/ Missing = {a} \/ Missing = {b}
            \/ (Missing = {a, b} /\ a # b)
        BY <3>1
      <3>3. Cardinality({}) = 0 /\ Cardinality({a}) = 1 /\ Cardinality({b}) = 1
        BY FS_EmptySet, FS_Singleton
      <3>4. a # b => Cardinality({a, b}) = 2
        <4>1. SUFFICES ASSUME a # b PROVE Cardinality({a, b}) = 2
          OBVIOUS
        <4>2. IsFiniteSet({a}) /\ b \notin {a} /\ {a, b} = {a} \cup {b}
          BY <4>1, FS_Singleton
        <4>3. Cardinality({a} \cup {b}) = Cardinality({a}) + 1
          BY <4>2, FS_AddElement
        <4> QED
          BY <3>3, <4>2, <4>3
      <3> QED
        BY <3>1, <3>2, <3>3, <3>4
    <2> QED
      BY <2>1, <2>2
  <1> QED
    BY <1>1, Inductive, PTL

-----------------------------------------------------------------------------
(* The ring is a channel.                                                  *)

\* The packets under way, as HostCommands.Channel has them: those of the unread
\* elements, but for the first one once it was handed over.
Chan == [k \in 1 .. Count |-> slot[Place(k)]]

LEMMA FirstIs ==
  ASSUME wr \in Index, rd \in Index
  PROVE  /\ First \in Index /\ Count \in 0 .. N - 1
         /\ Taken => First = Succ(rd) /\ rd # wr
         /\ ~ Taken => First = rd
         /\ \A k \in 1 .. Count : /\ Place(k) \in Unread
                                  /\ Taken => Place(k) # rd
         /\ (~ Full => Count < N - 1)
  <1> USE CommandsAssumption DEF Index
  <1>1. CASE Taken
    <2>1. First = Wrap(rd + 1) /\ rd # wr /\ First = Succ(rd)
      BY <1>1, SuccWraps DEF First, Taken
    <2>2. First \in Index /\ Count \in 0 .. N - 1
      BY <2>1 DEF Count, Wrap
    <2>3. \A k \in 1 .. Count : Place(k) \in Unread /\ Place(k) # rd
      BY <2>1, <2>2 DEF Count, Wrap, Place, Unread, Between
    <2>4. Count < N - 1
      BY <2>1, <2>2 DEF Count, Wrap
    <2> QED
      BY <1>1, <2>1, <2>2, <2>3, <2>4
  <1>2. CASE ~ Taken
    <2>1. First = rd
      BY <1>2 DEF First
    <2>2. First \in Index /\ Count \in 0 .. N - 1
      BY <2>1 DEF Count
    <2>3. \A k \in 1 .. Count : Place(k) \in Unread
      BY <2>1, <2>2 DEF Count, Place, Unread, Between
    <2>4. ~ Full => Count < N - 1
      BY <2>1, <2>2, SuccWraps DEF Count, Wrap, Full
    <2> QED
      BY <1>2, <2>1, <2>2, <2>3, <2>4
  <1> QED
    BY <1>1, <1>2

LEMMA ChanIsSeq ==
  ASSUME IInv
  PROVE  /\ Count \in Nat /\ Chan \in Seq(Msg \cup {Null, Bad, Buf}) /\ Len(Chan) = Count
         /\ wr \in Index /\ rd \in Index /\ slot \in [Index -> Msg \cup {Null, Bad, Buf}]
  <1>1. wr \in Index /\ rd \in Index /\ slot \in [Index -> Msg \cup {Null, Bad, Buf}]
    BY DEF IInv, TypeOK
  <1>2. Count \in Nat /\ \A k \in 1 .. Count : Place(k) \in Index
    BY <1>1, FirstIs, CommandsAssumption DEF Unread, Between
  <1>3. \A k \in 1 .. Count : slot[Place(k)] \in Msg \cup {Null, Bad, Buf}
    BY <1>1, <1>2
  <1> QED
    BY <1>1, <1>2, <1>3 DEF Chan

\* A step that leaves the elements under way alone is no step of the channel.
LEMMA ChanSame ==
  ASSUME IInv, wr' = wr, First' = First, \A k \in 1 .. Count : slot'[Place(k)] = slot[Place(k)]
  PROVE  Chan' = Chan
  <1>1. Count' = Count /\ \A k \in 1 .. Count : Place(k)' = Place(k)
    BY DEF Count, Place
  <1> QED
    BY <1>1 DEF Chan

\* The host puts one packet.
LEMMA PutPuts ==
  ASSUME IInv, NEW m \in Msg, HostPut(m)
  PROVE  Len(Chan) < N - 1 /\ Chan' = Append(Chan, m) /\ got' = got
  <1> USE CommandsAssumption DEF Index
  <1>1. /\ Count \in Nat /\ Chan \in Seq(Msg \cup {Null, Bad, Buf}) /\ Len(Chan) = Count
        /\ wr \in Index /\ rd \in Index /\ slot \in [Index -> Msg \cup {Null, Bad, Buf}]
    BY ChanIsSeq
  <1>2. /\ wr' = Wrap(wr + 1) /\ rd' = rd /\ slot' = [slot EXCEPT ![wr] = m] /\ ~ Full
        /\ thr' = thr /\ got' = got /\ slot[wr] = Buf
    BY <1>1, SuccWraps DEF HostPut
  <1>3. rd # Wrap(wr + 1)
    BY <1>1, <1>2, SuccWraps DEF Full
  <1>4. thr \in {"mark", "replace"} => rd # wr
    BY DEF IInv, CtrlInv, DataInv
  <1>5. Taken' <=> Taken
    <2>1. CASE rd = wr
      <3>1. slot'[rd] = m /\ m # Null /\ ~ Taken
        BY <1>1, <1>2, <2>1 DEF Taken
      <3> QED
        BY <1>2, <1>4, <2>1, <3>1 DEF Taken
    <2>2. CASE rd # wr
      <3>1. slot'[rd] = slot[rd] /\ rd' # wr'
        BY <1>1, <1>2, <1>3, <2>2
      <3> QED
        BY <1>2, <2>2, <3>1 DEF Taken
    <2> QED
      BY <2>1, <2>2
  <1>6. First' = First
    BY <1>2, <1>5 DEF First
  <1>7. /\ First \in Index /\ Count \in 0 .. N - 1 /\ Count < N - 1
        /\ \A k \in 1 .. Count : Place(k) \in Unread
        /\ (First = rd \/ (First = Wrap(rd + 1) /\ rd # wr))
    BY <1>1, <1>2, FirstIs, SuccWraps
  <1>8. Count' = Count + 1 /\ Place(Count + 1) = wr
    <2>1. CASE First <= wr
      <3>1. Count = wr - First
        BY <2>1 DEF Count
      <3>2. Place(Count + 1) = wr
        BY <1>1, <1>7, <3>1 DEF Place
      <3>3. Count' = Count + 1
        BY <1>1, <1>2, <1>3, <1>6, <1>7, <2>1, <3>1 DEF Count, Wrap
      <3> QED
        BY <3>2, <3>3
    <2>2. CASE First > wr
      <3>1. Count = wr + N - First
        BY <1>1, <1>7, <2>2 DEF Count
      <3>2. Place(Count + 1) = wr
        BY <1>1, <1>7, <3>1 DEF Place
      <3>3. First > wr' /\ wr' = wr + 1
        BY <1>1, <1>2, <1>3, <1>7, <2>2, <3>1 DEF Wrap
      <3>4. Count' = Count + 1
        BY <1>1, <1>6, <1>7, <3>1, <3>3 DEF Count
      <3> QED
        BY <3>2, <3>4
    <2> QED
      BY <1>1, <1>7, <2>1, <2>2
  <1>9. \A k \in 1 .. Count + 1 : Place(k)' = Place(k)
    BY <1>6 DEF Place
  <1>10. \A k \in 1 .. Count : slot'[Place(k)] = slot[Place(k)]
    <2>1. wr \notin Unread
      BY <1>1 DEF Unread, Between
    <2> QED
      BY <1>1, <1>2, <1>7, <2>1 DEF Unread, Between
  <1>11. slot'[Place(Count + 1)] = m
    BY <1>1, <1>2, <1>8
  <1>12. Chan' = [k \in 1 .. Count + 1 |-> slot'[Place(k)]]
    BY <1>8, <1>9 DEF Chan
  <1>13. Chan' = Append(Chan, m)
    <2> DEFINE S == Msg \cup {Null, Bad, Buf}
               app == Append(Chan, m)
    <2>1. /\ app \in Seq(S) /\ Len(app) = Count + 1 /\ app[Count + 1] = m
          /\ \A k \in 1 .. Count : app[k] = Chan[k]
      BY <1>1, AppendProperties
    <2>2. app \in [1 .. Count + 1 -> S]
      BY <1>1, <2>1, LenProperties
    <2>3. \A k \in 1 .. Count + 1 : app[k] = slot'[Place(k)]
      <3>1. \A k \in 1 .. Count : Chan[k] = slot[Place(k)]
        BY DEF Chan
      <3>2. \A k \in 1 .. Count + 1 : k \in 1 .. Count \/ k = Count + 1
        BY <1>1
      <3> HIDE DEF app
      <3> QED
        BY <1>10, <1>11, <2>1, <3>1, <3>2
    <2> HIDE DEF app, S
    <2> QED
      BY <1>12, <2>2, <2>3 DEF app
  <1> QED
    BY <1>1, <1>2, <1>7, <1>13

\* The thread takes one: the first element is handed over, and the index follows
\* later.
LEMMA TakeTakes ==
  ASSUME IInv, rd # wr, ~ Taken, Taken', UNCHANGED <<rd, wr, slot>>
  PROVE  Chan # <<>> /\ Head(Chan) = slot[rd] /\ Chan' = Tail(Chan)
  <1> USE CommandsAssumption DEF Index
  <1>1. /\ Count \in Nat /\ Chan \in Seq(Msg \cup {Null, Bad, Buf}) /\ Len(Chan) = Count
        /\ wr \in Index /\ rd \in Index /\ slot \in [Index -> Msg \cup {Null, Bad, Buf}]
    BY ChanIsSeq
  <1>2. First = rd /\ First' = Wrap(rd + 1)
    BY <1>1, SuccWraps DEF First, Succ
  <1>3. Count \in 1 .. N - 1 /\ Count' = Count - 1 /\ Place(1) = rd
    BY <1>1, <1>2 DEF Count, Place, Wrap
  <1>4. \A k \in 1 .. Count - 1 : Place(k)' = Place(k + 1)
    BY <1>1, <1>2, <1>3 DEF Place, Wrap
  <1>5. Chan # <<>> /\ Head(Chan) = slot[rd]
    BY <1>1, <1>3 DEF Chan
  <1>6. Chan' = [k \in 1 .. Count - 1 |-> slot[Place(k + 1)]]
    BY <1>3, <1>4 DEF Chan
  <1>7. /\ Tail(Chan) \in Seq(Msg \cup {Null, Bad, Buf}) /\ Len(Tail(Chan)) = Count - 1
        /\ \A k \in 1 .. Count - 1 : Tail(Chan)[k] = Chan[k + 1]
    BY <1>1, <1>5, HeadTailProperties
  <1>8. \A k \in 1 .. Count - 1 : Chan[k + 1] = slot[Place(k + 1)]
    BY <1>3 DEF Chan
  <1>9. Tail(Chan) \in [1 .. Count - 1 -> Msg \cup {Null, Bad, Buf}]
    BY <1>7, LenProperties
  <1>10. Chan' = Tail(Chan)
    <2> DEFINE rest == Tail(Chan)
    <2>1. rest \in [1 .. Count - 1 -> Msg \cup {Null, Bad, Buf}]
      BY <1>9
    <2>2. \A k \in 1 .. Count - 1 : rest[k] = slot[Place(k + 1)]
      BY <1>7, <1>8
    <2> HIDE DEF rest
    <2>3. rest = [k \in 1 .. Count - 1 |-> slot[Place(k + 1)]]
      BY <2>1, <2>2
    <2>4. Chan' = rest
      BY <1>6, <2>3
    <2> QED
      BY <2>4 DEF rest
  <1> QED
    BY <1>5, <1>10

\* Giving the element of a packet back after it was handed over is no step of the
\* channel.
LEMMA BackSame ==
  ASSUME IInv, IInv', rd # wr, Taken, rd' = Succ(rd), wr' = wr, thr' \notin {"mark", "replace"},
         NEW b, slot' = [slot EXCEPT ![rd] = b], ctrl' = ctrl
  PROVE  Chan' = Chan
  <1>1. /\ wr \in Index /\ rd \in Index /\ slot \in [Index -> Msg \cup {Null, Bad, Buf}]
    BY DEF IInv, TypeOK
  <1>2. Unread' = Unread \ {rd} /\ rd \in Unread
    BY <1>1, UnreadTake
  <1>3. ~ Taken'
    <2> SUFFICES ASSUME rd' # wr' PROVE slot'[rd'] # Null
      BY DEF Taken
    <2>1. rd' \in Unread'
      <3>1. rd' \in Index /\ wr' \in Index
        BY DEF IInv, TypeOK
      <3> QED
        BY <3>1, CommandsAssumption DEF Unread, Between, Index
    <2>2. rd' \in Unread /\ rd' # rd
      BY <1>2, <2>1
    <2>3. slot[rd'] \in Msg
      BY <2>2 DEF IInv, CtrlInv, DataInv
    <2>4. slot'[rd'] = slot[rd']
      BY <1>1, <2>2 DEF Unread, Between
    <2> QED
      BY <2>3, <2>4, CommandsAssumption
  <1>4. First' = First
    BY <1>3 DEF First
  <1>5. \A k \in 1 .. Count : Place(k) \in Index /\ Place(k) # rd
    BY <1>1, FirstIs DEF Unread, Between
  <1>6. \A k \in 1 .. Count : slot'[Place(k)] = slot[Place(k)]
    BY <1>1, <1>5
  <1> QED
    BY <1>4, <1>6, ChanSame

LEMMA CtrlIsChannel ==
  ASSUME IInv, IInv', Ctrl
  PROVE  \/ Chan' = Chan /\ got' = got
         \/ Chan # <<>> /\ got' = Head(Chan) /\ Chan' = Tail(Chan)
  <1>1. /\ wr \in Index /\ rd \in Index /\ slot \in [Index -> Msg \cup {Null, Bad, Buf}]
    BY DEF IInv, TypeOK
  <1>2. ctrl /\ CtrlInv
    BY DEF IInv, Ctrl, CtrlTake, CtrlMark, CtrlFill, CtrlFillFails, DataInv, TypeOK
  <1>3. rd # wr => slot[rd] \in Msg /\ slot[rd] # Null
    BY <1>1, <1>2, UnreadFirst, CommandsAssumption DEF CtrlInv
  <1>4. CASE CtrlTake
    <2>1. UNCHANGED <<wr, rd, slot>> /\ thr = "idle"
      BY <1>4 DEF CtrlTake
    <2>2. ~ Taken
      BY <1>3, <2>1 DEF Taken
    <2>3. CASE rd = wr
      <3>1. ~ Taken' /\ got' = got
        BY <1>4, <2>1, <2>3 DEF CtrlTake, Taken
      <3>2. First' = First
        BY <2>1, <2>2, <3>1 DEF First
      <3> QED
        BY <2>1, <3>1, <3>2, ChanSame
    <2>4. CASE rd # wr
      <3>1. Taken' /\ got' = slot[rd]
        BY <1>4, <2>1, <2>4 DEF CtrlTake, Taken
      <3> QED
        BY <2>1, <2>2, <2>4, <3>1, TakeTakes
    <2> QED
      BY <2>3, <2>4
  <1>5. CASE CtrlMark
    <2>1. rd # wr /\ Taken
      BY <1>2, <1>5 DEF CtrlMark, CtrlInv, Taken
    <2>2. /\ rd' = Succ(rd) /\ wr' = wr /\ thr' \notin {"mark", "replace"}
          /\ slot' = [slot EXCEPT ![rd] = Null] /\ got' = got /\ ctrl' = ctrl
      BY <1>5 DEF CtrlMark
    <2> QED
      BY <2>1, <2>2, BackSame
  <1>6. CASE CtrlFill \/ CtrlFillFails
    <2>1. UNCHANGED <<ctrl, wr, rd, got>> /\ thr' = "idle" /\ thr = "fill"
      BY <1>6 DEF CtrlFill, CtrlFillFails
    <2>2. \/ slot' = slot
          \/ \E i \in Missing : slot' = [slot EXCEPT ![i] = Buf] \/ slot' = [slot EXCEPT ![i] = Bad]
      BY <1>6 DEF CtrlFill, CtrlFillFails, Refilled, NextEmpty
    <2>3. \A i \in Missing : i \notin Unread
      BY <1>2, CommandsAssumption DEF Missing, CtrlInv
    <2>4. \A i \in Unread : slot'[i] = slot[i]
      BY <1>1, <2>2, <2>3 DEF Unread, Between
    <2>5. ~ Taken /\ ~ Taken'
      BY <1>1, <1>3, <2>1, <2>4, UnreadFirst DEF Taken
    <2>6. First' = First
      BY <2>1, <2>5 DEF First
    <2>7. \A k \in 1 .. Count : slot'[Place(k)] = slot[Place(k)]
      BY <1>1, <2>4, FirstIs
    <2> QED
      BY <2>1, <2>6, <2>7, ChanSame
  <1> QED
    BY <1>4, <1>5, <1>6 DEF Ctrl

LEMMA DataIsChannel ==
  ASSUME IInv, IInv', Data
  PROVE  \/ Chan' = Chan /\ got' = got
         \/ Chan # <<>> /\ got' = Head(Chan) /\ Chan' = Tail(Chan)
  <1>1. /\ wr \in Index /\ rd \in Index /\ slot \in [Index -> Msg \cup {Null, Bad, Buf}]
    BY DEF IInv, TypeOK
  <1>2. ~ ctrl /\ DataInv
    BY DEF IInv, Data, DataStart, DataOther, DataNext, DataReplace, DataReplaceFails, CtrlInv, TypeOK
  <1>3. CASE DataStart \/ DataOther
    <2>1. UNCHANGED <<wr, rd, slot, got>> /\ thr = "idle" /\ thr' \in {"idle", "next"}
      BY <1>3 DEF DataStart, DataOther
    <2>2. Taken' <=> Taken
      BY <2>1 DEF Taken
    <2>3. First' = First
      BY <2>1, <2>2 DEF First
    <2> QED
      BY <2>1, <2>3, ChanSame
  <1>4. CASE DataNext
    <2>1. UNCHANGED <<wr, rd, slot>> /\ thr = "next"
      BY <1>4 DEF DataNext
    <2>2. CASE rd # wr /\ slot[rd] # Null
      <3>1. ~ Taken /\ Taken' /\ got' = slot[rd]
        BY <1>4, <2>1, <2>2 DEF DataNext, Taken
      <3> QED
        BY <2>1, <2>2, <3>1, TakeTakes
    <2>3. CASE rd = wr \/ slot[rd] = Null
      <3>1. (Taken' <=> Taken) /\ got' = got
        BY <1>4, <2>1, <2>3 DEF DataNext, Taken
      <3>2. First' = First
        BY <2>1, <3>1 DEF First
      <3> QED
        BY <2>1, <3>1, <3>2, ChanSame
    <2> QED
      BY <2>2, <2>3
  <1>5. CASE DataReplace
    <2>1. rd # wr /\ Taken
      BY <1>2, <1>5 DEF DataReplace, DataInv, Taken
    <2>2. /\ rd' = Succ(rd) /\ wr' = wr /\ thr' \notin {"mark", "replace"}
          /\ slot' = [slot EXCEPT ![rd] = Buf] /\ got' = got /\ ctrl' = ctrl
      BY <1>5 DEF DataReplace
    <2> QED
      BY <2>1, <2>2, BackSame
  <1>6. CASE DataReplaceFails
    <2>1. rd # wr /\ Taken
      BY <1>2, <1>6 DEF DataReplaceFails, DataInv, Taken
    <2>2. UNCHANGED <<wr, rd, got>> /\ slot' = [slot EXCEPT ![rd] = Null]
      BY <1>6 DEF DataReplaceFails, Kept
    <2>3. Taken'
      BY <1>1, <2>1, <2>2 DEF Taken
    <2>4. First' = First
      BY <2>1, <2>2, <2>3 DEF First, Succ
    <2>5. \A k \in 1 .. Count : slot'[Place(k)] = slot[Place(k)]
      <3>1. \A k \in 1 .. Count : Place(k) \in Index /\ Place(k) # rd
        BY <1>1, <2>1, FirstIs DEF Unread, Between
      <3> QED
        BY <1>1, <2>2, <3>1
    <2> QED
      BY <2>2, <2>4, <2>5, ChanSame
  <1> QED
    BY <1>3, <1>4, <1>5, <1>6 DEF Data

\* The ring implements the channel (HostCommands.IsChannel): the firmware is
\* handed every packet of the host, once and in order, although the element of a
\* packet is given back later than the packet is handed over, and in the data ring
\* only when there is a buffer to put into it.
THEOREM RingIsChannel == Spec => IsChannel
  <1>1. Init => Channel!Init
    <2> SUFFICES ASSUME Init PROVE Chan = <<>> /\ got = Null
      BY DEF Channel!Init, Chan
    <2>1. wr = 0 /\ rd = 0 /\ got = Null
      BY DEF Init
    <2>2. ~ Taken
      BY <2>1 DEF Taken
    <2>3. Count = 0
      BY <2>1, <2>2 DEF Count, First
    <2> QED
      BY <2>1, <2>3 DEF Chan
  <1>2. IInv /\ IInv' /\ [Next]_vars => [Channel!Next]_<<Chan, got>>
    <2> SUFFICES ASSUME IInv, IInv', [Next]_vars, ~ (Chan' = Chan /\ got' = got)
                 PROVE  Channel!Next
      OBVIOUS
    <2>1. CASE \E m \in Msg : HostPut(m)
      BY <2>1, PutPuts DEF Channel!Next, Channel!Put, Chan
    <2>2. CASE Ctrl \/ Data
      <3>1. Chan # <<>> /\ got' = Head(Chan) /\ Chan' = Tail(Chan)
        BY <2>2, CtrlIsChannel, DataIsChannel
      <3> QED
        BY <3>1 DEF Channel!Next, Channel!Take, Chan
    <2>3. CASE UNCHANGED <<rd, wr, slot, thr, got>>
      <3>1. First' = First
        BY <2>3 DEF First, Taken, Succ
      <3> QED
        BY <2>3, <3>1, ChanSame
    <2> QED
      BY <2>1, <2>2, <2>3 DEF Next, HostInterrupts, Isr, TimerFires, TimerStarted, vars
  <1> QED
    BY <1>1, <1>2, Inductive, PTL DEF Spec, IsChannel, Channel!Spec, Chan
=============================================================================

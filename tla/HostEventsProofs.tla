--------------------------- MODULE HostEventsProofs ---------------------------
(***************************************************************************)
(* HostEvents for every ring size: what the host may read is never freed   *)
(* and the ring implements HostChannel, whatever the order in which the    *)
(* host, the sender and the clearing thread take their steps.              *)
(***************************************************************************)
EXTENDS HostEvents, TLAPS, SequenceTheorems

\* Going round from the first element that is not cleared, First, the host has
\* read r elements, w are published and u have a packet, u being N at most; the
\* rest is free.  What clearing looks at before it frees an element tells that
\* r is not 0.
First   == IF thr \in {"clear", "again", "end"} THEN idx ELSE clr
Wrap(i) == IF i < N THEN i ELSE i - N

Lap(r, w, u) ==
  /\ r <= w /\ u = IF snd = "publish" THEN w + 1 ELSE w
  /\ w - r < IF snd = "publish" THEN N - 1 ELSE N
  /\ rd = Wrap(First + r) /\ wr = Wrap(First + w)
  /\ \A k \in Index : slot[Wrap(First + k)] # Null <=> k < u
  /\ thr = "clear" \/ (thr \in {"look", "check"} /\ lrd # clr) => r > 0

IInv == TypeOK /\ \E r, w, u \in 0 .. N : Lap(r, w, u)

\* (i + 1) % ring_num_elem, the code's way to the next element.
LEMMA SuccWraps == \A i \in Index : Succ(i) = Wrap(i + 1)
  <1>1. SUFFICES ASSUME NEW i \in Index PROVE Succ(i) = Wrap(i + 1)
    OBVIOUS
  <1>2. CASE i + 1 < N
    BY <1>2, EventsAssumption DEF Succ, Wrap, Index
  <1>3. CASE i + 1 = N
    BY <1>3, EventsAssumption DEF Succ, Wrap, Index
  <1> QED
    BY <1>2, <1>3, EventsAssumption DEF Index

\* Posting an update keeps to the limit of the queue.
LEMMA Tickled ==
  ASSUME TypeOK, Tickle PROVE timer' \in BOOLEAN /\ note' \in 0 .. QueueSize
  <1>1. note \in 0 .. QueueSize /\ QueueSize \in Nat \ {0}
    BY EventsAssumption DEF TypeOK
  <1>2. note' = note \/ (note' = note + 1 /\ (note < 1 \/ note < QueueSize))
    BY DEF Tickle
  <1>3. note' \in 0 .. QueueSize
    BY <1>1, <1>2
  <1> QED
    BY <1>3 DEF Tickle

\* The values of the variables (HostEvents.TypeOK): no index leaves the ring
\* and the queue of updates does not overflow.
THEOREM TypeCorrect == Spec => []TypeOK
  <1>1. Init => TypeOK
    <2> SUFFICES ASSUME Init PROVE TypeOK
      OBVIOUS
    <2>1. 0 \in Index /\ 0 \in 0 .. QueueSize
      BY EventsAssumption DEF Index
    <2> QED
      BY <2>1, Zenon DEF Init, TypeOK
  <1>2. TypeOK /\ [Next]_vars => TypeOK'
    <2> SUFFICES ASSUME TypeOK, [Next]_vars PROVE TypeOK'
      OBVIOUS
    <2> USE EventsAssumption DEF TypeOK, Index
    <2>0. \A i \in Index : Succ(i) \in Index
      BY SuccWraps DEF Wrap
    <2>1. CASE \E m \in Msg : Fill(m)
      BY <2>1 DEF Fill
    <2>2. CASE Publish
      BY <2>0, <2>2 DEF Publish
    <2>3. CASE SetPending
      BY <2>3 DEF SetPending
    <2>4. CASE HostTake
      BY <2>0, <2>4 DEF HostTake
    <2>5. CASE HostInterrupts
      BY <2>5 DEF HostInterrupts, ring
    <2>6. CASE Isr
      BY <2>6, Tickled DEF Isr, ring
    <2>7. CASE TimerFires
      BY <2>7, Tickled DEF TimerFires, ring
    <2>8. CASE TimerStopped
      BY <2>8 DEF TimerStopped, ring
    <2>9. CASE ClearStart
      BY <2>9 DEF ClearStart, ring
    <2>10. CASE ClearLook
      BY <2>10 DEF ClearLook, ring
    <2>11. CASE ClearCheck
      BY <2>11 DEF ClearCheck, ring
    <2>12. CASE ClearOne
      BY <2>0, <2>12 DEF ClearOne
    <2>13. CASE ClearAgain
      BY <2>13 DEF ClearAgain, ring
    <2>14. CASE ClearEnd
      BY <2>14 DEF ClearEnd
    <2>15. CASE ClearEmpty
      BY <2>15 DEF ClearEmpty, ring
    <2>16. CASE ClearDone
      BY <2>16 DEF ClearDone
    <2>17. CASE UNCHANGED vars
      BY <2>17 DEF vars, ring
    <2> QED
      BY <2>1, <2>2, <2>3, <2>4, <2>5, <2>6, <2>7, <2>8, <2>9, <2>10, <2>11, <2>12,
         <2>13, <2>14, <2>15, <2>16, <2>17 DEF Next, Attach, Clear
  <1> QED
    BY <1>1, <1>2, PTL DEF Spec

\* Every step keeps the lap.
LEMMA LapKept ==
  ASSUME TypeOK, TypeOK', [Next]_vars, NEW r \in 0 .. N, NEW w \in 0 .. N, NEW u \in 0 .. N,
         Lap(r, w, u)
  PROVE  \E r2, w2, u2 \in 0 .. N : Lap(r2, w2, u2)'
  <1> USE EventsAssumption DEF Index
  <1>0. /\ wr \in Index /\ rd \in Index /\ clr \in Index /\ idx \in Index /\ First \in Index
        /\ slot \in [Index -> Msg \cup {Null}]
    BY DEF TypeOK, First
  <1>s. \A i \in Index : Succ(i) = Wrap(i + 1)
    BY SuccWraps
  <1>1. CASE \E m \in Msg : Fill(m)
    <2>1. PICK m \in Msg : Fill(m)
      BY <1>1
    <2>2. snd = "idle" /\ u = w /\ snd' = "publish" /\ slot[wr] = Null /\ rd # Succ(wr)
      BY <2>1 DEF Fill, Full, Lap
    <2>3. w < N
      <3>1. slot[Wrap(First + 0)] # Null <=> 0 < u
        BY DEF Lap
      <3>2. w = N => wr = Wrap(First + 0)
        BY <1>0 DEF Lap, Wrap
      <3> QED
        BY <2>2, <3>1, <3>2
    <2>4. w - r < N - 1
      BY <1>0, <1>s, <2>2, <2>3 DEF Lap, Wrap
    <2>5. UNCHANGED <<First, rd, wr, thr, lrd, clr>>
      BY <2>1 DEF Fill, First
    <2>6. \A k \in Index : slot'[Wrap(First + k)] # Null <=> k < w + 1
      <3>1. m # Null
        OBVIOUS
      <3>2. ASSUME NEW k \in Index PROVE slot'[Wrap(First + k)] # Null <=> k < w + 1
        <4>1. Wrap(First + k) \in Index /\ (Wrap(First + k) = wr <=> k = w)
          BY <1>0, <2>3 DEF Lap, Wrap
        <4>2. slot'[Wrap(First + k)] = IF k = w THEN m ELSE slot[Wrap(First + k)]
          BY <1>0, <2>1, <4>1 DEF Fill
        <4> QED
          BY <2>2, <3>1, <4>2 DEF Lap
      <3> QED
        BY <3>2
    <2>7. Lap(r, w, w + 1)'
      BY <2>2, <2>4, <2>5, <2>6 DEF Lap, Wrap
    <2> QED
      BY <2>3, <2>7
  <1>2. CASE Publish
    <2>1. snd = "publish" /\ snd' = "pend" /\ u = w + 1 /\ wr' = Wrap(wr + 1)
      BY <1>0, <1>2, <1>s DEF Publish, Lap
    <2>2. UNCHANGED <<First, rd, slot, thr, lrd, clr>>
      BY <1>2 DEF Publish, First
    <2>3. wr' = Wrap(First + u)
      BY <1>0, <2>1 DEF Lap, Wrap
    <2>4. Lap(r, u, u)'
      BY <2>1, <2>2, <2>3 DEF Lap, Wrap
    <2> QED
      BY <2>4
  <1>3. CASE HostTake
    <2>1. rd # wr /\ rd' = Wrap(rd + 1)
      BY <1>0, <1>3, <1>s DEF HostTake
    <2>2. UNCHANGED <<First, wr, slot, thr, lrd, clr, snd>>
      BY <1>3 DEF HostTake, First
    <2>3. r < w
      BY <2>1 DEF Lap
    <2>4. rd' = Wrap(First + (r + 1))
      BY <1>0, <2>1, <2>3 DEF Lap, Wrap
    <2>5. Lap(r + 1, w, u)'
      BY <2>2, <2>3, <2>4 DEF Lap, Wrap
    <2> QED
      BY <2>3, <2>5
  <1>4. CASE ClearOne
    <2>1. thr = "clear" /\ r > 0 /\ First = idx
      BY <1>4 DEF ClearOne, Lap, First
    <2>2. slot[Wrap(First + 0)] # Null /\ Wrap(First + 0) = idx
      BY <1>0, <2>1 DEF Lap, Wrap
    <2>3. /\ slot' = [slot EXCEPT ![idx] = Null] /\ idx' = Wrap(idx + 1) /\ thr' = "again"
          /\ UNCHANGED <<rd, wr, snd>>
      BY <1>0, <1>4, <1>s, <2>2 DEF ClearOne
    <2>4. First' = Wrap(First + 1) /\ First' \in Index
      BY <1>0, <2>1, <2>3 DEF First, Wrap
    <2>5. rd' = Wrap(First' + (r - 1)) /\ wr' = Wrap(First' + (w - 1))
      BY <1>0, <2>1, <2>3, <2>4 DEF Lap, Wrap
    <2>6. \A k \in Index : slot'[Wrap(First' + k)] # Null <=> k < u - 1
      <3>1. ASSUME NEW k \in Index PROVE slot'[Wrap(First' + k)] # Null <=> k < u - 1
        <4>1. CASE k = N - 1
          <5>1. Wrap(First' + k) = idx
            BY <1>0, <2>1, <2>4, <4>1 DEF Wrap
          <5> QED
            BY <1>0, <2>3, <4>1, <5>1
        <4>2. CASE k + 1 \in Index
          <5>1. Wrap(First' + k) = Wrap(First + (k + 1)) /\ Wrap(First' + k) # idx
                /\ Wrap(First' + k) \in Index
            BY <1>0, <2>1, <2>4, <4>2 DEF Wrap
          <5>2. slot'[Wrap(First' + k)] = slot[Wrap(First + (k + 1))]
            BY <1>0, <2>3, <5>1
          <5>3. slot[Wrap(First + (k + 1))] # Null <=> k + 1 < u
            BY <4>2 DEF Lap
          <5> QED
            BY <5>2, <5>3
        <4> QED
          BY <4>1, <4>2
      <3> QED
        BY <3>1
    <2>7. Lap(r - 1, w - 1, u - 1)'
      BY <2>1, <2>3, <2>5, <2>6 DEF Lap, Wrap
    <2>8. r - 1 \in 0 .. N /\ w - 1 \in 0 .. N /\ u - 1 \in 0 .. N
      BY <2>1 DEF Lap
    <2> QED
      BY <2>7, <2>8
  <1>5. CASE ClearCheck
    <2>1. thr = "check" /\ First = clr /\ UNCHANGED <<rd, wr, slot, snd, clr, lrd>>
      BY <1>5 DEF ClearCheck, First, ring
    <2>2. CASE thr' = "idle"
      <3>1. First' = First
        BY <2>1, <2>2 DEF First
      <3>2. Lap(r, w, u)'
        BY <2>1, <2>2, <3>1 DEF Lap, Wrap
      <3> QED
        BY <3>2
    <2>3. CASE thr' = "clear" /\ idx' = clr /\ ~ (clr = lrd /\ (lwr # lrd \/ ~ BufFull))
      <3>1. First' = First
        BY <2>1, <2>3 DEF First
      <3>2. r > 0
        <4>1. CASE lrd # clr
          BY <2>1, <4>1 DEF Lap
        <4>2. CASE BufFull
          <5>1. Pred(clr) = Wrap(First + (N - 1)) /\ N - 1 \in Index
            BY <1>0, <2>1 DEF Pred, Wrap
          <5>2. N - 1 < u
            BY <4>2, <5>1 DEF BufFull, Lap
          <5> QED
            BY <5>2 DEF Lap
        <4> QED
          BY <2>3, <4>1, <4>2
      <3>3. Lap(r, w, u)'
        BY <2>1, <2>3, <3>1, <3>2 DEF Lap, Wrap
      <3> QED
        BY <3>3
    <2> QED
      BY <1>5, <2>2, <2>3 DEF ClearCheck
  <1>6. CASE ClearStart \/ ClearLook \/ ClearAgain \/ ClearEnd \/ ClearEmpty \/ ClearDone
    <2>1. First' = First /\ UNCHANGED <<rd, wr, slot, snd>>
      BY <1>6 DEF ClearStart, ClearLook, ClearAgain, ClearEnd, ClearEmpty, ClearDone, First, ring
    <2>2. thr' = "clear" \/ (thr' \in {"look", "check"} /\ lrd' # clr') => r > 0
      <3>1. CASE ClearStart
        BY <1>0, <3>1 DEF ClearStart, Lap, First, Wrap, ring
      <3>2. CASE ClearLook
        BY <3>2 DEF ClearLook, Lap, ring
      <3>3. CASE ClearAgain
        BY <1>0, <3>3 DEF ClearAgain, Lap, First, Wrap, ring
      <3>4. CASE ClearEnd \/ ClearEmpty \/ ClearDone
        BY <3>4 DEF ClearEnd, ClearEmpty, ClearDone
      <3> QED
        BY <1>6, <3>1, <3>2, <3>3, <3>4
    <2>3. Lap(r, w, u)'
      BY <2>1, <2>2 DEF Lap, Wrap
    <2> QED
      BY <2>3
  <1>7. CASE SetPending \/ HostInterrupts \/ Isr \/ TimerFires \/ TimerStopped \/ UNCHANGED vars
    <2>1. UNCHANGED <<rd, wr, slot, thr, lrd, clr, idx>>
      BY <1>7 DEF SetPending, HostInterrupts, Isr, TimerFires, TimerStopped, vars, ring
    <2>2. snd' = "publish" <=> snd = "publish"
      BY <1>7 DEF SetPending, HostInterrupts, Isr, TimerFires, TimerStopped, vars, ring
    <2>3. Lap(r, w, u)'
      BY <2>1, <2>2 DEF Lap, Wrap, First
    <2> QED
      BY <2>3
  <1> QED
    BY <1>1, <1>2, <1>3, <1>4, <1>5, <1>6, <1>7 DEF Next, Attach, Clear

\* The inductive invariant.
LEMMA Inductive == Spec => []IInv
  <1>1. Init => \E r, w, u \in 0 .. N : Lap(r, w, u)
    <2> SUFFICES ASSUME Init PROVE Lap(0, 0, 0)
      BY EventsAssumption
    <2> QED
      BY EventsAssumption DEF Init, Lap, First, Wrap, Index
  <1>2. (\E r, w, u \in 0 .. N : Lap(r, w, u)) /\ TypeOK /\ TypeOK' /\ [Next]_vars
          => (\E r, w, u \in 0 .. N : Lap(r, w, u))'
    BY LapKept
  <1> QED
    BY <1>1, <1>2, TypeCorrect, PTL DEF Spec, IInv

\* Where the elements the host may read are.
LEMMA UnreadIs ==
  ASSUME TypeOK, NEW r \in 0 .. N, NEW w \in 0 .. N, NEW u \in 0 .. N, Lap(r, w, u)
  PROVE  /\ Count = w - r
         /\ \A i \in Unread : \E k \in Index : r <= k /\ k < w /\ i = Wrap(First + k)
         /\ \A k \in 1 .. Count : /\ Place(k) = Wrap(First + (r + k - 1))
                                  /\ Place(k) \in Unread
  <1> USE EventsAssumption DEF Index
  <1>0. wr \in Index /\ rd \in Index /\ First \in Index
    BY DEF TypeOK, First
  <1>1. Count = w - r
    BY <1>0 DEF Count, Lap, Wrap
  <1>2. ASSUME NEW i \in Unread
        PROVE  \E k \in Index : r <= k /\ k < w /\ i = Wrap(First + k)
    <2> DEFINE k == IF i >= First THEN i - First ELSE i + N - First
    <2>1. i \in Index /\ (IF rd <= wr THEN rd <= i /\ i < wr ELSE rd <= i \/ i < wr)
      BY DEF Unread, Between
    <2>2. k \in Index /\ i = Wrap(First + k)
      BY <1>0, <2>1 DEF Wrap
    <2>3. r <= k /\ k < w
      BY <1>0, <2>1 DEF Lap, Wrap
    <2> QED
      BY <2>2, <2>3
  <1>3. ASSUME NEW k \in 1 .. Count
        PROVE  Place(k) = Wrap(First + (r + k - 1)) /\ Place(k) \in Unread
    <2>1. Place(k) = Wrap(First + (r + k - 1)) /\ Place(k) \in Index
      BY <1>0, <1>1 DEF Place, Lap, Wrap
    <2>2. IF rd <= wr THEN rd <= Place(k) /\ Place(k) < wr ELSE rd <= Place(k) \/ Place(k) < wr
      BY <1>0, <1>1 DEF Place, Lap, Wrap
    <2> QED
      BY <2>1, <2>2 DEF Unread, Between
  <1> QED
    BY <1>1, <1>2, <1>3

\* What the host may still read has its buffer (HostEvents.UnreadKept), in a ring
\* of any size and however ringif_f2a_clear_used_bufs is interrupted.
THEOREM UnreadIsKept == Spec => []UnreadKept
  <1>1. IInv => UnreadKept
    <2> SUFFICES ASSUME TypeOK, NEW r \in 0 .. N, NEW w \in 0 .. N, NEW u \in 0 .. N, Lap(r, w, u),
                        NEW i \in Unread
                 PROVE  slot[i] # Null
      BY DEF IInv, UnreadKept
    <2>1. PICK k \in Index : r <= k /\ k < w /\ i = Wrap(First + k)
      BY UnreadIs
    <2>2. k < u
      BY <2>1, EventsAssumption DEF Lap, Index
    <2> QED
      BY <2>1, <2>2 DEF Lap
  <1> QED
    BY <1>1, Inductive, PTL

\* The packets under way, as HostEvents.Channel has them.
Chan == [k \in 1 .. Count |-> slot[Place(k)]]

LEMMA ChanIsSeq ==
  ASSUME IInv
  PROVE  Count \in Nat /\ Chan \in Seq(Msg \cup {Null}) /\ Len(Chan) = Count
  <1>1. PICK r \in 0 .. N, w \in 0 .. N, u \in 0 .. N : Lap(r, w, u)
    BY DEF IInv
  <1>2. TypeOK
    BY DEF IInv
  <1>3. Count = w - r /\ \A k \in 1 .. Count : Place(k) \in Unread
    BY <1>1, <1>2, UnreadIs
  <1>4. Count \in Nat
    BY <1>1, <1>3, EventsAssumption DEF Lap
  <1>5. \A k \in 1 .. Count : slot[Place(k)] \in Msg \cup {Null}
    BY <1>2, <1>3 DEF TypeOK, Unread, Between
  <1> QED
    BY <1>4, <1>5 DEF Chan

\* A step that leaves the indices and the unread elements alone is no step of
\* the channel.
LEMMA ChanSame ==
  ASSUME IInv, UNCHANGED <<rd, wr>>, \A i \in Unread : slot'[i] = slot[i]
  PROVE  Chan' = Chan
  <1>1. PICK r \in 0 .. N, w \in 0 .. N, u \in 0 .. N : Lap(r, w, u)
    BY DEF IInv
  <1>2. \A k \in 1 .. Count : Place(k) \in Unread
    BY <1>1, UnreadIs DEF IInv
  <1>3. Count' = Count /\ \A k \in 1 .. Count : Place(k)' = Place(k)
    BY DEF Count, Place
  <1> QED
    BY <1>2, <1>3 DEF Chan

\* Moving the write index puts one packet.
LEMMA PublishPuts ==
  ASSUME IInv, IInv', Publish
  PROVE  Len(Chan) < N - 1 /\ \E m \in Msg : Chan' = Append(Chan, m)
  <1> USE EventsAssumption DEF Index
  <1>1. PICK r \in 0 .. N, w \in 0 .. N, u \in 0 .. N : Lap(r, w, u)
    BY DEF IInv
  <1>2. TypeOK /\ wr \in Index /\ rd \in Index /\ First \in Index /\ slot \in [Index -> Msg \cup {Null}]
    BY DEF IInv, TypeOK, First
  <1>3. Count = w - r /\ Count < N - 1
    <2>1. Count = w - r
      BY <1>1, <1>2, UnreadIs
    <2> QED
      BY <1>1, <2>1 DEF Publish, Lap
  <1>4. wr' = Wrap(wr + 1) /\ rd' = rd /\ slot' = slot
    BY <1>2, SuccWraps DEF Publish
  <1>5. Count' = Count + 1 /\ Place(Count + 1) = wr
    BY <1>1, <1>2, <1>3, <1>4 DEF Count, Place, Lap, Wrap
  <1>6. \A k \in 1 .. Count + 1 : Place(k)' = Place(k)
    BY <1>4 DEF Place
  <1>7. slot[wr] \in Msg
    <2>1. w \in Index /\ w < u
      BY <1>1, <1>2 DEF Publish, Lap
    <2> QED
      BY <1>1, <1>2, <2>1 DEF Lap
  <1>8. Chan \in Seq(Msg \cup {Null}) /\ Len(Chan) = Count /\ Count \in Nat
    BY ChanIsSeq
  <1>9. Chan' = [k \in 1 .. Count + 1 |-> slot[Place(k)]]
    BY <1>4, <1>5, <1>6 DEF Chan
  <1>10. Chan' = Append(Chan, slot[wr])
    BY <1>5, <1>8, <1>9 DEF Chan
  <1> QED
    BY <1>3, <1>7, <1>8, <1>10

\* Moving the read index takes one.
LEMMA TakeTakes ==
  ASSUME IInv, IInv', HostTake
  PROVE  Chan # <<>> /\ last' = Head(Chan) /\ Chan' = Tail(Chan)
  <1> USE EventsAssumption DEF Index
  <1>1. PICK r \in 0 .. N, w \in 0 .. N, u \in 0 .. N : Lap(r, w, u)
    BY DEF IInv
  <1>2. TypeOK /\ wr \in Index /\ rd \in Index /\ First \in Index
    BY DEF IInv, TypeOK, First
  <1>3. rd # wr /\ rd' = Wrap(rd + 1) /\ wr' = wr /\ slot' = slot /\ last' = slot[rd]
    BY <1>2, SuccWraps DEF HostTake
  <1>4. Count \in 1 .. N - 1 /\ Count' = Count - 1 /\ Place(1) = rd
    BY <1>2, <1>3 DEF Count, Place, Wrap
  <1>5. \A k \in 1 .. Count - 1 : Place(k)' = Place(k + 1)
    BY <1>2, <1>3, <1>4 DEF Place, Wrap
  <1>6. Chan \in Seq(Msg \cup {Null}) /\ Len(Chan) = Count
    BY ChanIsSeq
  <1>7. Chan # <<>> /\ Head(Chan) = slot[rd]
    BY <1>4, <1>6 DEF Chan
  <1>8. Chan' = [k \in 1 .. Count - 1 |-> slot[Place(k + 1)]]
    BY <1>3, <1>4, <1>5 DEF Chan
  <1>9. /\ Tail(Chan) \in Seq(Msg \cup {Null}) /\ Len(Tail(Chan)) = Count - 1
        /\ \A k \in 1 .. Count - 1 : Tail(Chan)[k] = Chan[k + 1]
    BY <1>6, <1>7, HeadTailProperties
  <1>10. \A k \in 1 .. Count - 1 : Chan[k + 1] = slot[Place(k + 1)]
    BY <1>4 DEF Chan
  <1>11. Tail(Chan) \in [1 .. Count - 1 -> Msg \cup {Null}]
    BY <1>9, LenProperties
  <1>12. Chan' = Tail(Chan)
    BY <1>8, <1>9, <1>10, <1>11
  <1> QED
    BY <1>3, <1>7, <1>12

\* The ring implements the channel (HostEvents.IsChannel): the host gets every
\* packet that ringif_f2a_pkt_attach took, once and in order, and there are
\* never more than ring_num_elem - 1 under way.
THEOREM RingIsChannel == Spec => IsChannel
  <1>1. Init => Channel!Init
    <2> SUFFICES ASSUME Init PROVE Chan = <<>> /\ last = Null
      BY DEF Channel!Init, Chan
    <2>1. Count = 0
      BY EventsAssumption DEF Init, Count
    <2> QED
      BY <2>1 DEF Init, Chan
  <1>2. IInv /\ IInv' /\ [Next]_vars => [Channel!Next]_<<Chan, last>>
    <2> SUFFICES ASSUME IInv, IInv', [Next]_vars,
                        ~ (Chan' = Chan /\ last' = last)
                 PROVE  Channel!Next
      OBVIOUS
    <2>1. CASE Publish
      <3>1. last' = last
        BY <2>1 DEF Publish
      <3> QED
        BY <2>1, <3>1, PublishPuts DEF Channel!Next, Channel!Put, Chan
    <2>2. CASE HostTake
      BY <2>2, TakeTakes DEF Channel!Next, Channel!Take, Chan
    <2>3. CASE \E m \in Msg : Fill(m)
      <3>1. UNCHANGED <<rd, wr, last>> /\ \A i \in Unread : slot'[i] = slot[i]
        <4>1. wr \notin Unread
          BY EventsAssumption DEF Unread, Between, IInv, TypeOK, Index
        <4> QED
          BY <2>3, <4>1 DEF Fill, Unread, Between, IInv, TypeOK
      <3> QED
        BY <3>1, ChanSame
    <2>4. CASE ClearOne
      <3>1. UNCHANGED <<rd, wr, last>>
        BY <2>4 DEF ClearOne
      <3>2. idx \notin Unread
        <4>1. PICK r \in 0 .. N, w \in 0 .. N, u \in 0 .. N : Lap(r, w, u)
          BY DEF IInv
        <4>2. TypeOK /\ First = idx /\ r > 0 /\ idx \in Index
          BY <2>4, <4>1 DEF IInv, TypeOK, ClearOne, First, Lap
        <4>3. \A k \in Index : 0 < k => Wrap(First + k) # idx
          BY <4>2, EventsAssumption DEF Wrap, Index
        <4>4. \A i \in Unread : \E k \in Index : r <= k /\ k < w /\ i = Wrap(First + k)
          BY <4>1, <4>2, UnreadIs
        <4> QED
          BY <4>2, <4>3, <4>4, EventsAssumption DEF Index
      <3>3. \A i \in Unread : slot'[i] = slot[i]
        BY <2>4, <3>2 DEF ClearOne, Unread, Between, IInv, TypeOK
      <3> QED
        BY <3>1, <3>3, ChanSame
    <2>5. CASE UNCHANGED <<rd, wr, last, slot>>
      BY <2>5, ChanSame
    <2> QED
      BY <2>1, <2>2, <2>3, <2>4, <2>5 DEF Next, Attach, Clear, SetPending, HostInterrupts, Isr,
         TimerFires, TimerStopped, ClearStart, ClearLook, ClearCheck, ClearAgain, ClearEnd,
         ClearEmpty, ClearDone, vars, ring
  <1> QED
    BY <1>1, <1>2, Inductive, PTL DEF Spec, IsChannel, Channel!Spec, Chan
=============================================================================

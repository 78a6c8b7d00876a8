----------------------------- MODULE HostChannel ------------------------------
(***************************************************************************)
(* What a ring between the firmware and its host promises: a channel that  *)
(* hands over messages one by one, in the order in which they were put     *)
(* into it, and holds at most Cap of them.  HostEvents and HostCommands    *)
(* implement it.                                                           *)
(***************************************************************************)
EXTENDS Naturals, Sequences

CONSTANTS Msg, Cap, None

VARIABLES
  chan,   \* the messages under way
  last    \* the message the receiver got last

Init == chan = <<>> /\ last = None

Put(m) == /\ Len(chan) < Cap
          /\ chan' = Append(chan, m)
          /\ UNCHANGED last

Take == /\ chan # <<>>
        /\ last' = Head(chan)
        /\ chan' = Tail(chan)

Next == Take \/ \E m \in Msg : Put(m)

Spec == Init /\ [][Next]_<<chan, last>>
=============================================================================

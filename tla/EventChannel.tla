---------------------------- MODULE EventChannel ----------------------------
(***************************************************************************)
(* What an EventQueue promises its users: a first-in first-out channel.    *)
(* Posting appends (or is silently refused, which leaves no trace here);   *)
(* popping removes the oldest event, only when there is one, and hands it  *)
(* to the one who popped.  Who keeps popping eventually gets every event.  *)
(***************************************************************************)
EXTENDS Sequences

CONSTANTS
  Events,
  Receivers

VARIABLES
  chan,  \* what was sent and not received
  got    \* what each receiver has received, in order

Init == chan = <<>> /\ got = [r \in Receivers |-> <<>>]

Send == (\E e \in Events : chan' = Append(chan, e)) /\ UNCHANGED got

Receive ==
  /\ chan # <<>> /\ chan' = Tail(chan)
  /\ \E r \in Receivers : got' = [got EXCEPT ![r] = Append(@, Head(chan))]

Next == Send \/ Receive

Safety == Init /\ [][Next]_<<chan, got>>

Spec == Safety /\ WF_<<chan, got>>(Receive)
=============================================================================

----------------------------- MODULE LossyChannel -----------------------------
(***************************************************************************)
(* What the agents can expect of a connection with the broker: frames are  *)
(* handled in the order in which they were sent, none twice, none that was *)
(* not sent.  Any of them may be lost.                                     *)
(***************************************************************************)
EXTENDS Naturals

VARIABLES
  sent,    \* number of frames sent: 0 .. sent - 1
  next,    \* the first frame that is neither handled nor lost
  handled  \* frames that are handled

vars == <<sent, next, handled>>

Init == sent = 0 /\ next = 0 /\ handled = {}

Send == sent' = sent + 1 /\ UNCHANGED <<next, handled>>

\* Some frames are taken off the channel; the first of them may be handled.
Take ==
  /\ next' \in (next + 1)..sent
  /\ handled' \in {handled, handled \cup {next}}
  /\ UNCHANGED sent

Next == Send \/ Take

Spec == Init /\ [][Next]_vars
=============================================================================

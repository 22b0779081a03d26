--------------------------- MODULE OrderedChannel ---------------------------
(***************************************************************************)
(* What a reliable, ordered data channel promises its two users: the peer  *)
(* is given the messages the sender had accepted, in their order, without  *)
(* gap or repetition, and nothing once the channel has closed.  Messages   *)
(* that are still under way when it closes are lost.                       *)
(***************************************************************************)
EXTENDS Naturals, Sequences

VARIABLES
  accepted,   \* messages accepted from the sender so far
  delivered,  \* messages given to the peer so far
  closed

vars == <<accepted, delivered, closed>>

Init == accepted = <<>> /\ delivered = <<>> /\ closed = FALSE

\* The sender adds one or more messages.
Accept ==
  /\ Len(accepted') > Len(accepted)
  /\ SubSeq(accepted', 1, Len(accepted)) = accepted
  /\ UNCHANGED <<delivered, closed>>

\* The peer is given the next message.
Deliver ==
  /\ ~closed
  /\ Len(delivered) < Len(accepted)
  /\ delivered' = Append(delivered, accepted[Len(delivered) + 1])
  /\ UNCHANGED <<accepted, closed>>

Close ==
  /\ closed' = TRUE
  /\ UNCHANGED <<accepted, delivered>>

Next == Accept \/ Deliver \/ Close

Spec == Init /\ [][Next]_vars
=============================================================================

------------------------------ MODULE FifoChannel ------------------------------
(***************************************************************************)
(* What a bounded first-in first-out channel promises, whatever locks and  *)
(* condition variables implement it.  Every message the channel accepts is *)
(* delivered at most once and in the order of acceptance, no more than     *)
(* Capacity accepted messages are undelivered at any time, and nothing is  *)
(* accepted once the channel is closed.  What was accepted before that can *)
(* still be delivered.                                                     *)
(***************************************************************************)
EXTENDS Naturals, Sequences

CONSTANTS Messages,  (* what can be sent                                   *)
          Capacity   (* how many accepted messages may be undelivered      *)

VARIABLES accepted,  (* every message accepted so far, in order            *)
          delivered, (* every message delivered so far, in order           *)
          closed

vars == <<accepted, delivered, closed>>

Init ==
  /\ accepted = <<>>
  /\ delivered = <<>>
  /\ closed = FALSE

Accept(m) ==
  /\ ~closed
  /\ Len(accepted) - Len(delivered) < Capacity
  /\ accepted' = Append(accepted, m)
  /\ UNCHANGED <<delivered, closed>>

Deliver ==
  /\ Len(delivered) < Len(accepted)
  /\ delivered' = Append(delivered, accepted[Len(delivered) + 1])
  /\ UNCHANGED <<accepted, closed>>

Close ==
  /\ closed' = TRUE
  /\ UNCHANGED <<accepted, delivered>>

Next ==
  \/ \E m \in Messages : Accept(m)
  \/ Deliver
  \/ Close

Spec == Init /\ [][Next]_vars

(* A message that was accepted does not stay in the channel for ever.      *)
FairSpec == Spec /\ WF_vars(Deliver)

================================================================================

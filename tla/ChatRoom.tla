-------------------------------- MODULE ChatRoom --------------------------------
(***************************************************************************)
(* What the chat server promises its participants.  There is one           *)
(* conversation, log.  A participant that joins is shown the last Recent   *)
(* messages of it and from then on every message, in order, none missing   *)
(* and none twice, across the seam between the two as well; one that has   *)
(* left is shown nothing that was said later.                              *)
(***************************************************************************)
EXTENDS Naturals, Sequences

CONSTANTS Participants, Messages, Recent

VARIABLES log,
          first,     (* where in the log the share of a participant begins *)
          last,      (* and where it ended, once the participant has left  *)
          status,    (* "out", "in" or "left"                              *)
          seen       (* what a participant has been shown                  *)

vars == <<log, first, last, status, seen>>

Init ==
  /\ log = <<>>
  /\ first = [p \in Participants |-> 0]
  /\ last = [p \in Participants |-> 0]
  /\ status = [p \in Participants |-> "out"]
  /\ seen = [p \in Participants |-> <<>>]

OldestRecent == IF Len(log) > Recent THEN Len(log) - Recent + 1 ELSE 1

Join(p) ==
  /\ status[p] = "out"
  /\ status' = [status EXCEPT ![p] = "in"]
  /\ first' = [first EXCEPT ![p] = OldestRecent]
  /\ UNCHANGED <<log, last, seen>>

Speak(m) ==
  /\ log' = Append(log, m)
  /\ UNCHANGED <<first, last, status, seen>>

Share(p) == SubSeq(log, first[p], IF status[p] = "in" THEN Len(log) ELSE last[p])

Show(p) ==
  /\ status[p] # "out"
  /\ Len(seen[p]) < Len(Share(p))
  /\ seen' = [seen EXCEPT ![p] = Append(@, Share(p)[Len(@) + 1])]
  /\ UNCHANGED <<log, first, last, status>>

Leave(p) ==
  /\ status[p] = "in"
  /\ status' = [status EXCEPT ![p] = "left"]
  /\ last' = [last EXCEPT ![p] = Len(log)]
  /\ UNCHANGED <<log, first, seen>>

Next ==
  \/ \E p \in Participants : Join(p) \/ Show(p) \/ Leave(p)
  \/ \E m \in Messages : Speak(m)

Spec == Init /\ [][Next]_vars

================================================================================

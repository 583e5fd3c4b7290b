------------------------------- MODULE ChatServer -------------------------------
(***************************************************************************)
(* asio_test/chat/chat_server.cpp: one ChatServer, its ChatRoom and its    *)
(* ChatSessions.  main() may start several servers, one per port, in one   *)
(* io_context; they share nothing but its thread.                          *)
(*                                                                         *)
(* One thread runs the io_context, so a completion handler runs to its end *)
(* before the next begins: an action is a whole handler.  What remains     *)
(* open is which of the outstanding operations completes next, and how.    *)
(* An operation never completes inside the call that starts it.            *)
(*                                                                         *)
(* Sessions are connections, each made once.  A client puts what it says   *)
(* on the wire in pieces: a header that decodeHeader accepts or one that   *)
(* it refuses, then the body.  It may hang up between any two pieces; what *)
(* it put on the wire before may then still be read, or be lost.           *)
(***************************************************************************)
EXTENDS Naturals, FiniteSets, Sequences

CONSTANTS Sessions,
          Pieces,            (* how many pieces a client puts on the wire  *)
          kMaxRecentMsgs

ASSUME ChatServerAssumption == Pieces \in Nat /\ kMaxRecentMsgs \in Nat \ {0}

VARIABLES participants_,     (* ChatRoom                                   *)
          recent_msgs_,
          write_messages_,   (* ChatSession                                *)
          reading,           (* the async_read outstanding: "none",        *)
                             (* "header" or "body"                         *)
          writing,           (* how many async_writes are outstanding      *)
          accepted,          (* the connections async_accept has handed on *)
          peer,              (* the client: "away", "there", "gone"        *)
          wire,              (* its pieces on the wire, not yet read       *)
          put, heard,        (* pieces put on the wire, bodies read        *)
          log, first, last,  (* history: what was said in the room, and    *)
                             (* where in it a session's stay begins, ends  *)
          sent               (* history: what was written to a client      *)

vars == <<participants_, recent_msgs_, write_messages_, reading, writing, accepted, peer, wire,
          put, heard, log, first, last, sent>>

client == <<peer, wire, put>>
history == <<log, first, last, sent>>

Messages == Sessions \X (1 .. Pieces)

Init ==
  /\ participants_ = {}
  /\ recent_msgs_ = <<>>
  /\ write_messages_ = [s \in Sessions |-> <<>>]
  /\ reading = [s \in Sessions |-> "none"]
  /\ writing = [s \in Sessions |-> 0]
  /\ accepted = {}
  /\ peer = [s \in Sessions |-> "away"]
  /\ wire = [s \in Sessions |-> <<>>]
  /\ put = [s \in Sessions |-> 0]
  /\ heard = [s \in Sessions |-> 0]
  /\ log = <<>>
  /\ first = [s \in Sessions |-> 0]
  /\ last = [s \in Sessions |-> 0]
  /\ sent = [s \in Sessions |-> <<>>]

--------------------------------------------------------------------------------
(* The clients.                                                            *)

Connect(s) ==
  /\ peer[s] = "away"
  /\ peer' = [peer EXCEPT ![s] = "there"]
  /\ UNCHANGED <<participants_, recent_msgs_, write_messages_, reading, writing, accepted, wire,
                 put, heard, history>>

Put(s) ==
  /\ peer[s] = "there" /\ put[s] < Pieces
  /\ put' = [put EXCEPT ![s] = @ + 1]
  /\ \E piece \in IF put[s] % 2 = 0 THEN {"header", "badheader"} ELSE {"body"} :
       wire' = [wire EXCEPT ![s] = Append(@, piece)]
  /\ UNCHANGED <<participants_, recent_msgs_, write_messages_, reading, writing, accepted, peer,
                 heard, history>>

HangUp(s) ==
  /\ peer[s] = "there"
  /\ peer' = [peer EXCEPT ![s] = "gone"]
  /\ UNCHANGED <<participants_, recent_msgs_, write_messages_, reading, writing, accepted, wire,
                 put, heard, history>>

--------------------------------------------------------------------------------
(* ChatRoom.                                                               *)

Trimmed(msgs) ==
  IF Len(msgs) > kMaxRecentMsgs THEN SubSeq(msgs, Len(msgs) - kMaxRecentMsgs + 1, Len(msgs)) ELSE msgs

OldestRecent == Len(log) - Len(recent_msgs_) + 1

(* Fault: the newcomer is not told what was said last.                     *)
Join_WithoutReplay(s) ==
  /\ participants_' = participants_ \cup {s}
  /\ first' = [first EXCEPT ![s] = OldestRecent]
  /\ UNCHANGED <<write_messages_, writing>>

Join(s) ==
  /\ participants_' = participants_ \cup {s}
  /\ write_messages_' = [write_messages_ EXCEPT ![s] = recent_msgs_]
  /\ writing' = [writing EXCEPT ![s] = IF recent_msgs_ = <<>> THEN 0 ELSE 1]
  /\ first' = [first EXCEPT ![s] = OldestRecent]

Leave(s) ==
  /\ participants_' = participants_ \ {s}
  /\ last' = IF s \in participants_ THEN [last EXCEPT ![s] = Len(log)] ELSE last

(* Fault: a write is started though one may be outstanding.                *)
Deliver_AlwaysWrites(msg) ==
  /\ recent_msgs_' = Trimmed(Append(recent_msgs_, msg))
  /\ write_messages_' =
       [s \in Sessions |-> IF s \in participants_ THEN Append(write_messages_[s], msg)
                           ELSE write_messages_[s]]
  /\ writing' = [s \in Sessions |-> IF s \in participants_ THEN writing[s] + 1 ELSE writing[s]]
  /\ log' = Append(log, msg)

(* Fault: a session that still has messages to write gets the new one too, *)
(* in the room or not.                                                     *)
Deliver_ToWriters(msg) ==
  /\ recent_msgs_' = Trimmed(Append(recent_msgs_, msg))
  /\ write_messages_' =
       [s \in Sessions |-> IF s \in participants_ \/ writing[s] > 0 THEN Append(write_messages_[s], msg)
                           ELSE write_messages_[s]]
  /\ writing' = [s \in Sessions |-> IF s \in participants_ /\ write_messages_[s] = <<>>
                                    THEN writing[s] + 1 ELSE writing[s]]
  /\ log' = Append(log, msg)

(* A participant with an idle socket starts to write, the others queue.    *)
Deliver(msg) ==
  /\ recent_msgs_' = Trimmed(Append(recent_msgs_, msg))
  /\ write_messages_' =
       [s \in Sessions |-> IF s \in participants_ THEN Append(write_messages_[s], msg)
                           ELSE write_messages_[s]]
  /\ writing' = [s \in Sessions |-> IF s \in participants_ /\ write_messages_[s] = <<>>
                                    THEN writing[s] + 1 ELSE writing[s]]
  /\ log' = Append(log, msg)

--------------------------------------------------------------------------------
(* The handler of ChatServer::accept, which starts the next accept.        *)

Accept(s) ==
  /\ peer[s] # "away" /\ s \notin accepted
  /\ accepted' = accepted \cup {s}
  /\ Join(s)
  /\ reading' = [reading EXCEPT ![s] = "header"]
  /\ UNCHANGED <<recent_msgs_, client, heard, log, last, sent>>

(* With an error there is no session: the connection is no more.           *)
AcceptFails(s) ==
  /\ peer[s] # "away" /\ s \notin accepted
  /\ accepted' = accepted \cup {s}
  /\ peer' = [peer EXCEPT ![s] = "gone"]
  /\ UNCHANGED <<participants_, recent_msgs_, write_messages_, reading, writing, wire, put, heard,
                 history>>

(* The handlers of ChatSession::readHeader and readBody.                   *)

(* Fault: a refused header ends the reading and no more.                   *)
ReadHeader_NoLeave(s) ==
  /\ reading[s] = "header" /\ wire[s] # <<>>
  /\ wire' = [wire EXCEPT ![s] = Tail(@)]
  /\ reading' = [reading EXCEPT ![s] = IF Head(wire[s]) = "header" THEN "body" ELSE "none"]
  /\ UNCHANGED <<participants_, recent_msgs_, write_messages_, writing, accepted, peer, put, heard,
                 history>>

ReadHeader(s) ==
  /\ reading[s] = "header" /\ wire[s] # <<>>
  /\ wire' = [wire EXCEPT ![s] = Tail(@)]
  /\ IF Head(wire[s]) = "header"
     THEN reading' = [reading EXCEPT ![s] = "body"] /\ UNCHANGED <<participants_, last>>
     ELSE reading' = [reading EXCEPT ![s] = "none"] /\ Leave(s)
  /\ UNCHANGED <<recent_msgs_, write_messages_, writing, accepted, peer, put, heard, log, first, sent>>

ReadBody(s) ==
  /\ reading[s] = "body" /\ wire[s] # <<>>
  /\ wire' = [wire EXCEPT ![s] = Tail(@)]
  /\ heard' = [heard EXCEPT ![s] = @ + 1]
  /\ Deliver(<<s, heard[s] + 1>>)
  /\ reading' = [reading EXCEPT ![s] = "header"]
  /\ UNCHANGED <<participants_, accepted, peer, put, first, last, sent>>

(* Fault: an error amid a message is not taken for the end.                *)
ReadFails_HeaderOnly(s) ==
  /\ reading[s] # "none" /\ peer[s] = "gone"
  /\ reading' = [reading EXCEPT ![s] = "none"]
  /\ IF reading[s] = "header" THEN Leave(s) ELSE UNCHANGED <<participants_, last>>
  /\ UNCHANGED <<recent_msgs_, write_messages_, writing, accepted, client, heard, log, first, sent>>

ReadFails(s) ==
  /\ reading[s] # "none" /\ peer[s] = "gone"
  /\ reading' = [reading EXCEPT ![s] = "none"]
  /\ Leave(s)
  /\ UNCHANGED <<recent_msgs_, write_messages_, writing, accepted, client, heard, log, first, sent>>

(* The handler of ChatSession::write.                                      *)

(* Fault: the next write is left to the next delivery.                     *)
WriteDone_Stops(s) ==
  /\ writing[s] > 0
  /\ sent' = [sent EXCEPT ![s] = Append(@, Head(write_messages_[s]))]
  /\ write_messages_' = [write_messages_ EXCEPT ![s] = Tail(@)]
  /\ writing' = [writing EXCEPT ![s] = @ - 1]
  /\ UNCHANGED <<participants_, recent_msgs_, reading, accepted, client, heard, log, first, last>>

WriteDone(s) ==
  /\ writing[s] > 0
  /\ sent' = [sent EXCEPT ![s] = Append(@, Head(write_messages_[s]))]
  /\ write_messages_' = [write_messages_ EXCEPT ![s] = Tail(@)]
  /\ writing' = [writing EXCEPT ![s] = IF Len(write_messages_[s]) > 1 THEN @ ELSE @ - 1]
  /\ UNCHANGED <<participants_, recent_msgs_, reading, accepted, client, heard, log, first, last>>

WriteFails(s) ==
  /\ writing[s] > 0 /\ peer[s] = "gone"
  /\ writing' = [writing EXCEPT ![s] = @ - 1]
  /\ Leave(s)
  /\ UNCHANGED <<recent_msgs_, write_messages_, reading, accepted, client, heard, log, first, sent>>

--------------------------------------------------------------------------------

AcceptHandler(s) == Accept(s) \/ AcceptFails(s)
ReadHandler(s) == ReadHeader(s) \/ ReadBody(s) \/ ReadFails(s)
WriteHandler(s) == WriteDone(s) \/ WriteFails(s)

Next ==
  \E s \in Sessions :
    \/ Connect(s) \/ Put(s) \/ HangUp(s)
    \/ AcceptHandler(s) \/ ReadHandler(s) \/ WriteHandler(s)

Spec == Init /\ [][Next]_vars

(* run() calls every handler whose operation has completed.  A read is     *)
(* complete when its piece is there or the client is gone; a write to a    *)
(* client that has gone completes one way or the other.  A client that is  *)
(* there may never take what is written to it.                             *)
FairSpec ==
  /\ Spec
  /\ \A s \in Sessions :
       /\ WF_vars(AcceptHandler(s))
       /\ WF_vars(ReadHandler(s))
       /\ WF_vars(peer[s] = "gone" /\ WriteHandler(s))

--------------------------------------------------------------------------------
(* Properties.                                                             *)

TypeOK ==
  /\ participants_ \subseteq accepted
  /\ accepted \subseteq Sessions
  /\ recent_msgs_ \in Seq(Messages) /\ Len(recent_msgs_) <= kMaxRecentMsgs
  /\ write_messages_ \in [Sessions -> Seq(Messages)]
  /\ reading \in [Sessions -> {"none", "header", "body"}]
  /\ writing \in [Sessions -> Nat]
  /\ peer \in [Sessions -> {"away", "there", "gone"}]
  /\ wire \in [Sessions -> Seq({"header", "badheader", "body"})]
  /\ put \in [Sessions -> 0 .. Pieces]
  /\ heard \in [Sessions -> 0 .. Pieces]
  /\ log \in Seq(Messages)
  /\ first \in [Sessions -> Nat]
  /\ last \in [Sessions -> Nat]
  /\ sent \in [Sessions -> Seq(Messages)]

(* A write is outstanding for a session exactly as long as it has messages *)
(* to write: two would mix their bytes, none would leave the queue to grow *)
(* for ever.  Only a session that has left may have messages and no write. *)
WritesWhileQueued ==
  \A s \in Sessions :
    /\ writing[s] <= 1
    /\ writing[s] = 1 => write_messages_[s] # <<>>
    /\ s \in participants_ /\ write_messages_[s] # <<>> => writing[s] = 1

(* Whoever is in the room is listened to: no participant is left without a *)
(* read whose failure would take it out of the room.                       *)
ParticipantsAreRead == \A s \in participants_ : reading[s] # "none"

(* The types, the bound on the history among them, and a session that is   *)
(* served in both directions.                                              *)
Consistent == TypeOK /\ WritesWhileQueued /\ ParticipantsAreRead

(* What the clients are shown is what ChatRoom promises.                   *)
Room == INSTANCE ChatRoom WITH
  Participants <- Sessions,
  Recent <- kMaxRecentMsgs,
  status <- [s \in Sessions |-> IF s \in participants_ THEN "in"
                                ELSE IF first[s] = 0 THEN "out" ELSE "left"],
  seen <- sent

RoomSpec == Room!Spec

(* What a participant has not been shown of its share waits in its queue.  *)
QueueIsRestOfShare ==
  \A s \in participants_ : sent[s] \o write_messages_[s] = SubSeq(log, first[s], Len(log))

(* A session with neither a place in the room nor an operation outstanding *)
(* is held by nobody: it is destroyed and its socket closed.               *)
Released(s) == s \notin participants_ /\ reading[s] = "none" /\ writing[s] = 0

(* When a client has gone, its session is released in the end, however     *)
(* many messages are queued for it and wherever its reads and writes stand.*)
GoneIsReleased == \A s \in Sessions : peer[s] = "gone" ~> s \in accepted /\ Released(s)

(* Where every client takes what is written to it, a participant that     *)
(* stays is shown whatever has been said in the room.                      *)
AttentiveClients == \A s \in Sessions : WF_vars(WriteHandler(s))

EverybodyHears ==
  AttentiveClients =>
    \A s \in Sessions : \A n \in 1 .. (Cardinality(Sessions) * Pieces) \div 2 :
      s \in participants_ /\ Len(log) >= n ~>
        s \notin participants_ \/ first[s] + Len(sent[s]) > n

================================================================================

------------------------------- MODULE ChatSystem -------------------------------
(***************************************************************************)
(* ChatClient and ChatServer at the two ends of one connection: the        *)
(* session Self of the server is the one of the client's program.  In a    *)
(* behaviour with host = "stranger" the client is alone with whatever      *)
(* answers, as in ChatClient, and the server rests.                        *)
(* The other clients come and speak, and never take what is written to     *)
(* them, which must not hold up anybody; what else they may do is left to  *)
(* ChatServer.  Our server is the last endpoint the client tries.          *)
(*                                                                         *)
(* An async_write puts a message on the wire in two pieces, a header and a *)
(* body, with anything between the two, and completes when both are there. *)
(* The wire has room for WireSize pieces in each direction, so an end that *)
(* did not read would hold up the other.  Pieces, Self's own apart, bounds *)
(* what the others say.                                                    *)
(***************************************************************************)
EXTENDS ChatClient

CONSTANTS Sessions, Self, kMaxRecentMsgs,
          WireSize      (* how many pieces the network holds per direction *)

ASSUME ChatSystemAssumption ==
  Self \in Sessions /\ kMaxRecentMsgs \in Nat \ {0} /\ WireSize \in Nat \ {0}

VARIABLES host,         (* "ours" or "stranger"                            *)
          up, down,     (* pieces of the client's, of the session's write  *)
                        (* outstanding that are on the wire                *)
          shown,        (* how many bodies the client has printed          *)
          carried,      (* history: the lines put on the wire in full      *)
          coming,       (* history: the messages put on the client's wire  *)
          s_participants, s_recent, s_write_messages, s_reading, s_writing, s_accepted, s_peer,
          s_wire, s_put, s_heard, s_log, s_first, s_last, s_sent

Srv == INSTANCE ChatServer WITH
  participants_ <- s_participants, recent_msgs_ <- s_recent, write_messages_ <- s_write_messages,
  reading <- s_reading, writing <- s_writing, accepted <- s_accepted, peer <- s_peer,
  wire <- s_wire, put <- s_put, heard <- s_heard, log <- s_log, first <- s_first, last <- s_last,
  sent <- s_sent

server_ == <<s_participants, s_recent, s_write_messages, s_reading, s_writing, s_accepted, s_peer,
             s_wire, s_put, s_heard, s_log, s_first, s_last, s_sent>>
link == <<up, down, shown, carried, coming>>
systemVars == <<host, vars, server_, link>>

SystemInit ==
  /\ host \in {"ours", "stranger"}
  /\ Init /\ Srv!Init
  /\ up = 0 /\ down = 0 /\ shown = 0
  /\ carried = <<>> /\ coming = <<>>

Others == Sessions \ {Self}

Alone(A) == A /\ UNCHANGED <<host, server_, link>>

--------------------------------------------------------------------------------
(* Steps of the client's program.                                          *)

Connects ==
  /\ Connected
  /\ IF host = "ours" THEN endpoint = Endpoints /\ Srv!Connect(Self) ELSE UNCHANGED server_
  /\ UNCHANGED <<host, link>>

(* readBody prints what it has read.                                       *)
ClientReads ==
  /\ ReadPiece
  /\ shown' = IF reading = "body" THEN shown + 1 ELSE shown
  /\ UNCHANGED <<host, server_, up, down, carried, coming>>

(* A server that has gone may yet seem to take what is written to it.      *)
ClientWrites ==
  /\ \/ WriteDone /\ (host = "stranger" \/ up = 2 \/ server = "gone")
     \/ WriteFails
  /\ up' = 0
  /\ UNCHANGED <<host, server_, down, shown, carried, coming>>

(* The steps that neither the session nor the network takes part in.       *)
ClientElse == GetLine \/ EndOfInput \/ Join \/ NextEndpoint \/ ConnectFails \/ PostedHandler
              \/ ReadFails \/ RunReturns

--------------------------------------------------------------------------------
(* Steps of the server's program.                                          *)

OthersSpeak ==
  \E s \in Others :
    \/ Srv!Connect(s) \/ Srv!Accept(s) \/ Srv!ReadHandler(s)
    \/ Srv!Put(s) /\ \A k \in DOMAIN s_wire'[s] : s_wire'[s][k] # "badheader"

ServerReads == Srv!AcceptHandler(Self) \/ Srv!ReadHandler(Self)

ServerAlone ==
  /\ host = "ours"
  /\ OthersSpeak \/ ServerReads
  /\ UNCHANGED <<host, vars, link>>

ServerWrites ==
  /\ \/ Srv!WriteDone(Self) /\ (down = 2 \/ s_peer[Self] = "gone")
     \/ Srv!WriteFails(Self)
  /\ down' = 0
  /\ UNCHANGED <<host, vars, up, shown, carried, coming>>

--------------------------------------------------------------------------------
(* The connection.                                                         *)

Standing == connect = "connected" /\ server = "there" /\ s_peer[Self] = "there"

(* What comes next of a write of which k pieces are on the wire.  The      *)
(* pieces of writes that overlap come in any order.                        *)
NextPiece(k, writes) ==
  IF writes > 1 THEN {"header", "body"} ELSE IF k = 0 THEN {"header"} ELSE {"body"}

(* The client always sends headers that decodeHeader accepts: see          *)
(* EveryLengthSurvives.                                                    *)
CarryUp ==
  /\ Standing /\ socket_ = "open"
  /\ writing > 0 /\ ~writeDoomed /\ up < 2 /\ Len(s_wire[Self]) < WireSize
  /\ up' = up + 1
  /\ \E p \in NextPiece(up, writing) : s_wire' = [s_wire EXCEPT ![Self] = Append(@, p)]
  /\ carried' = IF up = 1 THEN Append(carried, Head(write_messages_)) ELSE carried
  /\ UNCHANGED <<host, vars, down, shown, coming, s_participants, s_recent, s_write_messages,
                 s_reading, s_writing, s_accepted, s_peer, s_put, s_heard, s_log, s_first, s_last,
                 s_sent>>

CarryDown ==
  /\ Standing
  /\ s_writing[Self] > 0 /\ down < 2 /\ Len(wire) < WireSize
  /\ down' = down + 1
  /\ \E p \in NextPiece(down, s_writing[Self]) : wire' = Append(wire, p)
  /\ coming' = IF down = 1 THEN Append(coming, Head(s_write_messages[Self])) ELSE coming
  /\ UNCHANGED <<host, mainThread, posted, stopped, socket_, connecting, readSide, writeSide, server,
                 put, server_, up, shown, carried>>

(* The server learns that the client has closed its socket, or ended.      *)
ClientGone ==
  /\ socket_ = "closed" \/ stopped
  /\ Srv!HangUp(Self)
  /\ UNCHANGED <<host, vars, link>>

(* A session that nobody holds is destroyed and its socket closed; an      *)
(* accept that failed has left no session.                                 *)
SessionGone ==
  /\ Self \in s_accepted /\ Srv!Released(Self)
  /\ Gone
  /\ UNCHANGED <<host, server_, link>>

(* The network fails.                                                      *)
Break ==
  /\ Standing
  /\ Gone /\ Srv!HangUp(Self)
  /\ UNCHANGED <<host, link>>

--------------------------------------------------------------------------------

SystemNext ==
  \/ Alone(ClientElse) \/ Connects \/ ClientReads \/ ClientWrites
  \/ host = "stranger" /\ Alone(Put \/ Gone)
  \/ ServerAlone \/ ServerWrites
  \/ CarryUp \/ CarryDown \/ ClientGone \/ SessionGone \/ Break

(* What run() can do in the client: of a stranger no more is known than in *)
(* ChatClient.                                                             *)
ClientHandlers ==
  \/ Alone(PostedHandler \/ RunReturns) \/ ClientReads \/ Alone(ReadFails)
  \/ /\ host = "ours" \/ socket_ = "closed" \/ server = "gone"
     /\ Connects \/ Alone(NextEndpoint \/ ConnectFails)
  \/ /\ host = "ours" \/ socket_ = "closed" \/ server = "gone" \/ connect = "failed" \/ writeDoomed
     /\ ClientWrites

ServerHandlers ==
  \/ ServerReads /\ UNCHANGED <<host, vars, link>>
  \/ ServerWrites

Network == CarryUp \/ CarryDown \/ ClientGone \/ SessionGone

(* Neither run() idles while a handler can be called, and the network      *)
(* carries what there is room for.  Nobody is made to type or to speak,    *)
(* and no network to fail.                                                 *)
SystemSpec ==
  /\ SystemInit
  /\ [][SystemNext]_systemVars
  /\ WF_systemVars(Alone(Join))
  /\ WF_systemVars(ClientHandlers) /\ WF_systemVars(ServerHandlers) /\ WF_systemVars(Network)

--------------------------------------------------------------------------------
(* Properties.                                                             *)

(* The two ends agree, in both directions, on where in the stream they     *)
(* are: an end that waits for a header finds one next, an end that waits   *)
(* for a body finds that, whatever was written when.  Were two writes      *)
(* under way at once, a body would be decoded as a header.                 *)
Framed(expected, pieces) ==
  \A k \in 1 .. Len(pieces) :
    pieces[k] = IF (k % 2 = 1) <=> (expected = "header") THEN "header" ELSE "body"

EndsAgree ==
  host = "ours" =>
    /\ reading # "none" => Framed(reading, wire)
    /\ s_reading[Self] # "none" => Framed(s_reading[Self], s_wire[Self])

(* From end to end: the lines typed are said in the room in the order of   *)
(* their typing, none left out and none twice, until the connection ends;  *)
(* and what the client prints is the conversation, from the client's share *)
(* of what was said before it came onwards.                                *)
ConversationKept ==
  host = "ours" =>
    /\ carried = [k \in 1 .. Len(carried) |-> k]
    /\ s_heard[Self] <= Len(carried)
    /\ shown <= Len(coming)
    /\ Len(coming) > 0 =>
         coming = SubSeq(s_log, s_first[Self], s_first[Self] + Len(coming) - 1)

(* Each end reads on whatever it has to write, so that neither holds up    *)
(* the other, however little the network takes: a line that is typed comes *)
(* back to be printed, unless the connection ends first.                   *)
PrintedOwn(n) == \E k \in 1 .. Len(coming) : k <= shown /\ coming[k] = <<Self, n>>

Over == socket_ = "closed" \/ server = "gone" \/ stopped

LinesComeBack ==
  \A n \in 1 .. Lines : host = "ours" /\ typed >= n ~> PrintedOwn(n) \/ Over

(* When the input has ended, both programs let go: the client's close()    *)
(* makes whatever is outstanding complete, so that run() returns and the   *)
(* thread is joined; and its session, if it ever had one, leaves the room  *)
(* with nothing left that keeps it.                                        *)
EndOfInputReturns ==
  main = "join" ~>
    /\ main = "done"
    /\ s_peer[Self] = "away" \/ (Self \in s_accepted /\ Srv!Released(Self))

================================================================================

------------------------------- MODULE ChatClient -------------------------------
(***************************************************************************)
(* asio_test/chat/chat_client.cpp.  The main thread reads lines and posts  *)
(* them, and at the end posts the close, to the io_context another thread  *)
(* runs; it then joins that thread, which goes on as long as anything is   *)
(* posted or outstanding.  A line of more than bodyMaxLength characters    *)
(* makes getline fail, so it ends the input as its end does.               *)
(*                                                                         *)
(* The io thread runs one handler at a time, each an action.  An operation *)
(* that close(), or the move to the next endpoint, finds outstanding may   *)
(* have succeeded already or is cancelled; one started on a closed socket  *)
(* is doomed to fail.                                                      *)
(*                                                                         *)
(* The server is the environment: it accepts or refuses, sends pieces that *)
(* decodeHeader takes or refuses, and may go at any time.  ChatSystem puts *)
(* ChatServer in its place, and says which steps are fair.                 *)
(***************************************************************************)
EXTENDS ChatMessage

CONSTANTS Lines,        (* how many lines the user types at most           *)
          Endpoints,    (* how many endpoints the resolver has found       *)
          Pieces        (* how many pieces the server sends at most        *)

ASSUME ChatClientAssumption == Lines \in Nat /\ Endpoints \in Nat \ {0} /\ Pieces \in Nat

VARIABLES main,         (* the main thread: "getline", "join", "done"      *)
          typed,        (* how many lines it has read                      *)
          posted,       (* what it has posted: line numbers and Close      *)
          stopped,      (* run() has returned                              *)
          socket_,      (* "open" or "closed"                              *)
          connect,      (* "pending", "connected" or "failed"              *)
          endpoint,     (* the endpoint async_connect is at                *)
          reading, readDoomed,
          write_messages_, writing, writeDoomed,
          server,       (* "there" or "gone"                               *)
          wire, put,    (* its pieces on the wire, and how many it put     *)
          written       (* history: the lines whose write has succeeded    *)

vars == <<main, typed, posted, stopped, socket_, connect, endpoint, reading, readDoomed,
          write_messages_, writing, writeDoomed, server, wire, put, written>>

mainThread == <<main, typed>>
connecting == <<connect, endpoint>>
readSide == <<reading, readDoomed>>
writeSide == <<write_messages_, writing, writeDoomed, written>>
environment == <<server, wire, put>>

Close == 0       (* the posted close(); lines are numbered from 1          *)

Init ==
  /\ main = "getline" /\ typed = 0
  /\ posted = <<>> /\ stopped = FALSE
  /\ socket_ = "open"
  /\ connect = "pending" /\ endpoint = 1
  /\ reading = "none" /\ readDoomed = FALSE
  /\ write_messages_ = <<>> /\ writing = 0 /\ writeDoomed = FALSE /\ written = <<>>
  /\ server = "there" /\ wire = <<>> /\ put = 0

--------------------------------------------------------------------------------
(* The main thread.                                                        *)

GetLine ==
  /\ main = "getline" /\ typed < Lines
  /\ typed' = typed + 1
  /\ posted' = Append(posted, typed + 1)
  /\ UNCHANGED <<main, stopped, socket_, connecting, readSide, writeSide, environment>>

EndOfInput ==
  /\ main = "getline"
  /\ main' = "join"
  /\ posted' = Append(posted, Close)
  /\ UNCHANGED <<typed, stopped, socket_, connecting, readSide, writeSide, environment>>

Join ==
  /\ main = "join" /\ stopped
  /\ main' = "done"
  /\ UNCHANGED <<typed, posted, stopped, socket_, connecting, readSide, writeSide, environment>>

--------------------------------------------------------------------------------
(* The io thread.                                                          *)

StartRead(what, state) ==
  /\ reading' = what
  /\ readDoomed' = (state = "closed")

StartWrite(state) ==
  /\ writing' = writing + 1
  /\ writeDoomed' = (state = "closed")

(* The handler of connect().  A refused endpoint is followed by the next,  *)
(* on a socket closed and opened anew.                                     *)
NextEndpoint ==
  /\ ~stopped /\ connect = "pending" /\ socket_ = "open"
  /\ endpoint < Endpoints
  /\ endpoint' = endpoint + 1
  /\ writeDoomed' = (writing > 0)
  /\ UNCHANGED <<mainThread, posted, stopped, socket_, connect, readSide, write_messages_, writing,
                 written, environment>>

Connected ==
  /\ ~stopped /\ connect = "pending" /\ socket_ = "open"
  /\ connect' = "connected"
  /\ StartRead("header", "open")
  /\ UNCHANGED <<mainThread, posted, stopped, socket_, endpoint, writeSide, environment>>

ConnectFails ==
  /\ ~stopped /\ connect = "pending"
  /\ socket_ = "closed" \/ endpoint = Endpoints
  /\ connect' = "failed"
  /\ UNCHANGED <<mainThread, posted, stopped, socket_, endpoint, readSide, writeSide, environment>>

(* The lambda ChatClient::write posts.                                     *)
PostedLine ==
  /\ ~stopped /\ posted # <<>> /\ Head(posted) # Close
  /\ posted' = Tail(posted)
  /\ write_messages_' = Append(write_messages_, Head(posted))
  /\ IF write_messages_ = <<>> THEN StartWrite(socket_) ELSE UNCHANGED <<writing, writeDoomed>>
  /\ UNCHANGED <<mainThread, stopped, socket_, connecting, readSide, written, environment>>

(* Fault: the close waits for the lines to be written, and is forgotten.   *)
PostedClose_WhenIdle ==
  /\ ~stopped /\ posted # <<>> /\ Head(posted) = Close
  /\ posted' = Tail(posted)
  /\ socket_' = IF write_messages_ = <<>> THEN "closed" ELSE socket_
  /\ UNCHANGED <<mainThread, stopped, connecting, readSide, writeSide, environment>>

(* The lambda ChatClient::close posts.                                     *)
PostedClose ==
  /\ ~stopped /\ posted # <<>> /\ Head(posted) = Close
  /\ posted' = Tail(posted)
  /\ socket_' = "closed"
  /\ UNCHANGED <<mainThread, stopped, connecting, readSide, writeSide, environment>>

(* The handlers of readHeader and readBody.                                *)
ReadPiece ==
  /\ ~stopped /\ reading # "none" /\ ~readDoomed /\ wire # <<>>
  /\ wire' = Tail(wire)
  /\ IF reading = "header" /\ Head(wire) = "badheader"
     THEN reading' = "none" /\ socket_' = "closed" /\ UNCHANGED readDoomed
     ELSE /\ StartRead(IF reading = "header" THEN "body" ELSE "header", socket_)
          /\ UNCHANGED socket_
  /\ UNCHANGED <<mainThread, posted, stopped, connecting, writeSide, server, put>>

(* Fault: the end of the connection is not followed by a close.            *)
ReadFails_NoClose ==
  /\ ~stopped /\ reading # "none"
  /\ readDoomed \/ socket_ = "closed" \/ server = "gone"
  /\ reading' = "none"
  /\ UNCHANGED <<mainThread, posted, stopped, socket_, connecting, readDoomed, writeSide, environment>>

(* Fault: a read that fails is tried again.                                *)
ReadFails_Retries ==
  /\ ~stopped /\ reading # "none"
  /\ readDoomed \/ socket_ = "closed" \/ server = "gone"
  /\ StartRead(reading, socket_)
  /\ UNCHANGED <<mainThread, posted, stopped, socket_, connecting, writeSide, environment>>

ReadFails ==
  /\ ~stopped /\ reading # "none"
  /\ readDoomed \/ socket_ = "closed" \/ server = "gone"
  /\ reading' = "none"
  /\ socket_' = "closed"
  /\ UNCHANGED <<mainThread, posted, stopped, connecting, readDoomed, writeSide, environment>>

(* The handler of write().                                                 *)
WriteDone ==
  /\ ~stopped /\ writing > 0 /\ ~writeDoomed /\ connect = "connected"
  /\ written' = Append(written, Head(write_messages_))
  /\ write_messages_' = Tail(write_messages_)
  /\ IF Len(write_messages_) > 1
     THEN writing' = writing /\ writeDoomed' = (socket_ = "closed")
     ELSE writing' = writing - 1 /\ UNCHANGED writeDoomed
  /\ UNCHANGED <<mainThread, posted, stopped, socket_, connecting, readSide, environment>>

(* Fault: a line that could not be written is dropped and the next tried.  *)
WriteFails_Drops ==
  /\ ~stopped /\ writing > 0
  /\ writeDoomed \/ socket_ = "closed" \/ server = "gone" \/ connect = "failed"
  /\ writing' = writing - 1
  /\ write_messages_' = Tail(write_messages_)
  /\ socket_' = "closed"
  /\ UNCHANGED <<mainThread, posted, stopped, connecting, readSide, writeDoomed, written, environment>>

WriteFails ==
  /\ ~stopped /\ writing > 0
  /\ writeDoomed \/ socket_ = "closed" \/ server = "gone" \/ connect = "failed"
  /\ writing' = writing - 1
  /\ socket_' = "closed"
  /\ UNCHANGED <<mainThread, posted, stopped, connecting, readSide, write_messages_, writeDoomed,
                 written, environment>>

(* run() returns when it has nothing to do and nothing to wait for.        *)
RunReturns ==
  /\ ~stopped
  /\ posted = <<>> /\ connect # "pending" /\ reading = "none" /\ writing = 0
  /\ stopped' = TRUE
  /\ UNCHANGED <<mainThread, posted, socket_, connecting, readSide, writeSide, environment>>

--------------------------------------------------------------------------------
(* The server.                                                             *)

Put ==
  /\ server = "there" /\ connect = "connected" /\ put < Pieces
  /\ put' = put + 1
  /\ \E piece \in IF put % 2 = 0 THEN {"header", "badheader"} ELSE {"body"} : wire' = Append(wire, piece)
  /\ UNCHANGED <<mainThread, posted, stopped, socket_, connecting, readSide, writeSide, server>>

Gone ==
  /\ server = "there"
  /\ server' = "gone"
  /\ UNCHANGED <<mainThread, posted, stopped, socket_, connecting, readSide, writeSide, wire, put>>

--------------------------------------------------------------------------------

ConnectHandler == NextEndpoint \/ Connected \/ ConnectFails
PostedHandler == PostedLine \/ PostedClose
ReadHandler == ReadPiece \/ ReadFails
WriteHandler == WriteDone \/ WriteFails

Next ==
  \/ GetLine \/ EndOfInput \/ Join
  \/ ConnectHandler \/ PostedHandler \/ ReadHandler \/ WriteHandler \/ RunReturns
  \/ Put \/ Gone

Spec == Init /\ [][Next]_vars

--------------------------------------------------------------------------------
(* Properties.                                                             *)

TypeOK ==
  /\ main \in {"getline", "join", "done"}
  /\ typed \in 0 .. Lines
  /\ posted \in Seq(0 .. Lines)
  /\ stopped \in BOOLEAN
  /\ socket_ \in {"open", "closed"}
  /\ connect \in {"pending", "connected", "failed"}
  /\ endpoint \in 1 .. Endpoints
  /\ reading \in {"none", "header", "body"} /\ readDoomed \in BOOLEAN
  /\ write_messages_ \in Seq(1 .. Lines) /\ writing \in Nat /\ writeDoomed \in BOOLEAN
  /\ server \in {"there", "gone"}
  /\ wire \in Seq({"header", "badheader", "body"})
  /\ put \in 0 .. Pieces
  /\ written \in Seq(1 .. Lines)

(* One write is outstanding at most, and while the socket is open one is   *)
(* whenever there are lines to write: what no write is under way for has   *)
(* been given up with the connection.                                      *)
WritesWhileQueued ==
  /\ writing <= 1
  /\ writing = 1 => write_messages_ # <<>>
  /\ writing = 0 /\ write_messages_ # <<>> => socket_ = "closed"

(* Across the two threads every line typed is in one place, and in order:  *)
(* written, waiting to be written or posted; and the close is posted after *)
(* the last of them, once.                                                 *)
LinesInOrder ==
  \E closing \in {<<>>, <<Close>>} :
    /\ written \o write_messages_ \o posted = [k \in 1 .. typed |-> k] \o closing
    /\ main = "getline" => closing = <<>>

(* A client whose connection stands listens to it.                         *)
ListensWhileOpen == connect = "connected" /\ socket_ = "open" => reading # "none"

(* The types, and a connection that is served in both directions: lines to *)
(* write have one write under way, and what arrives has a reader.          *)
Consistent == TypeOK /\ WritesWhileQueued /\ ListensWhileOpen

(* A client that waits for a header is safe whatever arrives: the length   *)
(* decoded never goes beyond the buffer the body is read into; and the     *)
(* messages the main thread makes of its lines are decoded to the lengths  *)
(* they were given, however many digits those have.                        *)
HeaderSafe ==
  /\ reading = "header" => AnyHeaderFits
  /\ typed > 0 => EveryLengthSurvives

(* When the server goes, the io thread finds nothing left to wait for and  *)
(* ends, the main thread reading lines or not.                             *)
GoneStopsThread == server = "gone" ~> stopped

================================================================================

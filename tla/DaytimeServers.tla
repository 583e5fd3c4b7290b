----------------------------- MODULE DaytimeServers -----------------------------
(***************************************************************************)
(* The three asynchronous daytime servers: udp_server_async ("udp"),       *)
(* tcp_server_async ("tcp") and tcp_udp_server_async ("both").  One thread *)
(* runs the io_context, so an action is one completion handler, or what    *)
(* the reactor does for an outstanding operation between two of them.      *)
(*                                                                         *)
(* A datagram is its sender; the network may drop one (it never arrives)   *)
(* and may duplicate one (it arrives twice).  The reactor tries an         *)
(* operation when it is started, so a receive can have overwritten         *)
(* endpoint_ before async_receive_from returns; a send copies the          *)
(* endpoint it is given and only points at the message.                    *)
(***************************************************************************)
EXTENDS Naturals, SequencesExt

CONSTANTS Clients,      \* who sends datagrams and connects
          Pieces,       \* how many writes the socket may take for one message
          Datagrams,    \* bound: the datagrams that arrive
          InboxSize,    \* bound: what the socket's buffer holds
          Failures      \* bound: the accepts that fail

ASSUME DaytimeAssumption == {Pieces, Datagrams, InboxSize, Failures} \subseteq Nat /\ Pieces > 0

VARIABLES
  program,     \* which of the servers this process is
  running,     \* inside io_context.run()
  inbox,       \* the datagrams in the socket's buffer
  endpoint_,   \* the member every receive writes the sender to, 0 before
  receiving,   \* the receive: "waiting", "complete", "failed" (its handler is due), "stopped" (there is none)
  sends,       \* the sends that wait for the socket: to whom, and whether the handler keeps the message
  taken,       \* history: the senders of the datagrams received
  replies,     \* history: what became of each answer, in order
  backlog,     \* the connections not accepted yet
  accepting,   \* the accept: as for the receive
  accepted,    \* the client of the accept that is complete, 0 if none
  conn,        \* a client's connection: "none", "open", "writing", "closed" (destroyed by the server)
  written,     \* the pieces of the message written to it
  gone,        \* the clients that gave up their connection
  failures

udpVars == <<inbox, endpoint_, receiving, sends, taken, replies>>
tcpVars == <<backlog, accepting, accepted, conn, written, failures>>
vars == <<program, running, udpVars, tcpVars, gone>>

None == 0
Receives == program \in {"udp", "both"}
Listens == program \in {"tcp", "both"}

(* The constructors: a receive is started, and an accept by TCPServer of   *)
(* tcp_server_async; the one of tcp_udp_server_async only opens its        *)
(* acceptor and never calls startAccept.                                   *)
Init ==
  /\ program \in {"udp", "tcp", "both"}
  /\ running = TRUE
  /\ inbox = <<>> /\ endpoint_ = None
  /\ receiving = IF Receives THEN "waiting" ELSE "stopped"
  /\ sends = <<>> /\ taken = <<>> /\ replies = <<>>
  /\ backlog = <<>>
  /\ accepting = IF program = "tcp" THEN "waiting" ELSE "stopped"
  /\ accepted = None
  /\ conn = [c \in Clients |-> "none"]
  /\ written = [c \in Clients |-> 0]
  /\ gone = {} /\ failures = 0

--------------------------------------------------------------------------------
(* The world outside.                                                      *)

DatagramArrives(c) ==
  /\ running /\ Receives
  /\ Len(inbox) < InboxSize /\ Len(inbox) + Len(taken) < Datagrams
  /\ inbox' = Append(inbox, c)
  /\ UNCHANGED <<program, running, endpoint_, receiving, sends, taken, replies, tcpVars, gone>>

Connect(c) ==
  /\ running /\ Listens /\ conn[c] = "none"
  /\ conn' = [conn EXCEPT ![c] = "open"]
  /\ backlog' = Append(backlog, c)
  /\ UNCHANGED <<program, running, udpVars, accepting, accepted, written, gone, failures>>

GivesUp(c) ==
  /\ conn[c] \in {"open", "writing"} /\ c \notin gone
  /\ gone' = gone \cup {c}
  /\ UNCHANGED <<program, running, udpVars, tcpVars>>

--------------------------------------------------------------------------------
(* Datagrams.                                                              *)

TakeDatagram ==
  /\ inbox # <<>>
  /\ endpoint_' = Head(inbox)
  /\ taken' = Append(taken, Head(inbox))
  /\ inbox' = Tail(inbox)
  /\ receiving' = "complete"

ReceiveFails ==
  /\ receiving' = "failed"
  /\ UNCHANGED <<inbox, endpoint_, taken>>

startReceive ==
  \/ receiving' = "waiting" /\ UNCHANGED <<inbox, endpoint_, taken>>
  \/ TakeDatagram
  \/ ReceiveFails

ReceiveCompletes ==
  /\ running /\ receiving = "waiting"
  /\ TakeDatagram \/ ReceiveFails
  /\ UNCHANGED <<program, running, sends, replies, tcpVars, gone>>

(* Only a send that finds none before it waiting is tried at once, while   *)
(* its message is there.                                                   *)
async_send_to(to, kept) ==
  \/ /\ sends = <<>>
     /\ \E kind \in {"intact", "lost"} : replies' = Append(replies, [to |-> to, kind |-> kind])
     /\ UNCHANGED sends
  \/ sends' = Append(sends, [to |-> to, kept |-> kept]) /\ UNCHANGED replies

handleReceive_ReceivesFirst ==
  /\ running /\ receiving = "complete"
  /\ startReceive
  /\ async_send_to(endpoint_', program = "udp")
  /\ UNCHANGED <<program, running, tcpVars, gone>>

(* The answer goes to endpoint_ as it was before the next receive.  Only   *)
(* udp_server_async binds the message to the handler; the lambda of        *)
(* tcp_udp_server_async lets it go when this handler returns.              *)
handleReceive ==
  /\ running /\ receiving = "complete"
  /\ async_send_to(endpoint_, program = "udp")
  /\ startReceive
  /\ UNCHANGED <<program, running, tcpVars, gone>>

handleReceiveError ==
  /\ running /\ receiving = "failed"
  /\ receiving' = "stopped"
  /\ UNCHANGED <<program, running, inbox, endpoint_, sends, taken, replies, tcpVars, gone>>

(* A send that waited: what the socket takes is whatever is at the         *)
(* message's address by then.  handleSend does nothing.                    *)
SendCompletes ==
  /\ running /\ sends # <<>>
  /\ \E kind \in {"intact", "lost"} \cup (IF Head(sends).kept THEN {} ELSE {"garbled"}) :
       replies' = Append(replies, [to |-> Head(sends).to, kind |-> kind])
  /\ sends' = Tail(sends)
  /\ UNCHANGED <<program, running, inbox, endpoint_, receiving, taken, tcpVars, gone>>

--------------------------------------------------------------------------------
(* Connections.                                                            *)

AcceptCompletes ==
  /\ running /\ accepting = "waiting" /\ backlog # <<>>
  /\ accepted' = Head(backlog) /\ backlog' = Tail(backlog)
  /\ accepting' = "complete"
  /\ UNCHANGED <<program, running, udpVars, conn, written, gone, failures>>

AcceptFails ==
  /\ running /\ accepting = "waiting" /\ failures < Failures
  /\ accepting' = "failed" /\ failures' = failures + 1
  /\ UNCHANGED <<program, running, udpVars, backlog, accepted, conn, written, gone>>

start(c) == conn' = [conn EXCEPT ![c] = "writing"]

handleAccept ==
  /\ running /\ accepting = "complete"
  /\ start(accepted) /\ accepted' = None
  /\ accepting' = "waiting"
  /\ UNCHANGED <<program, running, udpVars, backlog, written, gone, failures>>

handleAcceptError_Returns ==
  /\ running /\ accepting = "failed"
  /\ accepting' = "stopped"
  /\ UNCHANGED <<program, running, udpVars, backlog, accepted, conn, written, gone, failures>>

(* An accept that failed is followed by another like one that did not.     *)
handleAcceptError ==
  /\ running /\ accepting = "failed"
  /\ accepting' = "waiting"
  /\ UNCHANGED <<program, running, udpVars, backlog, accepted, conn, written, gone, failures>>

(* async_write goes on until all is written; its handler is what keeps the *)
(* connection, which closes its socket when the last piece is out.         *)
Write(c) ==
  /\ running /\ conn[c] = "writing"
  /\ written' = [written EXCEPT ![c] = @ + 1]
  /\ conn' = IF written'[c] = Pieces THEN [conn EXCEPT ![c] = "closed"] ELSE conn
  /\ UNCHANGED <<program, running, udpVars, backlog, accepting, accepted, gone, failures>>

WriteFails(c) ==
  /\ running /\ conn[c] = "writing" /\ c \in gone
  /\ conn' = [conn EXCEPT ![c] = "closed"]
  /\ UNCHANGED <<program, running, udpVars, backlog, accepting, accepted, written, gone, failures>>

--------------------------------------------------------------------------------
(* run() returns when no operation is outstanding and no handler is due;   *)
(* main ends, and with it the connections nobody accepted.                 *)
RunReturns ==
  /\ running
  /\ receiving = "stopped" /\ sends = <<>> /\ accepting = "stopped"
  /\ \A c \in Clients : conn[c] # "writing"
  /\ running' = FALSE
  /\ UNCHANGED <<program, udpVars, tcpVars, gone>>

Next ==
  \/ \E c \in Clients : DatagramArrives(c) \/ Connect(c) \/ GivesUp(c)
  \/ ReceiveCompletes \/ handleReceive \/ handleReceiveError \/ SendCompletes
  \/ AcceptCompletes \/ AcceptFails \/ handleAccept \/ handleAcceptError
  \/ \E c \in Clients : Write(c) \/ WriteFails(c)
  \/ RunReturns

(* The handlers run and the reactor notices what has arrived and what the  *)
(* datagram socket can take.  A client need never read, so nothing is      *)
(* assumed of Write.                                                       *)
Spec ==
  /\ Init /\ [][Next]_vars
  /\ WF_vars(ReceiveCompletes) /\ WF_vars(handleReceive) /\ WF_vars(handleReceiveError)
  /\ WF_vars(SendCompletes)
  /\ WF_vars(AcceptCompletes) /\ WF_vars(handleAccept) /\ WF_vars(handleAcceptError)
  /\ WF_vars(RunReturns)

--------------------------------------------------------------------------------
(* Properties.                                                             *)

Senders(s) == [i \in DOMAIN s |-> s[i].to]

(* Whom the server has received a datagram from and not answered yet.      *)
Owed == Senders(sends) \o (IF receiving = "complete" THEN <<endpoint_>> ELSE <<>>)

(* Every datagram is answered once, in order, to whoever sent it, although *)
(* all receives share endpoint_; the answer is intact unless it had to     *)
(* wait in the server whose handler does not keep it; and a connection is  *)
(* destroyed only when all is written or its client has gone.              *)
EachAnswered ==
  /\ Senders(replies) \o Owed = taken
  /\ \A i \in DOMAIN replies : replies[i].kind = "garbled" => program = "both"
  /\ \A c \in Clients : conn[c] = "closed" => written[c] = Pieces \/ c \in gone

(* What has been received is answered even if the next receive fails; what *)
(* has arrived is received unless one has failed, after which udp servers  *)
(* answer nobody and end; and every connection to tcp_server_async is      *)
(* accepted, whichever accepts fail and whoever does not read.             *)
ServesUntilError ==
  /\ \A n \in 1 .. Datagrams :
       /\ (Len(taken) >= n) ~> (Len(replies) >= n)
       /\ (Len(taken) + Len(inbox) >= n) ~> (Len(replies) >= n \/ receiving = "stopped")
  /\ (Receives /\ receiving = "stopped") ~> ~running
  /\ \A c \in Clients : (program = "tcp" /\ conn[c] = "open") ~> (conn[c] # "open")

================================================================================

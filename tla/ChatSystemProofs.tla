---------------------------- MODULE ChatSystemProofs ----------------------------
(***************************************************************************)
(* Proofs about ChatSystem, and in it about ChatClient and ChatMessage,    *)
(* for any number of lines, endpoints, sessions and pieces the wire has    *)
(* room for, any header and any length of a body.                          *)
(***************************************************************************)
EXTENDS ChatSystem, TLAPS, SequenceTheorems

(* The most pieces that can have come from a session: Self's come over the *)
(* wire, which put does not count.                                         *)
MostPieces == Pieces + Lines + WireSize

(* The server as ChatServerProofs speaks of it, whatever Self puts on the  *)
(* wire.                                                                   *)
SrvN == INSTANCE ChatServerProofs WITH
  Pieces <- MostPieces,
  participants_ <- s_participants, recent_msgs_ <- s_recent, write_messages_ <- s_write_messages,
  reading <- s_reading, writing <- s_writing, accepted <- s_accepted, peer <- s_peer,
  wire <- s_wire, put <- [s_put EXCEPT ![Self] = MostPieces], heard <- s_heard, log <- s_log,
  first <- s_first, last <- s_last, sent <- s_sent

(* A read is outstanding only once connected.                              *)
ReadsWhenConnected == connect # "connected" => reading = "none"

(* The invariant of the client.                                            *)
ClientIInv ==
  /\ TypeOK
  /\ WritesWhileQueued
  /\ ListensWhileOpen
  /\ LinesInOrder
  /\ ReadsWhenConnected

(* The types of what joins the two.                                        *)
LinkTypeOK ==
  /\ host \in {"ours", "stranger"}
  /\ s_put \in [Sessions -> 0 .. Pieces]
  /\ up \in 0 .. 2 /\ down \in 0 .. 2 /\ shown \in Nat
  /\ carried \in Seq(1 .. Lines) /\ coming \in Seq(SrvN!Messages)
  /\ Len(s_wire[Self]) <= WireSize

(* Our server rests while the client is with a stranger.                   *)
StrangerAlone ==
  host = "stranger" => s_peer[Self] = "away" /\ s_writing[Self] = 0 /\ Self \notin s_accepted

(* What an end reads next: before it reads, the header of the first.       *)
UpExpected == IF Self \in s_accepted THEN s_reading[Self] ELSE "header"
DownExpected == IF connect = "pending" THEN "header" ELSE reading

(* Pieces read of a stream: two of each message read and one of the next.  *)
Read(messages, expected) == 2 * messages + (IF expected = "body" THEN 1 ELSE 0)

OfWrite(k, message) == IF k = 2 THEN <<message>> ELSE <<>>

(* The lines on the client's stream.  While the connection stands, what    *)
(* was read of it and what is on the wire are the lines carried and the    *)
(* header of one more; afterwards nothing is added to it.                  *)
UpStream ==
  /\ carried = [k \in 1 .. Len(carried) |-> k]
  /\ s_heard[Self] <= Len(carried)
  /\ UpExpected # "none" =>
       /\ Framed(UpExpected, s_wire[Self])
       /\ Read(s_heard[Self], UpExpected) + Len(s_wire[Self]) <= 2 * Len(carried) + 1
  /\ socket_ = "open" /\ server = "there" =>
       /\ up > 0 => writing = 1
       /\ carried = written \o OfWrite(up, Head(write_messages_))
       /\ UpExpected # "none" =>
            Read(s_heard[Self], UpExpected) + Len(s_wire[Self]) = 2 * Len(carried) + (up % 2)

(* The messages on the session's stream, likewise; and they are the        *)
(* session's share of the conversation as far as it has come.              *)
DownStream ==
  /\ shown <= Len(coming)
  /\ DownExpected # "none" =>
       /\ Framed(DownExpected, wire)
       /\ Read(shown, DownExpected) + Len(wire) <= 2 * Len(coming) + 1
  /\ Len(coming) > 0 =>
       /\ s_first[Self] # 0 /\ s_first[Self] + Len(coming) - 1 <= Len(s_log)
       /\ coming = SubSeq(s_log, s_first[Self], s_first[Self] + Len(coming) - 1)
  /\ s_peer[Self] # "gone" =>
       /\ down > 0 => s_writing[Self] = 1
       /\ coming = s_sent[Self] \o OfWrite(down, Head(s_write_messages[Self]))
       /\ DownExpected # "none" =>
            Read(shown, DownExpected) + Len(wire) = 2 * Len(coming) + (down % 2)

(* The inductive invariant.                                                *)
SystemIInv ==
  /\ ClientIInv
  /\ SrvN!IInv
  /\ LinkTypeOK
  /\ StrangerAlone
  /\ host = "ours" => UpStream /\ DownStream

--------------------------------------------------------------------------------
(* Sequences of lines.                                                     *)

Upto(n) == [k \in 1 .. n |-> k]

(* A line more.                                                            *)
LEMMA UptoGrows ==
  ASSUME NEW n \in Nat
  PROVE  /\ Upto(n) \in Seq(Nat) /\ Len(Upto(n)) = n /\ \A k \in 1 .. n : Upto(n)[k] = k
         /\ Upto(n + 1) = Append(Upto(n), n + 1)
<1>1. \A m \in Nat : Upto(m) \in Seq(Nat) /\ Len(Upto(m)) = m /\ \A k \in 1 .. m : Upto(m)[k] = k
  BY DEF Upto
<1>2. n + 1 \in Nat
  OBVIOUS
<1> HIDE DEF Upto
<1>3. /\ Append(Upto(n), n + 1) \in Seq(Nat) /\ Len(Append(Upto(n), n + 1)) = n + 1
      /\ \A k \in 1 .. n : Append(Upto(n), n + 1)[k] = k
      /\ Append(Upto(n), n + 1)[n + 1] = n + 1
  BY <1>1, <1>2, AppendProperties
<1>4. \A k \in 1 .. n + 1 : Upto(n + 1)[k] = Append(Upto(n), n + 1)[k]
  <2>1. \A k \in 1 .. n + 1 : k \in 1 .. n \/ k = n + 1
    OBVIOUS
  <2> QED
    BY <1>1, <1>2, <1>3, <2>1
<1>5. Upto(n + 1) = Append(Upto(n), n + 1)
  BY <1>1, <1>2, <1>3, <1>4, SeqEqual
<1> QED
  BY <1>1, <1>5

(* What the queues of lines hold.                                          *)
Entries == Nat

(* Appending an element appends it to a concatenation.                     *)
LEMMA ConcatAppend ==
  ASSUME NEW x \in Seq(Entries), NEW y \in Seq(Entries), NEW e \in Entries
  PROVE  Append(x \o y, e) = x \o Append(y, e)
  BY SMTT(30)

(* The head of a queue moves to the one before it.                         *)
LEMMA HeadMoves ==
  ASSUME NEW x \in Seq(Entries), NEW y \in Seq(Entries), y # <<>>
  PROVE  Append(x, Head(y)) \o Tail(y) = x \o y /\ Head(y) \in Entries /\ Tail(y) \in Seq(Entries)
  BY SMTT(30)

(* Three queues in a row: an element is appended to the last, or moves on  *)
(* from one to the one before.                                             *)
LEMMA ThreeQueues ==
  ASSUME NEW a \in Seq(Entries), NEW b \in Seq(Entries), NEW c \in Seq(Entries)
  PROVE  /\ \A e \in Entries : a \o b \o Append(c, e) = Append(a \o b \o c, e)
         /\ c # <<>> => a \o Append(b, Head(c)) \o Tail(c) = a \o b \o c
         /\ b # <<>> => Append(a, Head(b)) \o Tail(b) \o c = a \o b \o c
<1>1. a \o b \in Seq(Entries) /\ a \o b \o c \in Seq(Entries)
  OBVIOUS
<1>4. c # <<>> => a \o Append(b, Head(c)) \o Tail(c) = a \o b \o c
  <2> SUFFICES ASSUME c # <<>> PROVE a \o Append(b, Head(c)) \o Tail(c) = a \o b \o c
    OBVIOUS
  <2>1. Head(c) \in Entries /\ Append(a \o b, Head(c)) \o Tail(c) = a \o b \o c
    BY <1>1, HeadMoves
  <2>2. Append(a \o b, Head(c)) = a \o Append(b, Head(c))
    BY <2>1, ConcatAppend
  <2> QED
    BY <2>1, <2>2
<1>5. b # <<>> => Append(a, Head(b)) \o Tail(b) \o c = a \o b \o c
  BY HeadMoves
<1>6. \A e \in Entries : a \o b \o Append(c, e) = Append(a \o b \o c, e)
  BY <1>1, ConcatAppend
<1> QED
  BY <1>4, <1>5, <1>6

(* A zero in front of the last of three queues that hold the numbers up to *)
(* n and then perhaps a zero is that zero.                                 *)
LEMMA ZeroIsLast ==
  ASSUME NEW a \in Seq(Nat), NEW c \in Seq(Nat), c # <<>>, Head(c) = 0, NEW n \in Nat,
         a \o c = Upto(n) \/ a \o c = Append(Upto(n), 0)
  PROVE  a = Upto(n) /\ Tail(c) = <<>>
<1>1. /\ Len(a) \in Nat /\ Len(c) \in Nat /\ Len(c) >= 1 /\ c[1] = 0
      /\ Len(Tail(c)) = Len(c) - 1 /\ Tail(c) \in Seq(Nat)
  OBVIOUS
<1>2. /\ Upto(n) \in Seq(Nat) /\ Len(Upto(n)) = n /\ \A k \in 1 .. n : Upto(n)[k] = k
  BY UptoGrows
<1>3. /\ Len(a \o c) = Len(a) + Len(c)
      /\ \A k \in 1 .. Len(a) : (a \o c)[k] = a[k]
      /\ (a \o c)[Len(a) + 1] = 0
  <2>1. /\ Len(a \o c) = Len(a) + Len(c)
        /\ \A i \in 1 .. Len(a) + Len(c) : (a \o c)[i] = IF i <= Len(a) THEN a[i] ELSE c[i - Len(a)]
    BY ConcatProperties
  <2> QED
    BY <2>1, <1>1
<1>4. /\ Len(a \o c) = n \/ Len(a \o c) = n + 1
      /\ \A k \in 1 .. n : (a \o c)[k] = k
  <2>1. /\ Len(Append(Upto(n), 0)) = n + 1
        /\ \A k \in 1 .. n : Append(Upto(n), 0)[k] = k
    BY <1>2, AppendProperties
  <2> QED
    BY <1>2, <2>1
<1>5. Len(a) >= n
  <2> SUFFICES ASSUME Len(a) < n PROVE FALSE
    BY <1>1
  <2>1. Len(a) + 1 \in 1 .. n
    BY <1>1
  <2> QED
    BY <2>1, <1>1, <1>3, <1>4
<1>6. Len(a) = n /\ Len(c) = 1
  BY <1>1, <1>3, <1>4, <1>5
<1>7. a = Upto(n)
  <2>1. \A k \in 1 .. Len(a) : a[k] = Upto(n)[k]
    BY <1>2, <1>3, <1>4, <1>6
  <2> QED
    BY <2>1, <1>2, <1>6, SeqEqual
<1>8. Len(Tail(c)) = 0
  BY <1>1, <1>6
<1> QED
  BY <1>1, <1>7, <1>8, EmptySeq

(* The lines in order, as LinesInOrder has them, in total.                 *)
InOrder(total, n, m) ==
  \E closing \in {<<>>, <<Close>>} :
    /\ total = [k \in 1 .. n |-> k] \o closing
    /\ m = "getline" => closing = <<>>

(* It says so of the three queues, before a step and after it.             *)
LEMMA QueuesInOrder ==
  /\ LinesInOrder <=> InOrder(written \o write_messages_ \o posted, typed, main)
  /\ LinesInOrder' <=> InOrder(written' \o write_messages_' \o posted', typed', main')
BY Zenon DEF LinesInOrder, InOrder

(* The lines in order, with or without a close behind them.                *)
LEMMA Closing ==
  ASSUME NEW total, NEW n \in Nat, NEW m
  PROVE  InOrder(total, n, m)
         <=> (total = Upto(n) \/ (m # "getline" /\ total = Append(Upto(n), 0)))
<1>1. Upto(n) \in Seq(Nat)
  BY UptoGrows
<1>2. Upto(n) \o <<>> = Upto(n)
  BY <1>1, ConcatEmptySeq
<1>3. Upto(n) \o <<0>> = Append(Upto(n), 0)
  BY <1>1, AppendIsConcat
<1>4. (\E closing \in {<<>>, <<0>>} : total = Upto(n) \o closing /\ (m = "getline" => closing = <<>>))
      <=> (total = Upto(n) \/ (m # "getline" /\ total = Append(Upto(n), 0)))
  <2>1. <<0>> # <<>>
    OBVIOUS
  <2> QED
    BY <1>2, <1>3, <2>1
<1> QED
  BY <1>4 DEF InOrder, Close, Upto

--------------------------------------------------------------------------------
(* The client, whatever it is connected to.                                *)

(* What its types say of the lines.                                        *)
LEMMA LineTypes ==
  ASSUME TypeOK
  PROVE  /\ written \in Seq(Entries) /\ write_messages_ \in Seq(Entries) /\ posted \in Seq(Entries)
         /\ typed \in Nat /\ Lines \in Nat
<1>1. Lines \in Nat
  BY ChatClientAssumption
<1>2. 1 .. Lines \subseteq Entries /\ 0 .. Lines \subseteq Entries
  BY <1>1 DEF Entries
<1> QED
  BY <1>1, <1>2, SeqMonotonic DEF TypeOK

(* The client's invariant holds at the start.                              *)
LEMMA ClientInit == Init => ClientIInv
<1> SUFFICES ASSUME Init PROVE ClientIInv
  OBVIOUS
<1> USE ChatClientAssumption DEF Init
<1>1. TypeOK
  <2>1. 0 \in 0 .. Lines /\ 1 \in 1 .. Endpoints /\ 0 \in 0 .. Pieces
    OBVIOUS
  <2>2. <<>> \in Seq(0 .. Lines) /\ <<>> \in Seq(1 .. Lines) /\ <<>> \in Seq({"header", "badheader", "body"})
    BY EmptySeq
  <2> QED
    BY <2>1, <2>2 DEF TypeOK
<1>2. WritesWhileQueued /\ ListensWhileOpen /\ ReadsWhenConnected
  BY DEF WritesWhileQueued, ListensWhileOpen, ReadsWhenConnected
<1>3. LinesInOrder
  <2>1. <<>> \o <<>> \o <<>> = <<>>
    OBVIOUS
  <2>2. Len(Upto(0)) = 0 /\ Upto(0) \in Seq(Nat)
    BY UptoGrows
  <2>3. Upto(0) = <<>>
    BY <2>2, EmptySeq
  <2> QED
    BY <2>1, <2>3, Closing, QueuesInOrder
<1> QED
  BY <1>1, <1>2, <1>3 DEF ClientIInv

(* A line typed is posted behind the others.                               *)
LEMMA StepGetLine ==
  ASSUME ClientIInv, GetLine
  PROVE  ClientIInv'
<1>1. /\ main = "getline" /\ main' = main /\ typed < Lines /\ typed' = typed + 1
      /\ posted' = Append(posted, typed + 1)
      /\ UNCHANGED <<stopped, socket_, connect, endpoint, reading, readDoomed, write_messages_, writing,
                     writeDoomed, written, server, wire, put>>
  BY DEF GetLine, connecting, readSide, writeSide, environment
<1>2. TypeOK
  BY DEF ClientIInv
<1>3. /\ written \in Seq(Entries) /\ write_messages_ \in Seq(Entries) /\ posted \in Seq(Entries)
      /\ typed \in Nat /\ Lines \in Nat /\ typed + 1 \in Entries /\ typed + 1 \in Nat
      /\ typed + 1 \in 0 .. Lines
  BY <1>1, <1>2, LineTypes DEF Entries
<1>4. TypeOK'
  BY <1>1, <1>2, <1>3 DEF TypeOK
<1>5. LinesInOrder'
  <2>1. written \o write_messages_ \o posted = Upto(typed)
    BY <1>1, <1>3, Closing, QueuesInOrder DEF ClientIInv
  <2>2. written \o write_messages_ \o Append(posted, typed + 1) = Append(Upto(typed), typed + 1)
    <3>1. \A e \in Entries : written \o write_messages_ \o Append(posted, e)
                             = Append(written \o write_messages_ \o posted, e)
      BY <1>3, ThreeQueues
    <3> QED
      BY <2>1, <3>1, <1>3
  <2>3. written' \o write_messages_' \o posted' = Upto(typed')
    BY <2>2, <1>1, <1>3, UptoGrows
  <2> QED
    BY <2>3, <1>1, <1>3, Closing, QueuesInOrder
<1>6. WritesWhileQueued' /\ ListensWhileOpen' /\ ReadsWhenConnected'
  BY <1>1 DEF ClientIInv, WritesWhileQueued, ListensWhileOpen, ReadsWhenConnected
<1> QED
  BY <1>4, <1>5, <1>6 DEF ClientIInv

(* The close is posted behind the lines, and nothing after it.             *)
LEMMA StepEndOfInput ==
  ASSUME ClientIInv, EndOfInput
  PROVE  ClientIInv'
<1>1. /\ main = "getline" /\ main' = "join" /\ typed' = typed
      /\ posted' = Append(posted, 0)
      /\ UNCHANGED <<stopped, socket_, connect, endpoint, reading, readDoomed, write_messages_, writing,
                     writeDoomed, written, server, wire, put>>
  BY DEF EndOfInput, Close, connecting, readSide, writeSide, environment
<1>2. TypeOK
  BY DEF ClientIInv
<1>3. /\ written \in Seq(Entries) /\ write_messages_ \in Seq(Entries) /\ posted \in Seq(Entries)
      /\ typed \in Nat /\ Lines \in Nat /\ 0 \in Entries /\ 0 \in 0 .. Lines
  BY <1>2, LineTypes DEF Entries
<1>4. TypeOK'
  BY <1>1, <1>2, <1>3 DEF TypeOK
<1>5. LinesInOrder'
  <2>1. written \o write_messages_ \o posted = Upto(typed)
    BY <1>1, <1>3, Closing, QueuesInOrder DEF ClientIInv
  <2>2. written \o write_messages_ \o Append(posted, 0) = Append(Upto(typed), 0)
    <3>1. \A e \in Entries :
            written \o write_messages_ \o Append(posted, e) = Append(written \o write_messages_ \o posted, e)
      BY <1>3, ThreeQueues
    <3> QED
      BY <2>1, <1>3, <3>1
  <2>3. written' \o write_messages_' \o posted' = Append(Upto(typed'), 0) /\ main' # "getline" /\ typed' \in Nat
    BY <2>2, <1>1, <1>3
  <2> QED
    BY <2>3, Closing, QueuesInOrder
<1>6. WritesWhileQueued' /\ ListensWhileOpen' /\ ReadsWhenConnected'
  BY <1>1 DEF ClientIInv, WritesWhileQueued, ListensWhileOpen, ReadsWhenConnected
<1> QED
  BY <1>4, <1>5, <1>6 DEF ClientIInv

(* A posted line goes to the queue, and is written if the queue was empty. *)
LEMMA StepPostedLine ==
  ASSUME ClientIInv, PostedLine
  PROVE  ClientIInv'
<1>1. /\ posted # <<>> /\ Head(posted) # 0 /\ posted' = Tail(posted)
      /\ write_messages_' = Append(write_messages_, Head(posted))
      /\ UNCHANGED <<main, typed, stopped, socket_, connect, endpoint, reading, readDoomed, written, server,
                     wire, put>>
      /\ \/ write_messages_ = <<>> /\ writing' = writing + 1 /\ writeDoomed' \in BOOLEAN
         \/ write_messages_ # <<>> /\ writing' = writing /\ writeDoomed' = writeDoomed
  BY DEF PostedLine, StartWrite, Close, mainThread, connecting, readSide, environment
<1>2. TypeOK
  BY DEF ClientIInv
<1>3. /\ written \in Seq(Entries) /\ write_messages_ \in Seq(Entries) /\ posted \in Seq(Entries)
      /\ typed \in Nat
  BY <1>2, LineTypes
<1>4. Head(posted) \in 1 .. Lines /\ posted' \in Seq(0 .. Lines)
  <2>1. posted \in Seq(0 .. Lines) /\ Head(posted) \in 0 .. Lines /\ Tail(posted) \in Seq(0 .. Lines)
    BY <1>1, <1>2, HeadTailProperties DEF TypeOK
  <2> QED
    BY <1>1, <2>1, ChatClientAssumption
<1>5. write_messages_' \in Seq(1 .. Lines) /\ write_messages_' # <<>>
  BY <1>1, <1>2, <1>4, AppendProperties DEF TypeOK
<1>6. writing' \in Nat /\ (writing' = 1 \/ (writing' = 0 /\ socket_ = "closed"))
  <2>1. /\ writing \in Nat /\ writing <= 1
        /\ writing = 1 => write_messages_ # <<>>
        /\ writing = 0 /\ write_messages_ # <<>> => socket_ = "closed"
    BY <1>2 DEF ClientIInv, TypeOK, WritesWhileQueued
  <2> QED
    BY <1>1, <2>1
<1>7. TypeOK'
  BY <1>1, <1>2, <1>4, <1>5, <1>6 DEF TypeOK
<1>8. LinesInOrder'
  <2>1. written \o Append(write_messages_, Head(posted)) \o Tail(posted) = written \o write_messages_ \o posted
    BY <1>1, <1>3, ThreeQueues
  <2>2. written' \o write_messages_' \o posted' = written \o write_messages_ \o posted
    BY <2>1, <1>1
  <2> QED
    BY <2>2, <1>1 DEF ClientIInv, LinesInOrder
<1>9. WritesWhileQueued'
  BY <1>1, <1>5, <1>6 DEF WritesWhileQueued
<1>10. ListensWhileOpen' /\ ReadsWhenConnected'
  BY <1>1 DEF ClientIInv, ListensWhileOpen, ReadsWhenConnected
<1> QED
  BY <1>7, <1>8, <1>9, <1>10 DEF ClientIInv

(* The close is taken when nothing is posted behind it.                    *)
LEMMA StepPostedClose ==
  ASSUME ClientIInv, PostedClose
  PROVE  ClientIInv'
<1>1. /\ posted # <<>> /\ Head(posted) = 0 /\ posted' = Tail(posted) /\ socket_' = "closed"
      /\ UNCHANGED <<main, typed, stopped, connect, endpoint, reading, readDoomed, write_messages_, writing,
                     writeDoomed, written, server, wire, put>>
  BY DEF PostedClose, Close, mainThread, connecting, readSide, writeSide, environment
<1>2. TypeOK
  BY DEF ClientIInv
<1>3. /\ written \in Seq(Entries) /\ write_messages_ \in Seq(Entries) /\ posted \in Seq(Entries)
      /\ typed \in Nat /\ Tail(posted) \in Seq(0 .. Lines)
  BY <1>1, <1>2, LineTypes DEF TypeOK
<1>4. TypeOK'
  BY <1>1, <1>2, <1>3 DEF TypeOK
<1>5. LinesInOrder'
  <2>1. \/ written \o write_messages_ \o posted = Upto(typed)
        \/ written \o write_messages_ \o posted = Append(Upto(typed), 0)
    BY <1>3, Closing, QueuesInOrder DEF ClientIInv
  <2>2. written \o write_messages_ \in Seq(Entries)
    BY <1>3
  <2>3. written \o write_messages_ = Upto(typed) /\ Tail(posted) = <<>>
    BY <2>1, <2>2, <1>1, <1>3, ZeroIsLast DEF Entries
  <2>4. written \o write_messages_ \o <<>> = written \o write_messages_
    BY <2>2, ConcatEmptySeq
  <2> QED
    BY <2>3, <2>4, <1>1, <1>3, Closing, QueuesInOrder
<1>6. WritesWhileQueued' /\ ListensWhileOpen' /\ ReadsWhenConnected'
  BY <1>1 DEF ClientIInv, WritesWhileQueued, ListensWhileOpen, ReadsWhenConnected
<1> QED
  BY <1>4, <1>5, <1>6 DEF ClientIInv

(* A written line leaves the queue; the next is written if there is one.   *)
LEMMA StepWriteDone ==
  ASSUME ClientIInv, WriteDone
  PROVE  ClientIInv'
<1>1. /\ writing > 0
      /\ written' = Append(written, Head(write_messages_)) /\ write_messages_' = Tail(write_messages_)
      /\ UNCHANGED <<main, typed, posted, stopped, socket_, connect, endpoint, reading, readDoomed, server,
                     wire, put>>
      /\ \/ Len(write_messages_) > 1 /\ writing' = writing /\ writeDoomed' \in BOOLEAN
         \/ ~ (Len(write_messages_) > 1) /\ writing' = writing - 1 /\ writeDoomed' = writeDoomed
  BY DEF WriteDone, mainThread, connecting, readSide, environment
<1>2. TypeOK
  BY DEF ClientIInv
<1>3. /\ written \in Seq(Entries) /\ write_messages_ \in Seq(Entries) /\ posted \in Seq(Entries)
  BY <1>2, LineTypes
<1>4. writing = 1 /\ write_messages_ # <<>>
  BY <1>1, <1>2 DEF ClientIInv, TypeOK, WritesWhileQueued
<1>5. /\ Head(write_messages_) \in 1 .. Lines /\ Tail(write_messages_) \in Seq(1 .. Lines)
      /\ Len(Tail(write_messages_)) = Len(write_messages_) - 1 /\ Len(write_messages_) \in Nat
  BY <1>2, <1>4, HeadTailProperties, LenProperties DEF TypeOK
<1>6. written' \in Seq(1 .. Lines)
  BY <1>1, <1>2, <1>5, AppendProperties DEF TypeOK
<1>7. /\ writing' \in {0, 1} /\ (writing' = 1 <=> Len(Tail(write_messages_)) > 0)
      /\ (Len(Tail(write_messages_)) > 0 <=> Tail(write_messages_) # <<>>)
  <2>1. Len(Tail(write_messages_)) > 0 <=> Tail(write_messages_) # <<>>
    <3>1. \A q \in Seq(1 .. Lines) : Len(q) > 0 <=> q # <<>>
      BY EmptySeq
    <3> QED
      BY <3>1, <1>5
  <2> QED
    BY <2>1, <1>1, <1>4, <1>5
<1>8. TypeOK'
  BY <1>1, <1>2, <1>5, <1>6, <1>7 DEF TypeOK
<1>9. WritesWhileQueued'
  BY <1>1, <1>7 DEF WritesWhileQueued
<1>10. LinesInOrder'
  <2>1. Append(written, Head(write_messages_)) \o Tail(write_messages_) \o posted
        = written \o write_messages_ \o posted
    BY <1>3, <1>4, ThreeQueues
  <2>2. written' \o write_messages_' \o posted' = written \o write_messages_ \o posted
    BY <2>1, <1>1
  <2> QED
    BY <2>2, <1>1 DEF ClientIInv, LinesInOrder
<1>11. ListensWhileOpen' /\ ReadsWhenConnected'
  BY <1>1 DEF ClientIInv, ListensWhileOpen, ReadsWhenConnected
<1> QED
  BY <1>8, <1>9, <1>10, <1>11 DEF ClientIInv

(* The lines that could not be written stay where they are.                *)
LEMMA StepWriteFails ==
  ASSUME ClientIInv, WriteFails
  PROVE  ClientIInv'
<1>1. /\ writing > 0 /\ writing' = writing - 1 /\ socket_' = "closed"
      /\ UNCHANGED <<main, typed, posted, stopped, connect, endpoint, reading, readDoomed, write_messages_,
                     writeDoomed, written, server, wire, put>>
  BY DEF WriteFails, mainThread, connecting, readSide, environment
<1>2. writing = 1
  BY <1>1 DEF ClientIInv, TypeOK, WritesWhileQueued
<1>3. TypeOK'
  BY <1>1, <1>2 DEF ClientIInv, TypeOK
<1>4. writing' = 0
  BY <1>1, <1>2
<1>5. WritesWhileQueued'
  BY <1>1, <1>4 DEF WritesWhileQueued
<1>6. LinesInOrder' /\ ListensWhileOpen' /\ ReadsWhenConnected'
  BY <1>1 DEF ClientIInv, LinesInOrder, ListensWhileOpen, ReadsWhenConnected
<1> QED
  BY <1>3, <1>5, <1>6 DEF ClientIInv

(* A read that succeeds starts the next; one that fails closes.            *)
LEMMA StepRead ==
  ASSUME ClientIInv, ReadPiece \/ ReadFails
  PROVE  ClientIInv'
<1>1. /\ reading # "none"
      /\ UNCHANGED <<main, typed, posted, stopped, connect, endpoint, write_messages_, writing, writeDoomed,
                     written, server, put>>
      /\ readDoomed' \in BOOLEAN
      /\ reading' \in {"none", "header", "body"} /\ socket_' \in {socket_, "closed"}
      /\ reading' = "none" => socket_' = "closed"
      /\ wire' = wire \/ (wire # <<>> /\ wire' = Tail(wire))
  BY DEF ReadPiece, ReadFails, StartRead, mainThread, connecting, writeSide, environment, ClientIInv, TypeOK
<1>2. wire' \in Seq({"header", "badheader", "body"})
  <2>1. wire \in Seq({"header", "badheader", "body"})
    BY DEF ClientIInv, TypeOK
  <2> QED
    BY <2>1, <1>1, HeadTailProperties
<1>3. TypeOK'
  BY <1>1, <1>2 DEF ClientIInv, TypeOK
<1>4. WritesWhileQueued' /\ LinesInOrder' /\ ListensWhileOpen' /\ ReadsWhenConnected'
  BY <1>1 DEF ClientIInv, TypeOK, WritesWhileQueued, LinesInOrder, ListensWhileOpen, ReadsWhenConnected
<1> QED
  BY <1>3, <1>4 DEF ClientIInv

(* Connecting, the end of run() and of the main thread.                    *)
LEMMA StepConnect ==
  ASSUME ClientIInv, Join \/ ConnectHandler \/ RunReturns
  PROVE  ClientIInv'
<1>1. /\ UNCHANGED <<typed, posted, socket_, write_messages_, writing, written, server, wire, put>>
      /\ main' = main \/ (main = "join" /\ main' = "done")
      /\ stopped' \in BOOLEAN /\ writeDoomed' \in BOOLEAN /\ readDoomed' \in BOOLEAN
      /\ endpoint' \in 1 .. Endpoints
      /\ \/ UNCHANGED <<connect, reading>>
         \/ connect' = "connected" /\ reading' = "header"
         \/ connect = "pending" /\ connect' = "failed" /\ reading' = reading
  <2>1. CASE NextEndpoint
    <3>1. endpoint + 1 \in 1 .. Endpoints
      BY <2>1, ChatClientAssumption DEF NextEndpoint, ClientIInv, TypeOK
    <3> QED
      BY <3>1, <2>1 DEF NextEndpoint, mainThread, readSide, environment, ClientIInv, TypeOK
  <2>2. CASE Join \/ Connected \/ ConnectFails \/ RunReturns
    BY <2>2 DEF Join, Connected, ConnectFails, RunReturns, StartRead, mainThread, connecting, readSide, writeSide,
       environment, ClientIInv, TypeOK
  <2> QED
    BY <2>1, <2>2 DEF ConnectHandler
<1>2. TypeOK'
  BY <1>1 DEF ClientIInv, TypeOK
<1>3. WritesWhileQueued' /\ LinesInOrder' /\ ListensWhileOpen' /\ ReadsWhenConnected'
  BY <1>1 DEF ClientIInv, TypeOK, WritesWhileQueued, LinesInOrder, ListensWhileOpen, ReadsWhenConnected
<1> QED
  BY <1>2, <1>3 DEF ClientIInv

(* Whatever the other end and the network do.                              *)
LEMMA StepEnvironment ==
  ASSUME ClientIInv,
         UNCHANGED <<mainThread, posted, stopped, socket_, connecting, readSide, writeSide>>,
         server' \in {server, "gone"}, put' \in 0 .. Pieces,
         wire' = wire \/ \E p \in {"header", "badheader", "body"} : wire' = Append(wire, p)
  PROVE  ClientIInv'
<1>1. UNCHANGED <<main, typed, posted, stopped, socket_, connect, endpoint, reading, readDoomed, write_messages_,
                  writing, writeDoomed, written>>
  BY DEF mainThread, connecting, readSide, writeSide
<1>2. wire' \in Seq({"header", "badheader", "body"})
  <2>1. wire \in Seq({"header", "badheader", "body"})
    BY DEF ClientIInv, TypeOK
  <2> QED
    BY <2>1, AppendProperties
<1>3. TypeOK'
  BY <1>1, <1>2 DEF ClientIInv, TypeOK
<1>4. WritesWhileQueued' /\ LinesInOrder' /\ ListensWhileOpen' /\ ReadsWhenConnected'
  BY <1>1 DEF ClientIInv, WritesWhileQueued, LinesInOrder, ListensWhileOpen, ReadsWhenConnected
<1> QED
  BY <1>3, <1>4 DEF ClientIInv

--------------------------------------------------------------------------------
(* The server in the system.                                               *)

(* The bound on the pieces is a number, and no less than any other here.   *)
LEMMA MostPiecesType ==
  /\ MostPieces \in Nat /\ Pieces \in Nat /\ Lines \in Nat /\ WireSize \in Nat
  /\ Pieces <= MostPieces /\ Lines + WireSize <= MostPieces
  /\ kMaxRecentMsgs \in Nat \ {0} /\ Self \in Sessions
  BY ChatClientAssumption, ChatSystemAssumption DEF MostPieces

(* The types of the server's variables.                                    *)
LEMMA ServerTypes ==
  ASSUME SystemIInv
  PROVE  /\ s_participants \subseteq s_accepted /\ s_accepted \subseteq Sessions
         /\ s_write_messages \in [Sessions -> Seq(SrvN!Messages)]
         /\ s_reading \in [Sessions -> {"none", "header", "body"}]
         /\ s_writing \in [Sessions -> Nat]
         /\ s_peer \in [Sessions -> {"away", "there", "gone"}]
         /\ s_wire \in [Sessions -> Seq({"header", "badheader", "body"})]
         /\ s_put \in [Sessions -> 0 .. Pieces]
         /\ s_heard \in [Sessions -> 0 .. MostPieces]
         /\ s_log \in Seq(SrvN!Messages)
         /\ s_first \in [Sessions -> Nat]
         /\ s_sent \in [Sessions -> Seq(SrvN!Messages)]
  BY DEF SystemIInv, LinkTypeOK, SrvN!IInv, SrvN!TypeOK

(* A step of the server is a step of the server ChatServerProofs is about. *)
LEMMA SameServer ==
  ASSUME SystemIInv, NEW s \in Sessions
  PROVE  /\ Srv!Connect(s) => SrvN!Connect(s)
         /\ Srv!HangUp(s) => SrvN!HangUp(s)
         /\ Srv!AcceptHandler(s) => SrvN!AcceptHandler(s)
         /\ Srv!ReadHandler(s) => SrvN!ReadHandler(s)
         /\ Srv!WriteHandler(s) => SrvN!WriteHandler(s)
         /\ s # Self /\ Srv!Put(s) => SrvN!Put(s)
<1>1. Srv!Connect(s) => SrvN!Connect(s)
  BY DEF Srv!Connect, SrvN!Connect, Srv!history, SrvN!history
<1>2. Srv!HangUp(s) => SrvN!HangUp(s)
  BY DEF Srv!HangUp, SrvN!HangUp, Srv!history, SrvN!history
<1>3. Srv!AcceptHandler(s) => SrvN!AcceptHandler(s)
  BY DEF Srv!AcceptHandler, SrvN!AcceptHandler, Srv!Accept, SrvN!Accept, Srv!AcceptFails, SrvN!AcceptFails,
     Srv!Join, SrvN!Join, Srv!OldestRecent, SrvN!OldestRecent, Srv!history, SrvN!history, Srv!client, SrvN!client
<1>4. Srv!ReadHandler(s) => SrvN!ReadHandler(s)
  BY DEF Srv!ReadHandler, SrvN!ReadHandler, Srv!ReadHeader, SrvN!ReadHeader, Srv!ReadBody, SrvN!ReadBody,
     Srv!ReadFails, SrvN!ReadFails, Srv!Leave, SrvN!Leave, Srv!Deliver, SrvN!Deliver, Srv!Trimmed, SrvN!Trimmed,
     Srv!client, SrvN!client
<1>5. Srv!WriteHandler(s) => SrvN!WriteHandler(s)
  BY DEF Srv!WriteHandler, SrvN!WriteHandler, Srv!WriteDone, SrvN!WriteDone, Srv!WriteFails, SrvN!WriteFails,
     Srv!Leave, SrvN!Leave, Srv!client, SrvN!client
<1>6. s # Self /\ Srv!Put(s) => SrvN!Put(s)
  <2> SUFFICES ASSUME s # Self, Srv!Put(s) PROVE SrvN!Put(s)
    OBVIOUS
  <2> DEFINE p == [s_put EXCEPT ![Self] = MostPieces]
  <2>1. /\ s_put[s] < Pieces /\ s_put' = [s_put EXCEPT ![s] = @ + 1]
        /\ s_put \in [Sessions -> 0 .. Pieces] /\ Self \in Sessions
    BY MostPiecesType DEF Srv!Put, SystemIInv, LinkTypeOK
  <2>2. p[s] = s_put[s] /\ p[s] < MostPieces
    <3>1. p[s] = s_put[s] /\ s_put[s] \in Nat
      BY <2>1
    <3> QED
      BY <2>1, <3>1, MostPiecesType
  <2>3. [s_put' EXCEPT ![Self] = MostPieces] = [p EXCEPT ![s] = @ + 1]
    BY <2>1
  <2> QED
    BY <2>2, <2>3 DEF Srv!Put, SrvN!Put, Srv!history, SrvN!history
<1> QED
  BY <1>1, <1>2, <1>3, <1>4, <1>5, <1>6

(* The client's invariant is kept, its own steps and the others' alike.    *)
LEMMA ClientKept ==
  ASSUME SystemIInv, [SystemNext]_systemVars
  PROVE  ClientIInv'
<1>1. ClientIInv /\ server \in {"there", "gone"} /\ put \in 0 .. Pieces
  BY DEF SystemIInv, ClientIInv, TypeOK
<1>2. ASSUME UNCHANGED vars PROVE ClientIInv'
  <2>1. /\ UNCHANGED <<mainThread, posted, stopped, socket_, connecting, readSide, writeSide>>
        /\ server' \in {server, "gone"} /\ put' \in 0 .. Pieces /\ wire' = wire
    BY <1>1, <1>2 DEF vars, mainThread, connecting, readSide, writeSide
  <2> QED
    BY <1>1, <2>1, StepEnvironment
<1>3. ASSUME Gone PROVE ClientIInv'
  <2>1. /\ UNCHANGED <<mainThread, posted, stopped, socket_, connecting, readSide, writeSide>>
        /\ server' \in {server, "gone"} /\ put' \in 0 .. Pieces /\ wire' = wire
    BY <1>1, <1>3 DEF Gone
  <2> QED
    BY <1>1, <2>1, StepEnvironment
<1>4. CASE Alone(ClientElse)
  BY <1>1, <1>4, StepGetLine, StepEndOfInput, StepConnect, StepPostedLine, StepPostedClose, StepRead
     DEF Alone, ClientElse, ConnectHandler, PostedHandler
<1>5. CASE Connects
  BY <1>1, <1>5, StepConnect DEF Connects, ConnectHandler
<1>6. CASE ClientReads \/ ClientWrites
  BY <1>1, <1>6, StepRead, StepWriteDone, StepWriteFails DEF ClientReads, ClientWrites
<1>7. CASE host = "stranger" /\ Alone(Put \/ Gone)
  <2>1. CASE Put
    <3>1. /\ UNCHANGED <<mainThread, posted, stopped, socket_, connecting, readSide, writeSide>>
          /\ server' \in {server, "gone"} /\ put' = put + 1 /\ put < Pieces
          /\ \E p \in {"header", "badheader", "body"} : wire' = Append(wire, p)
      BY <2>1 DEF Put
    <3>2. put' \in 0 .. Pieces
      BY <1>1, <3>1, ChatClientAssumption
    <3> QED
      BY <1>1, <3>1, <3>2, StepEnvironment
  <2> QED
    BY <1>3, <1>7, <2>1 DEF Alone
<1>8. CASE ServerAlone \/ ServerWrites \/ CarryUp \/ ClientGone
  BY <1>2, <1>8 DEF ServerAlone, ServerWrites, CarryUp, ClientGone
<1>9. CASE CarryDown
  <2>1. /\ UNCHANGED <<mainThread, posted, stopped, socket_, connecting, readSide, writeSide, server, put>>
        /\ \E p \in {"header", "badheader", "body"} : wire' = Append(wire, p)
    BY <1>9 DEF CarryDown, NextPiece
  <2> QED
    BY <1>1, <2>1, StepEnvironment
<1>10. CASE SessionGone \/ Break
  BY <1>3, <1>10 DEF SessionGone, Break
<1>11. CASE UNCHANGED systemVars
  BY <1>2, <1>11 DEF systemVars
<1> QED
  BY <1>4, <1>5, <1>6, <1>7, <1>8, <1>9, <1>10, <1>11 DEF SystemNext

(* Only lines of the client's are heard from it: there is room for what is *)
(* carried to the server.                                                  *)
LEMMA StepCarryUpServer ==
  ASSUME SystemIInv, CarryUp
  PROVE  SrvN!IInv'
<1>1. PICK p \in {"header", "body"} : s_wire' = [s_wire EXCEPT ![Self] = Append(@, p)]
  BY DEF CarryUp, NextPiece
<1>2. /\ UNCHANGED <<s_participants, s_recent, s_write_messages, s_reading, s_writing, s_accepted, s_peer,
                     s_put, s_heard, s_log, s_first, s_last, s_sent>>
      /\ Len(s_wire[Self]) < WireSize /\ s_peer[Self] = "there"
  BY DEF CarryUp, Standing
<1>3. /\ s_wire \in [Sessions -> Seq({"header", "badheader", "body"})] /\ Self \in Sessions
      /\ s_heard \in [Sessions -> 0 .. MostPieces]
  BY ServerTypes, MostPiecesType
<1>4. /\ s_wire' \in [Sessions -> Seq({"header", "badheader", "body"})]
      /\ Len(s_wire'[Self]) = Len(s_wire[Self]) + 1 /\ Len(s_wire[Self]) \in Nat
      /\ \A s \in Sessions \ {Self} : s_wire'[s] = s_wire[s]
  <2>1. Append(s_wire[Self], p) \in Seq({"header", "badheader", "body"})
        /\ Len(Append(s_wire[Self], p)) = Len(s_wire[Self]) + 1
    BY <1>3, AppendProperties
  <2> QED
    BY <1>1, <1>3, <2>1
<1>5. s_heard[Self] <= Lines
  <2>1. /\ carried = Upto(Len(carried)) /\ carried \in Seq(1 .. Lines) /\ s_heard[Self] <= Len(carried)
    BY <1>2 DEF SystemIInv, LinkTypeOK, StrangerAlone, UpStream, Upto
  <2>2. Len(carried) \in Nat /\ (Len(carried) # 0 => carried[Len(carried)] \in 1 .. Lines)
    <3>1. Len(carried) \in Nat
      BY <2>1, LenProperties
    <3>2. \A k \in 1 .. Len(carried) : carried[k] \in 1 .. Lines
      BY <2>1, ElementOfSeq
    <3> QED
      BY <3>1, <3>2
  <2>3. Len(carried) # 0 => Upto(Len(carried))[Len(carried)] = Len(carried)
    <3>1. \A n \in Nat : n # 0 => Upto(n)[n] = n
      <4>1. \A n \in Nat : \A k \in 1 .. n : Upto(n)[k] = k
        BY UptoGrows
      <4> HIDE DEF Upto
      <4> QED
        BY <4>1
    <3> QED
      BY <2>2, <3>1
  <2>4. Len(carried) <= Lines
    BY <2>1, <2>2, <2>3, MostPiecesType
  <2> QED
    BY <2>1, <2>2, <2>4, <1>3, MostPiecesType
<1>6. SrvN!PutBound'
  <2>1. \A s \in Sessions : s_heard[s] + Len(s_wire[s]) <= [s_put EXCEPT ![Self] = MostPieces][s]
    BY DEF SystemIInv, SrvN!IInv, SrvN!PutBound
  <2>2. s_heard[Self] + Len(s_wire'[Self]) <= MostPieces
    BY <1>2, <1>3, <1>4, <1>5, MostPiecesType
  <2>3. \A s \in Sessions : s_heard[s] + Len(s_wire'[s]) <= [s_put EXCEPT ![Self] = MostPieces][s]
    <3>1. [s_put EXCEPT ![Self] = MostPieces][Self] = MostPieces
      BY <1>3 DEF SystemIInv, LinkTypeOK
    <3> QED
      BY <2>1, <2>2, <3>1, <1>4
  <2> QED
    BY <2>3, <1>2 DEF SrvN!PutBound
<1>7. SrvN!TypeOK'
  BY <1>2, <1>4 DEF SystemIInv, SrvN!IInv, SrvN!TypeOK
<1> QED
  BY <1>2, <1>6, <1>7 DEF SystemIInv, SrvN!IInv, SrvN!WritesWhileQueued, SrvN!ParticipantsAreRead, SrvN!RecentIsEnd,
     SrvN!OldestRecent, SrvN!NeverJoined, SrvN!Shares, SrvN!ShareEnd

(* Any step but that one is one of the server ChatServerProofs is about,   *)
(* or leaves it alone.                                                     *)
LEMMA ServerSteps ==
  ASSUME SystemIInv, [SystemNext]_systemVars, ~ CarryUp
  PROVE  [SrvN!Next]_(SrvN!vars)
<1>1. Self \in Sessions
  BY MostPiecesType
<1>2. ASSUME NEW s \in Sessions,
             \/ Srv!Connect(s) \/ Srv!HangUp(s) \/ Srv!AcceptHandler(s) \/ Srv!ReadHandler(s)
             \/ Srv!WriteHandler(s) \/ (s # Self /\ Srv!Put(s))
      PROVE  SrvN!Next
  BY <1>2, SameServer DEF SrvN!Next
<1>3. ASSUME UNCHANGED server_ PROVE UNCHANGED SrvN!vars
  BY <1>3 DEF server_, SrvN!vars
<1>4. CASE Alone(ClientElse) \/ ClientReads \/ ClientWrites \/ Alone(Put \/ Gone) \/ SessionGone \/ CarryDown
  BY <1>3, <1>4 DEF Alone, ClientReads, ClientWrites, SessionGone, CarryDown
<1>5. CASE Connects
  BY <1>1, <1>2, <1>3, <1>5 DEF Connects
<1>6. CASE ServerAlone
  BY <1>1, <1>2, <1>6 DEF ServerAlone, OthersSpeak, Others, ServerReads, Srv!AcceptHandler
<1>7. CASE ServerWrites \/ ClientGone \/ Break
  BY <1>1, <1>2, <1>7 DEF ServerWrites, ClientGone, Break, Srv!WriteHandler
<1>8. CASE UNCHANGED systemVars
  BY <1>3, <1>8 DEF systemVars
<1> QED
  BY <1>4, <1>5, <1>6, <1>7, <1>8 DEF SystemNext

(* The server's invariant is kept.                                         *)
LEMMA ServerKept ==
  ASSUME SystemIInv, [SystemNext]_systemVars
  PROVE  SrvN!IInv'
<1>1. SrvN!IInv /\ MostPieces \in Nat /\ kMaxRecentMsgs \in Nat \ {0}
  BY MostPiecesType DEF SystemIInv
<1>2. CASE CarryUp
  BY <1>2, StepCarryUpServer
<1>3. CASE ~ CarryUp
  BY <1>1, <1>3, ServerSteps, SrvN!NextIInv
<1> QED
  BY <1>2, <1>3

--------------------------------------------------------------------------------
(* The pieces of a stream.                                                 *)

Piece == {"header", "badheader", "body"}

(* What is read is what was expected, and the other kind comes next.       *)
LEMMA FramedTail ==
  ASSUME NEW e \in {"header", "body"}, NEW q \in Seq(Piece), q # <<>>, Framed(e, q)
  PROVE  /\ Head(q) = e
         /\ Framed(IF e = "header" THEN "body" ELSE "header", Tail(q))
         /\ Tail(q) \in Seq(Piece) /\ Len(Tail(q)) = Len(q) - 1 /\ Len(q) \in Nat /\ Len(q) >= 1
<1> DEFINE f == IF e = "header" THEN "body" ELSE "header"
           r == Tail(q)
<1>1. /\ Len(q) \in Nat /\ Len(q) >= 1 /\ Head(q) = q[1]
      /\ r \in Seq(Piece) /\ Len(r) = Len(q) - 1
      /\ \A k \in 1 .. Len(r) : r[k] = q[k + 1]
  BY HeadTailProperties
<1>2. \A k \in 1 .. Len(q) : q[k] = IF (k % 2 = 1) <=> (e = "header") THEN "header" ELSE "body"
  BY DEF Framed
<1>3. q[1] = e
  <2>1. 1 \in 1 .. Len(q) /\ 1 % 2 = 1
    BY <1>1
  <2> QED
    BY <1>2, <2>1
<1>4. (f = "header") = (e # "header")
  OBVIOUS
<1> HIDE DEF f, r
<1>5. ASSUME NEW k \in 1 .. Len(r)
      PROVE  r[k] = IF (k % 2 = 1) <=> (f = "header") THEN "header" ELSE "body"
  <2>1. k + 1 \in 1 .. Len(q) /\ k \in Nat
    BY <1>1, <1>5
  <2>2. ((k + 1) % 2 = 1) <=> ~ (k % 2 = 1)
    BY <2>1
  <2> QED
    BY <1>1, <1>2, <1>4, <2>1, <2>2
<1>6. Framed(f, r)
  BY <1>5 DEF Framed
<1> QED
  BY <1>1, <1>3, <1>6 DEF f, r

PieceOf(u) == IF u = 0 THEN "header" ELSE "body"

(* Of a write of which u pieces are on the wire, the next piece is the one *)
(* expected behind what is there.                                          *)
LEMMA FramedAppend ==
  ASSUME NEW e \in {"header", "body"}, NEW q \in Seq(Piece), Framed(e, q),
         NEW u \in {0, 1}, NEW m \in Nat, NEW c \in Nat, Read(m, e) + Len(q) = 2 * c + u
  PROVE  /\ Framed(e, Append(q, PieceOf(u)))
         /\ Append(q, PieceOf(u)) \in Seq(Piece) /\ Len(Append(q, PieceOf(u))) = Len(q) + 1
<1> DEFINE p == PieceOf(u)
           r == Append(q, p)
<1>0. p = IF u = 0 THEN "header" ELSE "body"
  BY DEF PieceOf
<1>1. /\ p \in Piece /\ Len(q) \in Nat
      /\ r \in Seq(Piece) /\ Len(r) = Len(q) + 1
      /\ \A k \in 1 .. Len(q) : r[k] = q[k]
      /\ r[Len(q) + 1] = p
  <2>1. p \in Piece
    BY <1>0 DEF Piece
  <2> HIDE DEF p
  <2> QED
    BY <2>1, AppendProperties, LenProperties
<1>2. \A k \in 1 .. Len(q) : q[k] = IF (k % 2 = 1) <=> (e = "header") THEN "header" ELSE "body"
  BY DEF Framed
<1> HIDE DEF p, r
<1>3. p = IF ((Len(q) + 1) % 2 = 1) <=> (e = "header") THEN "header" ELSE "body"
  <2>1. CASE e = "header"
    <3>1. Len(q) = 2 * (c - m) + u
      BY <2>1, <1>1 DEF Read
    <3>2. \A x \in Int : \A l \in Nat : l = 2 * x + u => ((l + 1) % 2 = 1 <=> u = 0)
      OBVIOUS
    <3> QED
      BY <2>1, <3>1, <3>2, <1>0, <1>1
  <2>2. CASE e = "body"
    <3>1. Len(q) + 1 = 2 * (c - m) + u
      BY <2>2, <1>1 DEF Read
    <3>2. \A x \in Int : \A l \in Nat : l + 1 = 2 * x + u => ((l + 1) % 2 = 1 <=> u = 1)
      OBVIOUS
    <3> QED
      BY <2>2, <3>1, <3>2, <1>0, <1>1
  <2> QED
    BY <2>1, <2>2
<1>4. ASSUME NEW k \in 1 .. Len(r)
      PROVE  r[k] = IF (k % 2 = 1) <=> (e = "header") THEN "header" ELSE "body"
  <2>1. k \in 1 .. Len(q) \/ k = Len(q) + 1
    BY <1>1
  <2> QED
    BY <1>1, <1>2, <1>3, <2>1
<1>5. Framed(e, r)
  BY <1>4 DEF Framed
<1> QED
  BY <1>1, <1>5 DEF p, r

--------------------------------------------------------------------------------
(* What a step of the server means to the session Self.                    *)

(* The write under way is of the same message still.                       *)
SameWrite == s_writing[Self] = 1 => s_writing'[Self] = 1 /\ Head(s_write_messages'[Self]) = Head(s_write_messages[Self])

LogGrows == s_log' = s_log \/ \E m \in SrvN!Messages : s_log' = Append(s_log, m)

(* What a client says goes behind what is queued.                          *)
LEMMA BodyDelivered ==
  ASSUME SystemIInv, NEW s \in Sessions, Srv!ReadBody(s)
  PROVE  SameWrite /\ LogGrows
<1>1. /\ s_reading[s] = "body" /\ s_wire[s] # <<>>
      /\ s_log' = Append(s_log, <<s, s_heard[s] + 1>>)
      /\ s_write_messages' =
           [t \in Sessions |-> IF t \in s_participants THEN Append(s_write_messages[t], <<s, s_heard[s] + 1>>)
                               ELSE s_write_messages[t]]
      /\ s_writing' = [t \in Sessions |-> IF t \in s_participants /\ s_write_messages[t] = <<>>
                                          THEN s_writing[t] + 1 ELSE s_writing[t]]
  BY DEF Srv!ReadBody, Srv!Deliver
<1>2. <<s, s_heard[s] + 1>> \in SrvN!Messages
  <2>1. s_heard[s] + Len(s_wire[s]) <= [s_put EXCEPT ![Self] = MostPieces][s]
    BY DEF SystemIInv, SrvN!IInv, SrvN!PutBound
  <2>2. [s_put EXCEPT ![Self] = MostPieces][s] <= MostPieces
        /\ [s_put EXCEPT ![Self] = MostPieces][s] \in Nat
    BY MostPiecesType, ServerTypes
  <2>3. Len(s_wire[s]) \in Nat /\ Len(s_wire[s]) >= 1 /\ s_heard[s] \in Nat
    <3>1. s_wire[s] \in Seq({"header", "badheader", "body"}) /\ s_heard[s] \in 0 .. MostPieces
      BY ServerTypes
    <3> QED
      BY <3>1, <1>1, MostPiecesType
  <2>4. s_heard[s] + 1 \in 1 .. MostPieces
    BY <2>1, <2>2, <2>3, MostPiecesType
  <2> QED
    BY <2>4 DEF SrvN!Messages
<1>3. LogGrows
  BY <1>1, <1>2 DEF LogGrows
<1>4. SameWrite
  <2> SUFFICES ASSUME s_writing[Self] = 1
               PROVE  s_writing'[Self] = 1 /\ Head(s_write_messages'[Self]) = Head(s_write_messages[Self])
    BY DEF SameWrite
  <2>1. s_write_messages[Self] # <<>> /\ s_write_messages[Self] \in Seq(SrvN!Messages) /\ Self \in Sessions
    BY MostPiecesType, ServerTypes DEF SystemIInv, SrvN!IInv, SrvN!WritesWhileQueued
  <2>2. \A q \in Seq(SrvN!Messages) : \A m \in SrvN!Messages : q # <<>> => Head(Append(q, m)) = Head(q)
    OBVIOUS
  <2>3. Head(Append(s_write_messages[Self], <<s, s_heard[s] + 1>>)) = Head(s_write_messages[Self])
    BY <2>1, <2>2, <1>2
  <2> QED
    BY <2>1, <2>3, <1>1
<1> QED
  BY <1>3, <1>4

(* The others do not touch what is the session's own.                      *)
LEMMA OthersLeaveSelf ==
  ASSUME SystemIInv, OthersSpeak
  PROVE  /\ s_reading'[Self] = s_reading[Self] /\ s_peer'[Self] = s_peer[Self]
         /\ s_wire'[Self] = s_wire[Self] /\ s_heard'[Self] = s_heard[Self]
         /\ s_first'[Self] = s_first[Self] /\ s_sent'[Self] = s_sent[Self]
         /\ (Self \in s_accepted') = (Self \in s_accepted)
         /\ s_put' \in [Sessions -> 0 .. Pieces]
         /\ SameWrite /\ LogGrows
<1>1. PICK s \in Others : \/ Srv!Connect(s) \/ Srv!Accept(s) \/ Srv!ReadHandler(s) \/ Srv!Put(s)
  BY DEF OthersSpeak
<1>2. s \in Sessions /\ s # Self /\ Self \in Sessions
  BY MostPiecesType DEF Others
<1>3. /\ s_write_messages \in [Sessions -> Seq(SrvN!Messages)]
      /\ s_reading \in [Sessions -> {"none", "header", "body"}]
      /\ s_writing \in [Sessions -> Nat]
      /\ s_peer \in [Sessions -> {"away", "there", "gone"}]
      /\ s_wire \in [Sessions -> Seq({"header", "badheader", "body"})]
      /\ s_put \in [Sessions -> 0 .. Pieces]
      /\ s_heard \in [Sessions -> 0 .. MostPieces]
      /\ s_first \in [Sessions -> Nat]
      /\ s_sent \in [Sessions -> Seq(SrvN!Messages)]
  BY ServerTypes
<1>4. CASE Srv!Connect(s)
  BY <1>2, <1>3, <1>4 DEF Srv!Connect, Srv!history, SameWrite, LogGrows
<1>5. CASE Srv!Accept(s)
  BY <1>2, <1>3, <1>5 DEF Srv!Accept, Srv!Join, Srv!client, SameWrite, LogGrows
<1>6. CASE Srv!ReadHeader(s) \/ Srv!ReadFails(s)
  BY <1>2, <1>3, <1>6 DEF Srv!ReadHeader, Srv!ReadFails, Srv!client, SameWrite, LogGrows
<1>7. CASE Srv!ReadBody(s)
  <2>1. SameWrite /\ LogGrows
    BY <1>2, <1>7, BodyDelivered
  <2> QED
    BY <2>1, <1>2, <1>3, <1>7 DEF Srv!ReadBody
<1>8. CASE Srv!Put(s)
  <2>1. s_put' \in [Sessions -> 0 .. Pieces]
    <3>1. s_put' = [s_put EXCEPT ![s] = @ + 1] /\ s_put[s] < Pieces
      BY <1>8 DEF Srv!Put
    <3>2. s_put \in [Sessions -> 0 .. Pieces] /\ s_put[s] \in 0 .. Pieces
      BY <1>2, <1>3
    <3>3. s_put[s] + 1 \in 0 .. Pieces
      BY <3>1, <3>2, MostPiecesType
    <3> QED
      BY <3>1, <3>2, <3>3
  <2> QED
    BY <2>1, <1>2, <1>3, <1>8 DEF Srv!Put, Srv!history, SameWrite, LogGrows
<1> QED
  BY <1>1, <1>4, <1>5, <1>6, <1>7, <1>8 DEF Srv!ReadHandler

(* No step changes what the client is connected to.                        *)
LEMMA SameHost == [SystemNext]_systemVars => host' = host
  BY DEF SystemNext, systemVars, Alone, Connects, ClientReads, ClientWrites, ServerAlone, ServerWrites, CarryUp,
     CarryDown, ClientGone, SessionGone, Break

(* The types of what joins the two are kept.                               *)
LEMMA LinkTypesKept ==
  ASSUME SystemIInv, [SystemNext]_systemVars
  PROVE  LinkTypeOK'
<1>1. /\ s_put \in [Sessions -> 0 .. Pieces]
      /\ up \in 0 .. 2 /\ down \in 0 .. 2 /\ shown \in Nat
      /\ carried \in Seq(1 .. Lines) /\ coming \in Seq(SrvN!Messages)
      /\ Len(s_wire[Self]) <= WireSize
  BY DEF SystemIInv, LinkTypeOK
<1>2. host' \in {"ours", "stranger"}
  BY SameHost DEF SystemIInv, LinkTypeOK
<1>3. /\ s_wire \in [Sessions -> Seq(Piece)] /\ Self \in Sessions /\ Len(s_wire[Self]) \in Nat
  BY ServerTypes, MostPiecesType, LenProperties DEF Piece
<1>4. /\ s_writing[Self] > 0 => Head(s_write_messages[Self]) \in SrvN!Messages
      /\ writing > 0 => Head(write_messages_) \in 1 .. Lines
  <2>1. s_writing[Self] > 0 => s_write_messages[Self] # <<>> /\ s_write_messages[Self] \in Seq(SrvN!Messages)
    BY <1>3, ServerTypes DEF SystemIInv, SrvN!IInv, SrvN!WritesWhileQueued
  <2>2. writing > 0 => write_messages_ # <<>> /\ write_messages_ \in Seq(1 .. Lines)
    BY DEF SystemIInv, ClientIInv, TypeOK, WritesWhileQueued
  <2> QED
    BY <2>1, <2>2, HeadTailProperties
<1>5. CASE UNCHANGED <<link, s_put, s_wire>>
  BY <1>1, <1>2, <1>5 DEF LinkTypeOK, link
<1>6. CASE Alone(ClientElse) \/ Connects \/ Alone(Put \/ Gone) \/ ClientGone \/ SessionGone \/ Break
           \/ UNCHANGED systemVars
  BY <1>5, <1>6 DEF Alone, Connects, ClientGone, SessionGone, Break, server_, systemVars, Srv!Connect, Srv!HangUp
<1>7. CASE ClientReads \/ ClientWrites
  BY <1>1, <1>2, <1>7 DEF ClientReads, ClientWrites, server_, LinkTypeOK
<1>8. CASE ServerAlone
  <2>1. UNCHANGED link
    BY <1>8 DEF ServerAlone
  <2>2. s_put' \in [Sessions -> 0 .. Pieces] /\ (s_wire'[Self] = s_wire[Self] \/ (s_wire[Self] # <<>> /\ s_wire'[Self] = Tail(s_wire[Self])))
    <3>1. CASE OthersSpeak
      BY <3>1, OthersLeaveSelf
    <3>2. CASE ServerReads
      <4>1. CASE Srv!AcceptHandler(Self) \/ Srv!ReadFails(Self)
        BY <1>1, <4>1 DEF Srv!AcceptHandler, Srv!Accept, Srv!AcceptFails, Srv!ReadFails, Srv!client
      <4>2. CASE Srv!ReadHeader(Self) \/ Srv!ReadBody(Self)
        BY <1>1, <1>3, <4>2 DEF Srv!ReadHeader, Srv!ReadBody
      <4> QED
        BY <3>2, <4>1, <4>2 DEF ServerReads, Srv!ReadHandler
    <3> QED
      BY <1>8, <3>1, <3>2 DEF ServerAlone
  <2>3. Len(s_wire'[Self]) <= WireSize
    <3>1. \A q \in Seq(Piece) : q # <<>> => Len(Tail(q)) <= Len(q) /\ Len(Tail(q)) \in Nat
      OBVIOUS
    <3> QED
      BY <2>2, <3>1, <1>1, <1>3, MostPiecesType
  <2> QED
    BY <2>1, <2>2, <2>3, <1>1, <1>2 DEF LinkTypeOK, link
<1>9. CASE ServerWrites
  <2>1. UNCHANGED <<up, shown, carried, coming, s_put, s_wire>> /\ down' = 0
    BY <1>9 DEF ServerWrites, Srv!WriteDone, Srv!WriteFails, Srv!client
  <2> QED
    BY <2>1, <1>1, <1>2 DEF LinkTypeOK
<1>10. CASE CarryUp
  <2>1. PICK p \in Piece : s_wire' = [s_wire EXCEPT ![Self] = Append(@, p)]
    BY <1>10 DEF CarryUp, NextPiece, Piece
  <2>2. Len(s_wire'[Self]) <= WireSize
    <3>1. s_wire'[Self] = Append(s_wire[Self], p) /\ Len(Append(s_wire[Self], p)) = Len(s_wire[Self]) + 1
      BY <2>1, <1>3, AppendProperties
    <3>2. Len(s_wire[Self]) < WireSize
      BY <1>10 DEF CarryUp
    <3> QED
      BY <3>1, <3>2, <1>3, MostPiecesType
  <2>3. carried' \in Seq(1 .. Lines) /\ up' \in 0 .. 2
    <3>1. /\ writing > 0 /\ up < 2 /\ up' = up + 1
          /\ carried' = carried \/ carried' = Append(carried, Head(write_messages_))
      BY <1>10 DEF CarryUp
    <3>2. \A q \in Seq(1 .. Lines) : \A n \in 1 .. Lines : Append(q, n) \in Seq(1 .. Lines)
      BY AppendProperties
    <3>3. Head(write_messages_) \in 1 .. Lines
      BY <3>1, <1>4
    <3>4. carried' \in Seq(1 .. Lines)
      BY <3>1, <3>2, <3>3, <1>1
    <3> QED
      BY <3>1, <3>4, <1>1
  <2>4. UNCHANGED <<down, shown, coming, s_put>>
    BY <1>10 DEF CarryUp
  <2> QED
    BY <2>2, <2>3, <2>4, <1>1, <1>2 DEF LinkTypeOK
<1>11. CASE CarryDown
  <2>1. coming' \in Seq(SrvN!Messages) /\ down' \in 0 .. 2
    <3>1. /\ s_writing[Self] > 0 /\ down < 2 /\ down' = down + 1
          /\ coming' = coming \/ coming' = Append(coming, Head(s_write_messages[Self]))
      BY <1>11 DEF CarryDown
    <3>2. \A q \in Seq(SrvN!Messages) : \A m \in SrvN!Messages : Append(q, m) \in Seq(SrvN!Messages)
      BY AppendProperties
    <3>3. coming' \in Seq(SrvN!Messages)
      BY <3>1, <3>2, <1>1, <1>4
    <3> QED
      BY <3>1, <3>3, <1>1
  <2>2. UNCHANGED <<up, shown, carried, s_put, s_wire>>
    BY <1>11 DEF CarryDown, server_
  <2> QED
    BY <2>1, <2>2, <1>1, <1>2 DEF LinkTypeOK
<1> QED
  BY <1>6, <1>7, <1>8, <1>9, <1>10, <1>11 DEF SystemNext

(* Our server goes on resting.                                             *)
LEMMA StrangerKept ==
  ASSUME SystemIInv, [SystemNext]_systemVars
  PROVE  StrangerAlone'
<1> SUFFICES ASSUME host' = "stranger"
             PROVE  s_peer'[Self] = "away" /\ s_writing'[Self] = 0 /\ Self \notin s_accepted'
  BY DEF StrangerAlone
<1>1. host = "stranger" /\ s_peer[Self] = "away" /\ s_writing[Self] = 0 /\ Self \notin s_accepted
  BY SameHost DEF SystemIInv, StrangerAlone
<1>2. CASE UNCHANGED server_
  BY <1>1, <1>2 DEF server_
<1>3. CASE Alone(ClientElse) \/ Connects \/ ClientReads \/ ClientWrites \/ Alone(Put \/ Gone) \/ CarryDown
           \/ SessionGone \/ UNCHANGED systemVars
  BY <1>1, <1>2, <1>3 DEF Alone, Connects, ClientReads, ClientWrites, CarryDown, SessionGone, systemVars
<1>4. ~ ServerAlone /\ ~ ServerWrites /\ ~ CarryUp /\ ~ ClientGone /\ ~ Break
  BY <1>1 DEF ServerAlone, ServerWrites, CarryUp, ClientGone, Break, Standing, Srv!WriteDone, Srv!WriteFails,
     Srv!HangUp
<1> QED
  BY <1>3, <1>4 DEF SystemNext

--------------------------------------------------------------------------------
(* The client's stream.                                                    *)

(* What leaves the client's stream as it is, or ends it at one side.       *)
LEMMA UpStill ==
  ASSUME UpStream, UNCHANGED carried, s_heard'[Self] = s_heard[Self], s_wire'[Self] = s_wire[Self],
         UpExpected' \in {UpExpected, "none"},
         socket_' = "open" /\ server' = "there" =>
           /\ socket_ = "open" /\ server = "there"
           /\ UNCHANGED <<up, written>>
           /\ writing = 1 => writing' = 1 /\ Head(write_messages_') = Head(write_messages_)
  PROVE  UpStream'
<1>1. /\ carried' = [k \in 1 .. Len(carried') |-> k]
      /\ s_heard'[Self] <= Len(carried')
  BY DEF UpStream
<1>2. UpExpected' # "none" => UpExpected' = UpExpected
  OBVIOUS
<1>3. UpExpected' # "none" =>
        /\ Framed(UpExpected', s_wire'[Self])
        /\ Read(s_heard'[Self], UpExpected') + Len(s_wire'[Self]) <= 2 * Len(carried') + 1
  BY <1>2 DEF UpStream
<1>4. socket_' = "open" /\ server' = "there" =>
        /\ up' > 0 => writing' = 1
        /\ carried' = written' \o OfWrite(up', Head(write_messages_'))
        /\ UpExpected' # "none" =>
            Read(s_heard'[Self], UpExpected') + Len(s_wire'[Self]) = 2 * Len(carried') + (up' % 2)
  <2> SUFFICES ASSUME socket_' = "open", server' = "there"
               PROVE  /\ up' > 0 => writing' = 1
                      /\ carried' = written' \o OfWrite(up', Head(write_messages_'))
                      /\ UpExpected' # "none" =>
                          Read(s_heard'[Self], UpExpected') + Len(s_wire'[Self]) = 2 * Len(carried') + (up' % 2)
    OBVIOUS
  <2>1. /\ socket_ = "open" /\ server = "there" /\ up' = up /\ written' = written
        /\ writing = 1 => writing' = 1 /\ Head(write_messages_') = Head(write_messages_)
    OBVIOUS
  <2>2. /\ up > 0 => writing = 1
        /\ carried = written \o OfWrite(up, Head(write_messages_))
        /\ UpExpected # "none" =>
            Read(s_heard[Self], UpExpected) + Len(s_wire[Self]) = 2 * Len(carried) + (up % 2)
    BY <2>1 DEF UpStream
  <2>3. OfWrite(up', Head(write_messages_')) = OfWrite(up, Head(write_messages_))
    BY <2>1, <2>2 DEF OfWrite
  <2>4. carried' = written' \o OfWrite(up', Head(write_messages_'))
    BY <2>1, <2>2, <2>3
  <2>5. UpExpected' # "none" =>
          Read(s_heard'[Self], UpExpected') + Len(s_wire'[Self]) = 2 * Len(carried') + (up' % 2)
    BY <2>1, <2>2, <1>2
  <2> QED
    BY <2>1, <2>2, <2>4, <2>5
<1> QED
  BY <1>1, <1>3, <1>4 DEF UpStream

(* The line that the client writes next is the one after those written.    *)
LEMMA NextLine ==
  ASSUME ClientIInv, write_messages_ # <<>>
  PROVE  Head(write_messages_) = Len(written) + 1
<1>1. /\ written \in Seq(Entries) /\ write_messages_ \in Seq(Entries) /\ posted \in Seq(Entries) /\ typed \in Nat
  BY LineTypes DEF ClientIInv
<1>2. Head(write_messages_) # 0
  <2>1. write_messages_ \in Seq(1 .. Lines)
    BY DEF ClientIInv, TypeOK
  <2>2. Head(write_messages_) \in 1 .. Lines
    BY <2>1, HeadTailProperties
  <2> QED
    BY <2>2, ChatClientAssumption
<1> DEFINE total == written \o write_messages_ \o posted
<1>3. /\ Len(written) \in Nat
      /\ total[Len(written) + 1] = Head(write_messages_) /\ Len(total) >= Len(written) + 1
  <2>1. \A a, b, c \in Seq(Entries) : b # <<>> =>
          /\ Len(a) \in Nat /\ Len(b) \in Nat /\ Len(c) \in Nat /\ Len(b) >= 1
          /\ Head(b) = b[1] /\ a \o b \in Seq(Entries)
          /\ Len(a \o b) = Len(a) + Len(b)
          /\ (a \o b)[Len(a) + 1] = b[1]
    BY SMTT(30)
  <2>2. \A a, c \in Seq(Entries) :
          /\ Len(a \o c) = Len(a) + Len(c)
          /\ \A k \in 1 .. Len(a) : (a \o c)[k] = a[k]
    BY ConcatProperties
  <2>3. Len(written) + 1 \in 1 .. Len(written \o write_messages_)
    BY <1>1, <2>1
  <2> QED
    BY <1>1, <2>1, <2>2, <2>3
<1>4. total = Upto(typed) \/ total = Append(Upto(typed), 0)
  BY <1>1, Closing, QueuesInOrder DEF ClientIInv
<1> HIDE DEF total
<1>5. /\ Len(Upto(typed)) = typed /\ Upto(typed) \in Seq(Nat) /\ \A k \in 1 .. typed : Upto(typed)[k] = k
  BY <1>1, UptoGrows
<1>6. /\ Len(total) = typed \/ (Len(total) = typed + 1 /\ total[typed + 1] = 0)
      /\ \A k \in 1 .. typed : total[k] = k
  <2> HIDE DEF Upto
  <2>1. /\ Len(Append(Upto(typed), 0)) = typed + 1
        /\ \A k \in 1 .. typed : Append(Upto(typed), 0)[k] = Upto(typed)[k]
        /\ Append(Upto(typed), 0)[typed + 1] = 0
    BY <1>5, AppendProperties
  <2> QED
    BY <2>1, <1>4, <1>5
<1>7. Len(written) + 1 \in 1 .. typed
  BY <1>1, <1>2, <1>3, <1>6
<1> QED
  BY <1>3, <1>6, <1>7

(* What the invariant says of the client's stream, and its types.          *)
LEMMA UpTypes ==
  ASSUME SystemIInv
  PROVE  /\ s_wire[Self] \in Seq(Piece) /\ Len(s_wire[Self]) \in Nat /\ s_heard[Self] \in Nat
         /\ s_wire \in [Sessions -> Seq(Piece)] /\ s_heard \in [Sessions -> Nat]
         /\ s_reading \in [Sessions -> {"none", "header", "body"}] /\ Self \in Sessions
         /\ carried \in Seq(Entries) /\ Len(carried) \in Nat /\ written \in Seq(Entries)
         /\ write_messages_ \in Seq(Entries) /\ writing \in Nat
         /\ writing > 0 => writing = 1 /\ write_messages_ # <<>> /\ Head(write_messages_) \in Entries
         /\ up \in 0 .. 2 /\ UpExpected \in {"none", "header", "body"}
         /\ s_reading[Self] # "none" => Self \in s_accepted /\ UpExpected = s_reading[Self]
<1>1. /\ s_wire \in [Sessions -> Seq(Piece)] /\ s_heard \in [Sessions -> 0 .. MostPieces]
      /\ s_reading \in [Sessions -> {"none", "header", "body"}] /\ Self \in Sessions
  BY ServerTypes, MostPiecesType DEF Piece
<1>2. s_wire[Self] \in Seq(Piece) /\ Len(s_wire[Self]) \in Nat /\ s_heard[Self] \in Nat
      /\ s_heard \in [Sessions -> Nat]
  <2>1. 0 .. MostPieces \subseteq Nat
    BY MostPiecesType
  <2> QED
    BY <1>1, <2>1, LenProperties
<1>3. carried \in Seq(Entries) /\ Len(carried) \in Nat
  <2>1. carried \in Seq(1 .. Lines) /\ 1 .. Lines \subseteq Entries
    BY MostPiecesType DEF SystemIInv, LinkTypeOK, Entries
  <2> QED
    BY <2>1, SeqMonotonic, LenProperties
<1>4. written \in Seq(Entries) /\ write_messages_ \in Seq(Entries) /\ writing \in Nat
  BY LineTypes DEF SystemIInv, ClientIInv, TypeOK
<1>5. writing > 0 => writing = 1 /\ write_messages_ # <<>> /\ Head(write_messages_) \in Entries
  BY <1>4, HeadTailProperties DEF SystemIInv, ClientIInv, WritesWhileQueued
<1>6. up \in 0 .. 2 /\ UpExpected \in {"none", "header", "body"}
  BY <1>1 DEF SystemIInv, LinkTypeOK, UpExpected
<1>7. s_reading[Self] # "none" => Self \in s_accepted
  BY <1>1 DEF SystemIInv, SrvN!IInv, SrvN!NeverJoined
<1>8. s_reading[Self] # "none" => UpExpected = s_reading[Self]
  BY <1>7 DEF UpExpected
<1> QED
  BY <1>1, <1>2, <1>3, <1>4, <1>5, <1>6, <1>7, <1>8

(* A piece more: the header of the next line, or the body that makes it    *)
(* one of the lines carried.                                               *)
LEMMA UpCarries ==
  ASSUME SystemIInv, host = "ours", CarryUp
  PROVE  UpStream'
<1>1. UpStream
  BY DEF SystemIInv
<1>2. /\ s_wire[Self] \in Seq(Piece) /\ Len(s_wire[Self]) \in Nat /\ s_heard[Self] \in Nat
      /\ s_wire \in [Sessions -> Seq(Piece)] /\ Self \in Sessions
      /\ carried \in Seq(Entries) /\ Len(carried) \in Nat /\ written \in Seq(Entries)
      /\ UpExpected \in {"none", "header", "body"}
  BY UpTypes
<1>3. /\ socket_ = "open" /\ server = "there" /\ up \in {0, 1} /\ up' = up + 1
      /\ writing = 1 /\ write_messages_ # <<>> /\ Head(write_messages_) \in Entries
      /\ UNCHANGED <<socket_, server, writing, write_messages_, written, s_heard, s_reading, s_accepted>>
      /\ carried' = IF up = 1 THEN Append(carried, Head(write_messages_)) ELSE carried
  BY UpTypes DEF CarryUp, Standing, vars
<1>4. s_wire'[Self] = Append(s_wire[Self], PieceOf(up))
  <2>1. \E q \in NextPiece(up, writing) : s_wire' = [s_wire EXCEPT ![Self] = Append(@, q)]
    BY DEF CarryUp
  <2>2. NextPiece(up, writing) = {PieceOf(up)}
    BY <1>3 DEF NextPiece, PieceOf
  <2> QED
    BY <2>1, <2>2, <1>2
<1>5. UpExpected' = UpExpected
  BY <1>3 DEF UpExpected
<1>6. /\ carried = written
      /\ UpExpected # "none" => Read(s_heard[Self], UpExpected) + Len(s_wire[Self]) = 2 * Len(carried) + up
  <2>1. OfWrite(up, Head(write_messages_)) = <<>> /\ up % 2 = up
    BY <1>3 DEF OfWrite
  <2>2. written \o <<>> = written
    BY <1>2, ConcatEmptySeq
  <2> QED
    BY <1>1, <1>3, <2>1, <2>2 DEF UpStream
<1>7. /\ carried' = written \o OfWrite(up', Head(write_messages_))
      /\ Len(carried') = Len(carried) + up
      /\ carried' = Upto(Len(carried'))
  <2>1. CASE up = 0
    <3>1. carried' = carried /\ OfWrite(up', Head(write_messages_)) = <<>>
      BY <2>1, <1>3 DEF OfWrite
    <3>2. written \o <<>> = written
      BY <1>2, ConcatEmptySeq
    <3>3. carried = Upto(Len(carried))
      BY <1>1 DEF UpStream, Upto
    <3> HIDE DEF Upto
    <3> QED
      BY <2>1, <3>1, <3>2, <3>3, <1>2, <1>6
  <2>2. CASE up = 1
    <3>1. /\ carried' = Append(carried, Head(write_messages_))
          /\ OfWrite(up', Head(write_messages_)) = <<Head(write_messages_)>>
      BY <2>2, <1>3 DEF OfWrite
    <3>2. Append(written, Head(write_messages_)) = written \o <<Head(write_messages_)>>
      BY <1>2, <1>3, AppendIsConcat
    <3>3. Len(carried') = Len(carried) + 1
      BY <3>1, <1>2, <1>3, AppendProperties
    <3>4. Head(write_messages_) = Len(carried) + 1
      BY <1>3, <1>6, NextLine DEF SystemIInv
    <3>5. carried = Upto(Len(carried))
      BY <1>1 DEF UpStream, Upto
    <3>6. Upto(Len(carried) + 1) = Append(Upto(Len(carried)), Len(carried) + 1)
      BY <1>2, UptoGrows
    <3> HIDE DEF Upto
    <3>7. carried' = Upto(Len(carried'))
      BY <3>1, <3>3, <3>4, <3>5, <3>6
    <3> QED
      BY <2>2, <3>1, <3>2, <3>3, <3>7, <1>6
  <2> QED
    BY <2>1, <2>2, <1>3
<1>8. UpExpected # "none" =>
        /\ Framed(UpExpected, s_wire'[Self])
        /\ Read(s_heard[Self], UpExpected) + Len(s_wire'[Self]) = 2 * Len(carried') + (up' % 2)
        /\ Read(s_heard[Self], UpExpected) + Len(s_wire'[Self]) <= 2 * Len(carried') + 1
  <2> SUFFICES ASSUME UpExpected # "none"
               PROVE  /\ Framed(UpExpected, s_wire'[Self])
                      /\ Read(s_heard[Self], UpExpected) + Len(s_wire'[Self]) = 2 * Len(carried') + (up' % 2)
                      /\ Read(s_heard[Self], UpExpected) + Len(s_wire'[Self]) <= 2 * Len(carried') + 1
    OBVIOUS
  <2>1. /\ UpExpected \in {"header", "body"} /\ Framed(UpExpected, s_wire[Self])
        /\ Read(s_heard[Self], UpExpected) + Len(s_wire[Self]) = 2 * Len(carried) + up
    BY <1>1, <1>2, <1>6 DEF UpStream
  <2>2. /\ Framed(UpExpected, Append(s_wire[Self], PieceOf(up)))
        /\ Len(Append(s_wire[Self], PieceOf(up))) = Len(s_wire[Self]) + 1
    BY <2>1, <1>2, <1>3, FramedAppend
  <2>3. Read(s_heard[Self], UpExpected) \in Nat
    BY <1>2 DEF Read
  <2>4. Len(s_wire'[Self]) = Len(s_wire[Self]) + 1 /\ Len(carried') = Len(carried) + up
    BY <2>2, <1>4, <1>7
  <2>5. Read(s_heard[Self], UpExpected) + Len(s_wire'[Self]) = 2 * Len(carried') + (up' % 2)
    <3>1. CASE up = 0
      <4>1. up' % 2 = 1
        BY <3>1, <1>3
      <4> QED
        BY <3>1, <4>1, <2>1, <2>3, <2>4, <1>2
    <3>2. CASE up = 1
      <4>1. up' % 2 = 0
        BY <3>2, <1>3
      <4>2. \A r, l, c \in Nat : r + l = 2 * c + 1 => r + (l + 1) = 2 * (c + 1) + 0
        OBVIOUS
      <4>3. Read(s_heard[Self], UpExpected) + (Len(s_wire[Self]) + 1) = 2 * (Len(carried) + 1) + 0
        BY <3>2, <4>2, <2>1, <2>3, <1>2
      <4> QED
        BY <3>2, <4>1, <4>3, <2>4
    <3> QED
      BY <3>1, <3>2, <1>3
  <2>6. up' % 2 <= 1 /\ up' % 2 \in Nat /\ Len(carried') \in Nat
    BY <2>4, <1>2, <1>3
  <2> QED
    BY <2>2, <2>5, <2>6, <1>4
<1>9. s_heard'[Self] <= Len(carried')
  BY <1>1, <1>2, <1>3, <1>7 DEF UpStream
<1>10. carried' = [k \in 1 .. Len(carried') |-> k]
  BY <1>7 DEF Upto
<1>11. /\ up' > 0 => writing' = 1
       /\ carried' = written' \o OfWrite(up', Head(write_messages_'))
  BY <1>3, <1>7
<1>12. s_heard'[Self] = s_heard[Self]
  BY <1>3
<1> QED
  BY <1>5, <1>8, <1>9, <1>10, <1>11, <1>12 DEF UpStream

(* What is read of a stream, a piece more.                                 *)
LEMMA ReadMore ==
  ASSUME NEW e \in {"header", "body"}, NEW m \in Nat, NEW l \in Nat, l >= 1
  PROVE  LET f == IF e = "header" THEN "body" ELSE "header"
             n == IF e = "body" THEN m + 1 ELSE m
         IN  Read(n, f) + (l - 1) = Read(m, e) + l
  BY DEF Read

(* The session reads the piece it expects, and then expects the other.     *)
LEMMA UpReads ==
  ASSUME SystemIInv, host = "ours", Srv!ReadHeader(Self) \/ Srv!ReadBody(Self),
         UNCHANGED <<vars, link>>
  PROVE  UpStream'
<1>1. UpStream /\ UNCHANGED <<socket_, server, up, writing, written, write_messages_, carried>>
  BY DEF SystemIInv, vars, link
<1>2. /\ s_wire[Self] \in Seq(Piece) /\ Len(s_wire[Self]) \in Nat /\ s_heard[Self] \in Nat
      /\ s_wire \in [Sessions -> Seq(Piece)] /\ s_heard \in [Sessions -> Nat]
      /\ s_reading \in [Sessions -> {"none", "header", "body"}] /\ Self \in Sessions
      /\ Len(carried) \in Nat
      /\ s_reading[Self] # "none" => Self \in s_accepted /\ UpExpected = s_reading[Self]
  BY UpTypes
<1> DEFINE e == s_reading[Self]
           f == IF e = "header" THEN "body" ELSE "header"
           n == IF e = "body" THEN s_heard[Self] + 1 ELSE s_heard[Self]
<1>3. e \in {"header", "body"} /\ s_wire[Self] # <<>> /\ UpExpected = e /\ Self \in s_accepted
  BY <1>2 DEF Srv!ReadHeader, Srv!ReadBody
<1>4. /\ Head(s_wire[Self]) = e /\ Framed(f, Tail(s_wire[Self]))
      /\ Len(Tail(s_wire[Self])) = Len(s_wire[Self]) - 1 /\ Len(s_wire[Self]) >= 1
  <2>1. Framed(e, s_wire[Self])
    BY <1>1, <1>3 DEF UpStream
  <2>2. s_wire[Self] \in Seq(Piece)
    BY <1>2
  <2> HIDE DEF e
  <2> QED
    BY <1>3, <2>1, <2>2, FramedTail
<1>5. /\ s_wire'[Self] = Tail(s_wire[Self]) /\ s_heard'[Self] = n /\ s_reading'[Self] = f
      /\ s_accepted' = s_accepted
  BY <1>2, <1>4 DEF Srv!ReadHeader, Srv!ReadBody
<1>6. UpExpected' = f /\ f \in {"header", "body"}
  BY <1>3, <1>5 DEF UpExpected
<1>7. /\ Framed(e, s_wire[Self])
      /\ Read(s_heard[Self], e) + Len(s_wire[Self]) <= 2 * Len(carried) + 1
      /\ socket_ = "open" /\ server = "there" =>
           Read(s_heard[Self], e) + Len(s_wire[Self]) = 2 * Len(carried) + (up % 2)
  BY <1>1, <1>3 DEF UpStream
<1>8. Read(n, f) + (Len(s_wire[Self]) - 1) = Read(s_heard[Self], e) + Len(s_wire[Self])
  BY <1>2, <1>3, <1>4, ReadMore
<1>9. s_heard'[Self] <= Len(carried)
  <2>1. CASE e = "header"
    BY <2>1, <1>1, <1>5 DEF UpStream
  <2>2. CASE e = "body"
    <3>1. Read(s_heard[Self], e) = 2 * s_heard[Self] + 1
      BY <2>2 DEF Read
    <3>2. \A h, l, c \in Nat : l >= 1 /\ 2 * h + 1 + l <= 2 * c + 1 => h + 1 <= c
      OBVIOUS
    <3>3. s_heard[Self] + 1 <= Len(carried)
      BY <3>1, <3>2, <1>2, <1>4, <1>7
    <3> QED
      BY <3>3, <2>2, <1>5
  <2> QED
    BY <2>1, <2>2, <1>3
<1>10. /\ Framed(UpExpected', s_wire'[Self])
       /\ Read(s_heard'[Self], UpExpected') + Len(s_wire'[Self])
            = Read(s_heard[Self], e) + Len(s_wire[Self])
  BY <1>4, <1>5, <1>6, <1>8
<1> HIDE DEF e, f, n
<1> QED
  BY <1>1, <1>7, <1>9, <1>10 DEF UpStream

(* A line that is on the wire in full has been written, and the next write *)
(* has nothing there.                                                      *)
LEMMA UpWritten ==
  ASSUME SystemIInv, host = "ours", ClientWrites
  PROVE  UpStream'
<1>1. UpStream
  BY DEF SystemIInv
<1>2. UNCHANGED <<carried, s_heard, s_wire, s_reading, s_accepted>> /\ up' = 0
  BY DEF ClientWrites, server_
<1>3. UpExpected' = UpExpected
  BY <1>2 DEF UpExpected
<1>4. CASE socket_' = "open" /\ server' = "there"
  <2>1. /\ WriteDone /\ up = 2 /\ socket_ = "open" /\ server = "there"
        /\ written' = Append(written, Head(write_messages_))
    BY <1>4 DEF ClientWrites, WriteDone, WriteFails, environment
  <2>2. written \in Seq(Entries) /\ Head(write_messages_) \in Entries
    BY <2>1, UpTypes DEF WriteDone
  <2>3. /\ carried = written \o <<Head(write_messages_)>>
        /\ UpExpected # "none" => Read(s_heard[Self], UpExpected) + Len(s_wire[Self]) = 2 * Len(carried) + 0
    <3>1. 2 % 2 = 0
      OBVIOUS
    <3> QED
      BY <2>1, <3>1, <1>1 DEF UpStream, OfWrite
  <2>4. carried = written' /\ written' \in Seq(Entries)
    BY <2>1, <2>2, <2>3, AppendIsConcat, AppendProperties
  <2>5. carried' = written' \o OfWrite(up', Head(write_messages_'))
    <3>1. OfWrite(up', Head(write_messages_')) = <<>>
      BY <1>2 DEF OfWrite
    <3> QED
      BY <2>4, <3>1, <1>2, ConcatEmptySeq
  <2>6. /\ ~ (up' > 0)
        /\ UpExpected' # "none" =>
             Read(s_heard'[Self], UpExpected') + Len(s_wire'[Self]) = 2 * Len(carried') + (up' % 2)
    <3>1. ~ (0 > 0) /\ 0 % 2 = 0
      OBVIOUS
    <3> QED
      BY <2>3, <3>1, <1>2, <1>3
  <2>7. /\ carried' = [k \in 1 .. Len(carried') |-> k]
        /\ s_heard'[Self] <= Len(carried')
        /\ UpExpected' # "none" =>
             /\ Framed(UpExpected', s_wire'[Self])
             /\ Read(s_heard'[Self], UpExpected') + Len(s_wire'[Self]) <= 2 * Len(carried') + 1
    BY <1>1, <1>2, <1>3 DEF UpStream
  <2> QED
    BY <2>5, <2>6, <2>7 DEF UpStream
<1>5. CASE ~ (socket_' = "open" /\ server' = "there")
  BY <1>1, <1>2, <1>3, <1>5, UpStill
<1> QED
  BY <1>4, <1>5

(* The client's stream stays as it should be.                              *)
LEMMA UpKept ==
  ASSUME SystemIInv, [SystemNext]_systemVars, host = "ours"
  PROVE  UpStream'
<1>1. UpStream
  BY DEF SystemIInv
<1>2. /\ s_reading \in [Sessions -> {"none", "header", "body"}] /\ Self \in Sessions
      /\ s_heard \in [Sessions -> Nat] /\ s_wire \in [Sessions -> Seq(Piece)]
      /\ Self \notin s_accepted => s_reading[Self] = "none"
  BY UpTypes DEF SystemIInv, SrvN!IInv, SrvN!NeverJoined
<1>3. ASSUME UNCHANGED <<vars, up, carried>>, s_heard'[Self] = s_heard[Self], s_wire'[Self] = s_wire[Self],
             UpExpected' \in {UpExpected, "none"}
      PROVE  UpStream'
  BY <1>1, <1>3, UpStill DEF vars
<1>4. ASSUME UNCHANGED <<server_, up, carried>>,
             socket_' = "open" /\ server' = "there" =>
               /\ socket_ = "open" /\ server = "there" /\ written' = written
               /\ writing = 1 => writing' = 1 /\ Head(write_messages_') = Head(write_messages_)
      PROVE  UpStream'
  <2>1. UNCHANGED <<s_heard, s_wire, UpExpected>>
    BY <1>4 DEF server_, UpExpected
  <2> QED
    BY <1>1, <1>4, <2>1, UpStill
<1>5. ASSUME PostedLine PROVE writing = 1 => writing' = 1 /\ Head(write_messages_') = Head(write_messages_)
  <2> SUFFICES ASSUME writing = 1 PROVE writing' = 1 /\ Head(write_messages_') = Head(write_messages_)
    OBVIOUS
  <2>1. write_messages_ # <<>> /\ write_messages_ \in Seq(Entries)
    BY UpTypes
  <2>2. posted \in Seq(Entries) /\ Head(posted) \in Entries
    BY <1>5, LineTypes, HeadTailProperties DEF PostedLine, SystemIInv, ClientIInv
  <2>3. Head(Append(write_messages_, Head(posted))) = Head(write_messages_)
    <3>1. \A q \in Seq(Entries) : \A l \in Entries : q # <<>> => Head(Append(q, l)) = Head(q)
      OBVIOUS
    <3> QED
      BY <2>1, <2>2, <3>1
  <2> QED
    BY <1>5, <2>1, <2>3 DEF PostedLine
<1>6. CASE Alone(ClientElse)
  <2>1. CASE PostedLine
    BY <1>4, <1>5, <1>6, <2>1 DEF Alone, link, PostedLine, environment
  <2>2. CASE ~ PostedLine
    BY <1>4, <1>6, <2>2 DEF Alone, link, ClientElse, GetLine, EndOfInput, Join, NextEndpoint, ConnectFails,
       PostedHandler, PostedClose, ReadFails, RunReturns, writeSide, environment
  <2> QED
    BY <2>1, <2>2
<1>7. CASE ClientReads
  BY <1>4, <1>7 DEF ClientReads, ReadPiece, writeSide
<1>8. CASE Connects
  <2>1. /\ UNCHANGED <<s_heard, s_wire, s_reading, s_accepted, up, carried, socket_, writeSide, server>>
    BY <1>8 DEF Connects, Connected, server_, link, environment, Srv!Connect
  <2>2. UNCHANGED <<UpExpected, writing, written, write_messages_>>
    BY <2>1 DEF UpExpected, writeSide
  <2> QED
    BY <1>1, <2>1, <2>2, UpStill
<1>9. CASE ServerAlone
  <2>1. UNCHANGED <<vars, link>> /\ UNCHANGED <<up, carried>>
    BY <1>9 DEF ServerAlone, link
  <2>2. CASE OthersSpeak
    <3>1. UpExpected' = UpExpected /\ s_heard'[Self] = s_heard[Self] /\ s_wire'[Self] = s_wire[Self]
      BY <2>2, OthersLeaveSelf DEF UpExpected
    <3> QED
      BY <2>1, <3>1, <1>3
  <2>3. CASE Srv!AcceptHandler(Self)
    <3>1. Self \notin s_accepted /\ Self \in s_accepted' /\ s_reading'[Self] \in {"header", "none"}
          /\ UNCHANGED <<s_heard, s_wire>>
      BY <2>3, <1>2 DEF Srv!AcceptHandler, Srv!Accept, Srv!AcceptFails, Srv!client
    <3>2. UpExpected' \in {UpExpected, "none"}
      BY <3>1 DEF UpExpected
    <3> QED
      BY <2>1, <3>1, <3>2, <1>3
  <2>4. CASE Srv!ReadFails(Self)
    <3>1. s_reading'[Self] = "none" /\ UNCHANGED <<s_heard, s_wire, s_accepted>> /\ Self \in s_accepted
      BY <2>4, <1>2 DEF Srv!ReadFails, Srv!client
    <3>2. UpExpected' \in {UpExpected, "none"}
      BY <3>1 DEF UpExpected
    <3> QED
      BY <2>1, <3>1, <3>2, <1>3
  <2>5. CASE Srv!ReadHeader(Self) \/ Srv!ReadBody(Self)
    BY <2>1, <2>5, UpReads
  <2> QED
    BY <1>9, <2>2, <2>3, <2>4, <2>5 DEF ServerAlone, ServerReads, Srv!ReadHandler
<1>10. CASE ServerWrites \/ ClientGone
  <2>1. UNCHANGED <<vars, up, carried, s_heard, s_wire, s_reading, s_accepted>>
    BY <1>10 DEF ServerWrites, ClientGone, link, Srv!WriteDone, Srv!WriteFails, Srv!HangUp, Srv!client
  <2>2. UpExpected' = UpExpected
    BY <2>1 DEF UpExpected
  <2> QED
    BY <2>1, <2>2, <1>3
<1>11. CASE CarryDown
  BY <1>4, <1>11 DEF CarryDown, writeSide
<1>12. CASE SessionGone \/ Break
  <2>1. UNCHANGED <<s_heard, s_wire, s_reading, s_accepted, carried>> /\ server' = "gone"
    BY <1>12 DEF SessionGone, Break, Gone, server_, link, Srv!HangUp
  <2>2. UpExpected' = UpExpected
    BY <2>1 DEF UpExpected
  <2> QED
    BY <1>1, <2>1, <2>2, UpStill
<1>13. CASE UNCHANGED systemVars
  BY <1>4, <1>13 DEF systemVars, vars, link
<1>14. ~ (host = "stranger" /\ Alone(Put \/ Gone))
  OBVIOUS
<1> QED
  BY <1>6, <1>7, <1>8, <1>9, <1>10, <1>11, <1>12, <1>13, <1>14, UpWritten, UpCarries DEF SystemNext

--------------------------------------------------------------------------------
(* The session's stream.                                                   *)

(* What the invariant says of the session's stream, and its types.         *)
LEMMA DownTypes ==
  ASSUME SystemIInv
  PROVE  /\ wire \in Seq(Piece) /\ Len(wire) \in Nat /\ shown \in Nat
         /\ reading \in {"none", "header", "body"}
         /\ coming \in Seq(SrvN!Messages) /\ Len(coming) \in Nat
         /\ s_log \in Seq(SrvN!Messages) /\ Len(s_log) \in Nat
         /\ Self \in Sessions /\ s_first \in [Sessions -> Nat]
         /\ s_sent \in [Sessions -> Seq(SrvN!Messages)]
         /\ s_write_messages \in [Sessions -> Seq(SrvN!Messages)]
         /\ s_writing \in [Sessions -> Nat]
         /\ s_peer \in [Sessions -> {"away", "there", "gone"}]
         /\ s_writing[Self] > 0 => /\ s_writing[Self] = 1 /\ s_write_messages[Self] # <<>>
                                   /\ Head(s_write_messages[Self]) \in SrvN!Messages
                                   /\ s_first[Self] # 0
         /\ down \in 0 .. 2 /\ DownExpected \in {"none", "header", "body"}
         /\ reading # "none" => connect = "connected" /\ DownExpected = reading
<1>1. /\ s_log \in Seq(SrvN!Messages) /\ s_first \in [Sessions -> Nat] /\ s_sent \in [Sessions -> Seq(SrvN!Messages)]
      /\ s_write_messages \in [Sessions -> Seq(SrvN!Messages)] /\ s_writing \in [Sessions -> Nat]
      /\ s_peer \in [Sessions -> {"away", "there", "gone"}] /\ Self \in Sessions
  BY ServerTypes, MostPiecesType
<1>2. /\ wire \in Seq(Piece) /\ reading \in {"none", "header", "body"} /\ shown \in Nat /\ down \in 0 .. 2
      /\ coming \in Seq(SrvN!Messages)
  BY DEF SystemIInv, LinkTypeOK, ClientIInv, TypeOK, Piece
<1>3. s_writing[Self] > 0 => s_writing[Self] = 1 /\ s_write_messages[Self] # <<>> /\ s_first[Self] # 0
  BY <1>1 DEF SystemIInv, SrvN!IInv, SrvN!WritesWhileQueued, SrvN!NeverJoined
<1>4. s_writing[Self] > 0 => Head(s_write_messages[Self]) \in SrvN!Messages
  <2>1. s_write_messages[Self] \in Seq(SrvN!Messages)
    BY <1>1
  <2> QED
    BY <2>1, <1>3, HeadTailProperties
<1>5. DownExpected \in {"none", "header", "body"}
  BY <1>2 DEF DownExpected
<1>6. reading # "none" => connect = "connected" /\ DownExpected = reading
  BY DEF SystemIInv, ClientIInv, ReadsWhenConnected, DownExpected
<1>7. Len(wire) \in Nat /\ Len(coming) \in Nat /\ Len(s_log) \in Nat
  BY <1>1, <1>2, LenProperties
<1> QED
  BY <1>1, <1>2, <1>3, <1>4, <1>5, <1>6, <1>7

(* A part of the conversation is the same part of it when it goes on.      *)
LEMMA PartStays ==
  ASSUME SystemIInv, LogGrows, NEW i \in Nat \ {0}, NEW j \in 0 .. Len(s_log)
  PROVE  j <= Len(s_log') /\ SubSeq(s_log', i, j) = SubSeq(s_log, i, j)
<1>1. s_log \in Seq(SrvN!Messages) /\ Len(s_log) \in Nat
  BY DownTypes
<1>2. CASE s_log' = s_log
  BY <1>1, <1>2
<1>3. CASE s_log' # s_log
  <2>1. PICK m \in SrvN!Messages : s_log' = Append(s_log, m)
    BY <1>3 DEF LogGrows
  <2>2. Len(s_log') = Len(s_log) + 1
    BY <2>1, <1>1, AppendProperties
  <2>3. CASE i <= Len(s_log) + 1
    <3>1. i \in 1 .. Len(s_log) + 1
      BY <2>3, <1>1
    <3>2. SubSeq(Append(s_log, m), i, j) = SubSeq(s_log, i, j)
      BY <3>1, <1>1, SrvN!SubSeqStays
    <3> QED
      BY <2>1, <2>2, <3>2, <1>1
  <2>4. CASE ~ (i <= Len(s_log) + 1)
    <3>1. i > j /\ i \in Int /\ j \in Int
      BY <2>4, <1>1
    <3>2. SubSeq(s_log', i, j) = <<>> /\ SubSeq(s_log, i, j) = <<>>
      BY <3>1, SubSeqEmpty
    <3> QED
      BY <2>2, <3>2, <1>1
  <2> QED
    BY <2>3, <2>4
<1> QED
  BY <1>2, <1>3

(* What leaves the session's stream as it is, or ends it at one side.      *)
LEMMA DownStill ==
  ASSUME SystemIInv, DownStream, LogGrows, UNCHANGED <<coming, shown, wire>>,
         Len(coming) > 0 => s_first'[Self] = s_first[Self],
         DownExpected' \in {DownExpected, "none"},
         s_peer'[Self] # "gone" =>
           s_peer[Self] # "gone" /\ down' = down /\ s_sent'[Self] = s_sent[Self] /\ SameWrite
  PROVE  DownStream'
<1>1. DownExpected' # "none" => DownExpected' = DownExpected
  OBVIOUS
<1>2. shown' <= Len(coming')
  BY DEF DownStream
<1>3. DownExpected' # "none" =>
        /\ Framed(DownExpected', wire')
        /\ Read(shown', DownExpected') + Len(wire') <= 2 * Len(coming') + 1
  BY <1>1 DEF DownStream
<1>4. Len(coming') > 0 =>
       /\ s_first'[Self] # 0 /\ s_first'[Self] + Len(coming') - 1 <= Len(s_log')
       /\ coming' = SubSeq(s_log', s_first'[Self], s_first'[Self] + Len(coming') - 1)
  <2> SUFFICES ASSUME Len(coming) > 0
               PROVE  /\ s_first[Self] # 0 /\ s_first[Self] + Len(coming) - 1 <= Len(s_log')
                      /\ coming = SubSeq(s_log', s_first[Self], s_first[Self] + Len(coming) - 1)
    OBVIOUS
  <2>1. /\ s_first[Self] # 0 /\ s_first[Self] + Len(coming) - 1 <= Len(s_log)
        /\ coming = SubSeq(s_log, s_first[Self], s_first[Self] + Len(coming) - 1)
    BY DEF DownStream
  <2>2. s_first[Self] \in Nat \ {0} /\ s_first[Self] + Len(coming) - 1 \in 0 .. Len(s_log)
    <3>1. \A x, l, n \in Nat : x # 0 /\ l > 0 /\ x + l - 1 <= n => x + l - 1 \in 0 .. n
      OBVIOUS
    <3> QED
      BY <2>1, <3>1, DownTypes
  <2>3. \A j \in 0 .. Len(s_log) : j <= Len(s_log') /\ SubSeq(s_log', s_first[Self], j) = SubSeq(s_log, s_first[Self], j)
    BY <2>2, PartStays
  <2> QED
    BY <2>1, <2>2, <2>3
<1>5. ASSUME s_peer'[Self] # "gone"
      PROVE  /\ down' > 0 => s_writing'[Self] = 1
             /\ coming' = s_sent'[Self] \o OfWrite(down', Head(s_write_messages'[Self]))
             /\ DownExpected' # "none" =>
                  Read(shown', DownExpected') + Len(wire') = 2 * Len(coming') + (down' % 2)
  <2>1. /\ s_peer[Self] # "gone" /\ down' = down /\ s_sent'[Self] = s_sent[Self]
        /\ s_writing[Self] = 1 => /\ s_writing'[Self] = 1
                                  /\ Head(s_write_messages'[Self]) = Head(s_write_messages[Self])
    BY <1>5 DEF SameWrite
  <2>2. /\ down > 0 => s_writing[Self] = 1
        /\ coming = s_sent[Self] \o OfWrite(down, Head(s_write_messages[Self]))
        /\ DownExpected # "none" =>
             Read(shown, DownExpected) + Len(wire) = 2 * Len(coming) + (down % 2)
    BY <2>1 DEF DownStream
  <2>3. OfWrite(down', Head(s_write_messages'[Self])) = OfWrite(down, Head(s_write_messages[Self]))
    BY <2>1, <2>2 DEF OfWrite
  <2>4. coming' = s_sent'[Self] \o OfWrite(down', Head(s_write_messages'[Self]))
    BY <2>1, <2>2, <2>3
  <2>5. DownExpected' # "none" =>
          Read(shown', DownExpected') + Len(wire') = 2 * Len(coming') + (down' % 2)
    BY <2>1, <2>2, <1>1
  <2> QED
    BY <2>1, <2>2, <2>4, <2>5
<1> QED
  BY <1>2, <1>3, <1>4, <1>5 DEF DownStream

(* What was written and the first message queued begin the part of the     *)
(* conversation that what was written and the whole queue are.             *)
LEMMA PrefixOfPart ==
  ASSUME NEW d \in Seq(SrvN!Messages), NEW q \in Seq(SrvN!Messages), q # <<>>,
         NEW l \in Seq(SrvN!Messages), NEW i \in Nat \ {0}, NEW j \in 0 .. Len(l), d \o q = SubSeq(l, i, j)
  PROVE  i + Len(d) <= Len(l) /\ Append(d, Head(q)) = SubSeq(l, i, i + Len(d))
<1>1. /\ Len(l) \in Nat /\ Len(d) \in Nat /\ Len(q) \in Nat /\ Len(q) >= 1 /\ i \in Int /\ j \in Int
      /\ Head(q) = q[1] /\ Head(q) \in SrvN!Messages
  OBVIOUS
<1>2. /\ Len(d \o q) = Len(d) + Len(q)
      /\ \A k \in 1 .. Len(d) + Len(q) : (d \o q)[k] = IF k <= Len(d) THEN d[k] ELSE q[k - Len(d)]
  BY ConcatProperties
<1>3. \A k \in i .. j : l[k] \in SrvN!Messages
  BY <1>1, ElementOfSeq
<1>4. /\ Len(SubSeq(l, i, j)) = IF i <= j THEN j - i + 1 ELSE 0
      /\ \A k \in 1 .. j - i + 1 : SubSeq(l, i, j)[k] = l[i + k - 1]
  BY <1>1, <1>3, SubSeqProperties
<1>5. i <= j /\ Len(d) + Len(q) = j - i + 1
  BY <1>1, <1>2, <1>4
<1> DEFINE r == SubSeq(l, i, i + Len(d))
           a == Append(d, Head(q))
<1>6. i + Len(d) <= j
  BY <1>1, <1>5
<1>7. /\ r \in Seq(SrvN!Messages) /\ Len(r) = Len(d) + 1
      /\ \A k \in 1 .. Len(d) + 1 : r[k] = l[i + k - 1]
  <2>1. \A k \in i .. i + Len(d) : l[k] \in SrvN!Messages
    BY <1>1, <1>3, <1>6
  <2>2. i + Len(d) \in Int /\ i <= i + Len(d) /\ (i + Len(d)) - i + 1 = Len(d) + 1
    BY <1>1
  <2> HIDE DEF a
  <2> QED
    BY <2>1, <2>2, <1>1, SubSeqProperties
<1>8. /\ a \in Seq(SrvN!Messages) /\ Len(a) = Len(d) + 1
      /\ \A k \in 1 .. Len(d) : a[k] = d[k]
      /\ a[Len(d) + 1] = Head(q)
  <2> HIDE DEF r
  <2> QED
    BY <1>1, AppendProperties
<1> HIDE DEF r, a
<1>9. ASSUME NEW k \in 1 .. Len(d) + 1 PROVE a[k] = r[k]
  <2>1. k \in 1 .. Len(d) + Len(q) /\ k \in 1 .. j - i + 1
    BY <1>1, <1>5, <1>9
  <2>2. r[k] = (d \o q)[k]
    BY <2>1, <1>4, <1>7
  <2>3. CASE k <= Len(d)
    BY <2>1, <2>2, <2>3, <1>1, <1>2, <1>8
  <2>4. CASE k = Len(d) + 1
    BY <2>1, <2>2, <2>4, <1>1, <1>2, <1>8
  <2> QED
    BY <2>3, <2>4, <1>1
<1>10. a = r
  BY <1>7, <1>8, <1>9, SeqEqual
<1>11. i + Len(d) <= Len(l)
  <2>1. \A n \in Nat : \A x \in 0 .. n : \A y \in Nat : y <= x => y <= n
    OBVIOUS
  <2> QED
    BY <2>1, <1>1, <1>6
<1> QED
  BY <1>10, <1>11 DEF a, r

(* The message that is written next is the next of the session's share.    *)
LEMMA NextMessage ==
  ASSUME SystemIInv, s_writing[Self] > 0
  PROVE  /\ s_first[Self] + Len(s_sent[Self]) <= Len(s_log)
         /\ Append(s_sent[Self], Head(s_write_messages[Self]))
              = SubSeq(s_log, s_first[Self], s_first[Self] + Len(s_sent[Self]))
<1>1. /\ s_first[Self] \in Nat \ {0} /\ s_write_messages[Self] # <<>> /\ Self \in Sessions
      /\ s_write_messages[Self] \in Seq(SrvN!Messages) /\ s_sent[Self] \in Seq(SrvN!Messages)
      /\ s_log \in Seq(SrvN!Messages) /\ Len(s_log) \in Nat
  BY DownTypes
<1>2. /\ SrvN!ShareEnd(Self) <= Len(s_log)
      /\ s_sent[Self] \o s_write_messages[Self] = SubSeq(s_log, s_first[Self], SrvN!ShareEnd(Self))
  BY <1>1 DEF SystemIInv, SrvN!IInv, SrvN!Shares
<1>3. SrvN!ShareEnd(Self) \in 0 .. Len(s_log)
  BY <1>1, <1>2 DEF SrvN!ShareEnd, SystemIInv, SrvN!IInv, SrvN!TypeOK
<1> QED
  BY <1>1, <1>2, <1>3, PrefixOfPart

(* A piece more: the header of the next message, or the body that makes it *)
(* one of those that have come.                                            *)
LEMMA DownCarries ==
  ASSUME SystemIInv, host = "ours", CarryDown
  PROVE  DownStream'
<1>1. DownStream
  BY DEF SystemIInv
<1>2. /\ wire \in Seq(Piece) /\ Len(wire) \in Nat /\ shown \in Nat
      /\ coming \in Seq(SrvN!Messages) /\ Len(coming) \in Nat
      /\ Self \in Sessions /\ s_sent[Self] \in Seq(SrvN!Messages)
      /\ DownExpected \in {"none", "header", "body"}
  BY DownTypes
<1>3. /\ s_peer[Self] # "gone" /\ down \in {0, 1} /\ down' = down + 1
      /\ s_writing[Self] = 1 /\ s_writing[Self] > 0 /\ Head(s_write_messages[Self]) \in SrvN!Messages
      /\ s_first[Self] # 0
      /\ UNCHANGED <<s_peer, s_writing, s_write_messages, s_sent, s_first, s_log, shown, reading, connect>>
      /\ coming' = IF down = 1 THEN Append(coming, Head(s_write_messages[Self])) ELSE coming
  <2>1. s_writing[Self] > 0 /\ s_peer[Self] = "there" /\ down < 2
    BY DEF CarryDown, Standing
  <2>2. down \in 0 .. 2
    BY DownTypes
  <2>3. down \in {0, 1}
    BY <2>1, <2>2
  <2> QED
    BY <2>1, <2>3, DownTypes DEF CarryDown, server_, readSide, connecting
<1>4. wire' = Append(wire, PieceOf(down))
  <2>1. \E q \in NextPiece(down, s_writing[Self]) : wire' = Append(wire, q)
    BY DEF CarryDown
  <2>2. NextPiece(down, s_writing[Self]) = {PieceOf(down)}
    BY <1>3 DEF NextPiece, PieceOf
  <2> QED
    BY <2>1, <2>2
<1>5. DownExpected' = DownExpected
  BY <1>3 DEF DownExpected
<1>6. /\ coming = s_sent[Self]
      /\ DownExpected # "none" => Read(shown, DownExpected) + Len(wire) = 2 * Len(coming) + down
  <2>1. OfWrite(down, Head(s_write_messages[Self])) = <<>> /\ down % 2 = down
    BY <1>3 DEF OfWrite
  <2>2. s_sent[Self] \o <<>> = s_sent[Self]
    BY <1>2, ConcatEmptySeq
  <2> QED
    BY <1>1, <1>3, <2>1, <2>2 DEF DownStream
<1>7. /\ coming' = s_sent[Self] \o OfWrite(down', Head(s_write_messages[Self]))
      /\ Len(coming') = Len(coming) + down
      /\ Len(coming') > 0 =>
           /\ s_first[Self] + Len(coming') - 1 <= Len(s_log)
           /\ coming' = SubSeq(s_log, s_first[Self], s_first[Self] + Len(coming') - 1)
  <2>1. CASE down = 0
    <3>1. coming' = coming /\ OfWrite(down', Head(s_write_messages[Self])) = <<>>
      BY <2>1, <1>3 DEF OfWrite
    <3>2. s_sent[Self] \o <<>> = s_sent[Self]
      BY <1>2, ConcatEmptySeq
    <3>3. coming' = s_sent[Self] \o OfWrite(down', Head(s_write_messages[Self]))
      BY <3>1, <3>2, <1>6
    <3>4. Len(coming') = Len(coming) + down
      BY <2>1, <3>1, <1>2
    <3> QED
      BY <3>1, <3>3, <3>4, <1>1 DEF DownStream
  <2>2. CASE down = 1
    <3>1. /\ coming' = Append(coming, Head(s_write_messages[Self]))
          /\ OfWrite(down', Head(s_write_messages[Self])) = <<Head(s_write_messages[Self])>>
      BY <2>2, <1>3 DEF OfWrite
    <3>2. Append(s_sent[Self], Head(s_write_messages[Self])) = s_sent[Self] \o <<Head(s_write_messages[Self])>>
      BY <1>2, <1>3, AppendIsConcat
    <3>3. Len(coming') = Len(coming) + 1
      BY <3>1, <1>2, <1>3, AppendProperties
    <3>4. /\ s_first[Self] + Len(coming) <= Len(s_log)
          /\ coming' = SubSeq(s_log, s_first[Self], s_first[Self] + Len(coming))
      BY <3>1, <1>3, <1>6, NextMessage
    <3>5. s_first[Self] + Len(coming') - 1 = s_first[Self] + Len(coming)
      <4>1. s_first[Self] \in Nat
        BY DownTypes
      <4> QED
        BY <4>1, <3>3, <1>2
    <3>6. Len(coming') = Len(coming) + down
      BY <2>2, <3>3
    <3> QED
      BY <3>1, <3>2, <3>4, <3>5, <3>6, <1>6
  <2> QED
    BY <2>1, <2>2, <1>3
<1>8. DownExpected # "none" =>
        /\ Framed(DownExpected, wire')
        /\ Read(shown, DownExpected) + Len(wire') = 2 * Len(coming') + (down' % 2)
        /\ Read(shown, DownExpected) + Len(wire') <= 2 * Len(coming') + 1
  <2> SUFFICES ASSUME DownExpected # "none"
               PROVE  /\ Framed(DownExpected, wire')
                      /\ Read(shown, DownExpected) + Len(wire') = 2 * Len(coming') + (down' % 2)
                      /\ Read(shown, DownExpected) + Len(wire') <= 2 * Len(coming') + 1
    OBVIOUS
  <2>1. /\ DownExpected \in {"header", "body"} /\ Framed(DownExpected, wire)
        /\ Read(shown, DownExpected) + Len(wire) = 2 * Len(coming) + down
    BY <1>1, <1>2, <1>6 DEF DownStream
  <2>2. /\ Framed(DownExpected, Append(wire, PieceOf(down)))
        /\ Len(Append(wire, PieceOf(down))) = Len(wire) + 1
    BY <2>1, <1>2, <1>3, FramedAppend
  <2>3. Read(shown, DownExpected) \in Nat
    BY <1>2 DEF Read
  <2>4. Len(wire') = Len(wire) + 1 /\ Len(coming') = Len(coming) + down
    BY <2>2, <1>4, <1>7
  <2>5. Read(shown, DownExpected) + Len(wire') = 2 * Len(coming') + (down' % 2)
    <3>1. CASE down = 0
      <4>1. down' % 2 = 1
        BY <3>1, <1>3
      <4> QED
        BY <3>1, <4>1, <2>1, <2>3, <2>4, <1>2
    <3>2. CASE down = 1
      <4>1. down' % 2 = 0
        BY <3>2, <1>3
      <4>2. \A r, l, c \in Nat : r + l = 2 * c + 1 => r + (l + 1) = 2 * (c + 1) + 0
        OBVIOUS
      <4>3. Read(shown, DownExpected) + (Len(wire) + 1) = 2 * (Len(coming) + 1) + 0
        BY <3>2, <4>2, <2>1, <2>3, <1>2
      <4> QED
        BY <3>2, <4>1, <4>3, <2>4
    <3> QED
      BY <3>1, <3>2, <1>3
  <2>6. down' % 2 <= 1 /\ down' % 2 \in Nat /\ Len(coming') \in Nat
    BY <2>4, <1>2, <1>3
  <2> QED
    BY <2>2, <2>5, <2>6, <1>4
<1>9. shown' <= Len(coming')
  BY <1>1, <1>2, <1>3, <1>7 DEF DownStream
<1> QED
  BY <1>3, <1>5, <1>7, <1>8, <1>9 DEF DownStream

(* The client reads the piece it expects, and then expects the other.      *)
LEMMA DownReads ==
  ASSUME SystemIInv, host = "ours", ClientReads
  PROVE  DownStream'
<1>1. DownStream
  BY DEF SystemIInv
<1>2. /\ wire \in Seq(Piece) /\ Len(wire) \in Nat /\ shown \in Nat /\ Len(coming) \in Nat
      /\ reading \in {"none", "header", "body"}
      /\ reading # "none" => connect = "connected" /\ DownExpected = reading
  BY DownTypes
<1> DEFINE e == reading
           f == IF e = "header" THEN "body" ELSE "header"
           n == IF e = "body" THEN shown + 1 ELSE shown
<1>3. /\ e \in {"header", "body"} /\ wire # <<>> /\ DownExpected = e /\ connect = "connected"
      /\ connect' = connect
      /\ UNCHANGED <<s_peer, s_writing, s_write_messages, s_sent, s_first, s_log, coming, down>>
  BY <1>2 DEF ClientReads, ReadPiece, connecting, server_
<1>4. /\ Head(wire) = e /\ Framed(f, Tail(wire))
      /\ Len(Tail(wire)) = Len(wire) - 1 /\ Len(wire) >= 1
  BY <1>1, <1>2, <1>3, FramedTail DEF DownStream
<1>5. wire' = Tail(wire) /\ shown' = n /\ reading' = f
  BY <1>3, <1>4 DEF ClientReads, ReadPiece, StartRead
<1>6. DownExpected' = f
  BY <1>3, <1>5 DEF DownExpected
<1>7. /\ Framed(e, wire)
      /\ Read(shown, e) + Len(wire) <= 2 * Len(coming) + 1
      /\ s_peer[Self] # "gone" => Read(shown, e) + Len(wire) = 2 * Len(coming) + (down % 2)
  BY <1>1, <1>3 DEF DownStream
<1>8. Read(n, f) + (Len(wire) - 1) = Read(shown, e) + Len(wire)
  BY <1>2, <1>3, <1>4, ReadMore
<1>9. shown' <= Len(coming)
  <2>1. CASE e = "header"
    BY <2>1, <1>1, <1>5 DEF DownStream
  <2>2. CASE e = "body"
    <3>1. Read(shown, e) = 2 * shown + 1
      BY <2>2 DEF Read
    <3>2. \A h, l, c \in Nat : l >= 1 /\ 2 * h + 1 + l <= 2 * c + 1 => h + 1 <= c
      OBVIOUS
    <3>3. shown + 1 <= Len(coming)
      BY <3>1, <3>2, <1>2, <1>4, <1>7
    <3> QED
      BY <3>3, <2>2, <1>5
  <2> QED
    BY <2>1, <2>2, <1>3
<1>10. Framed(DownExpected', wire') /\ Read(shown', DownExpected') + Len(wire') = Read(shown, e) + Len(wire)
  BY <1>4, <1>5, <1>6, <1>8
<1> HIDE DEF e, f, n
<1> QED
  BY <1>1, <1>3, <1>7, <1>9, <1>10 DEF DownStream

(* A message that is on the wire in full has been written, and the next    *)
(* write has nothing there.                                                *)
LEMMA DownWritten ==
  ASSUME SystemIInv, host = "ours", ServerWrites
  PROVE  DownStream'
<1>1. DownStream
  BY DEF SystemIInv
<1>2. UNCHANGED <<coming, shown, wire, reading, connect, s_first, s_log, s_peer>> /\ down' = 0
  BY DEF ServerWrites, vars, Srv!WriteDone, Srv!WriteFails, Srv!client
<1>3. DownExpected' = DownExpected
  BY <1>2 DEF DownExpected
<1>4. CASE s_peer[Self] # "gone"
  <2>1. /\ down = 2 /\ s_writing[Self] > 0
        /\ s_sent' = [s_sent EXCEPT ![Self] = Append(@, Head(s_write_messages[Self]))]
    BY <1>4 DEF ServerWrites, Srv!WriteDone, Srv!WriteFails
  <2>2. /\ s_sent[Self] \in Seq(SrvN!Messages) /\ Head(s_write_messages[Self]) \in SrvN!Messages
        /\ s_sent'[Self] = Append(s_sent[Self], Head(s_write_messages[Self]))
    BY <2>1, DownTypes
  <2>3. /\ coming = s_sent[Self] \o <<Head(s_write_messages[Self])>>
        /\ DownExpected # "none" => Read(shown, DownExpected) + Len(wire) = 2 * Len(coming) + 0
    <3>1. 2 % 2 = 0
      OBVIOUS
    <3> QED
      BY <2>1, <3>1, <1>1, <1>4 DEF DownStream, OfWrite
  <2>4. coming = s_sent'[Self] /\ s_sent'[Self] \in Seq(SrvN!Messages)
    BY <2>2, <2>3, AppendIsConcat, AppendProperties
  <2>5. coming' = s_sent'[Self] \o OfWrite(down', Head(s_write_messages'[Self]))
    <3>1. OfWrite(down', Head(s_write_messages'[Self])) = <<>>
      BY <1>2 DEF OfWrite
    <3> QED
      BY <2>4, <3>1, <1>2, ConcatEmptySeq
  <2>6. /\ ~ (down' > 0)
        /\ DownExpected' # "none" =>
             Read(shown', DownExpected') + Len(wire') = 2 * Len(coming') + (down' % 2)
    <3>1. ~ (0 > 0) /\ 0 % 2 = 0
      OBVIOUS
    <3> QED
      BY <2>3, <3>1, <1>2, <1>3
  <2>7. /\ shown' <= Len(coming')
        /\ DownExpected' # "none" =>
             /\ Framed(DownExpected', wire')
             /\ Read(shown', DownExpected') + Len(wire') <= 2 * Len(coming') + 1
        /\ Len(coming') > 0 =>
             /\ s_first'[Self] # 0 /\ s_first'[Self] + Len(coming') - 1 <= Len(s_log')
             /\ coming' = SubSeq(s_log', s_first'[Self], s_first'[Self] + Len(coming') - 1)
    BY <1>1, <1>2, <1>3 DEF DownStream
  <2> QED
    BY <2>5, <2>6, <2>7 DEF DownStream
<1>5. CASE s_peer[Self] = "gone"
  BY <1>1, <1>2, <1>3, <1>5, DownStill DEF LogGrows
<1> QED
  BY <1>4, <1>5

(* The session's stream stays as it should be.                             *)
LEMMA DownKept ==
  ASSUME SystemIInv, [SystemNext]_systemVars, host = "ours"
  PROVE  DownStream'
<1>1. DownStream
  BY DEF SystemIInv
<1>2. /\ Self \in Sessions /\ s_first \in [Sessions -> Nat] /\ s_peer \in [Sessions -> {"away", "there", "gone"}]
      /\ Len(coming) \in Nat /\ down \in 0 .. 2
      /\ reading # "none" => connect = "connected"
  BY DownTypes
<1>3. ASSUME UNCHANGED <<server_, down, coming, shown, wire>>, DownExpected' \in {DownExpected, "none"}
      PROVE  DownStream'
  <2>1. LogGrows /\ SameWrite /\ UNCHANGED <<s_first, s_peer, s_sent>>
    BY <1>3 DEF server_, LogGrows, SameWrite
  <2> QED
    BY <1>1, <1>3, <2>1, DownStill
<1>4. ASSUME UNCHANGED <<vars, down, coming, shown>> PROVE UNCHANGED <<wire, DownExpected>>
  BY <1>4 DEF vars, DownExpected
<1>5. CASE Alone(ClientElse)
  <2>1. UNCHANGED <<server_, down, coming, shown, wire>>
    BY <1>5 DEF Alone, link, ClientElse, GetLine, EndOfInput, Join, NextEndpoint, ConnectFails,
       PostedHandler, PostedLine, PostedClose, ReadFails, RunReturns, environment
  <2>2. DownExpected' \in {DownExpected, "none"}
    <3>1. \/ UNCHANGED <<connect, reading>>
          \/ connect' = connect /\ reading # "none" /\ reading' = "none"
          \/ connect' = "failed" /\ connect = "pending" /\ reading' = reading
      BY <1>5 DEF Alone, ClientElse, GetLine, EndOfInput, Join, NextEndpoint, ConnectFails,
         PostedHandler, PostedLine, PostedClose, ReadFails, RunReturns, connecting, readSide
    <3>2. connect = "pending" => reading = "none"
      BY <1>2
    <3> QED
      BY <3>1, <3>2, <1>2 DEF DownExpected
  <2> QED
    BY <1>3, <2>1, <2>2
<1>6. CASE Connects
  <2>1. /\ UNCHANGED <<down, coming, shown, wire, s_first, s_sent, s_log, s_writing, s_write_messages>>
        /\ connect = "pending" /\ connect' = "connected" /\ reading' = "header"
        /\ s_peer[Self] = "away"
    BY <1>6 DEF Connects, Connected, StartRead, link, environment, Srv!Connect, Srv!history
  <2>2. DownExpected' = DownExpected
    BY <2>1 DEF DownExpected
  <2>3. LogGrows /\ SameWrite
    BY <2>1 DEF LogGrows, SameWrite
  <2> QED
    BY <1>1, <2>1, <2>2, <2>3, DownStill
<1>7. CASE ClientWrites
  <2>1. UNCHANGED <<server_, down, coming, shown, wire, connect, reading>>
    BY <1>7 DEF ClientWrites, WriteDone, WriteFails, connecting, readSide, environment
  <2>2. DownExpected' = DownExpected
    BY <2>1 DEF DownExpected
  <2> QED
    BY <1>3, <2>1, <2>2
<1>8. CASE ServerAlone
  <2>1. UNCHANGED <<vars, down, coming, shown>> /\ UNCHANGED <<wire, DownExpected>>
    BY <1>4, <1>8 DEF ServerAlone, link
  <2>2. CASE OthersSpeak
    <3>1. /\ s_peer'[Self] = s_peer[Self] /\ s_first'[Self] = s_first[Self] /\ s_sent'[Self] = s_sent[Self]
          /\ SameWrite /\ LogGrows
      BY <2>2, OthersLeaveSelf
    <3> QED
      BY <1>1, <2>1, <3>1, DownStill
  <2>3. CASE Srv!AcceptHandler(Self)
    <3>1. /\ Self \notin s_accepted /\ UNCHANGED <<s_log, s_sent>>
          /\ s_peer'[Self] = s_peer[Self] \/ s_peer'[Self] = "gone"
      BY <2>3, <1>2 DEF Srv!AcceptHandler, Srv!Accept, Srv!AcceptFails, Srv!Join, Srv!client, Srv!history
    <3>2. s_first[Self] = 0 /\ s_writing[Self] = 0
      BY <3>1, <1>2 DEF SystemIInv, SrvN!IInv, SrvN!NeverJoined
    <3>3. ~ (Len(coming) > 0)
      BY <3>2, <1>1 DEF DownStream
    <3>4. LogGrows /\ SameWrite
      BY <3>1, <3>2 DEF LogGrows, SameWrite
    <3> QED
      BY <1>1, <2>1, <3>1, <3>3, <3>4, DownStill
  <2>4. CASE Srv!ReadHandler(Self)
    <3>1. UNCHANGED <<s_first, s_sent, s_peer>>
      BY <2>4 DEF Srv!ReadHandler, Srv!ReadHeader, Srv!ReadBody, Srv!ReadFails, Srv!client
    <3>2. SameWrite /\ LogGrows
      <4>1. CASE Srv!ReadBody(Self)
        BY <1>2, <4>1, BodyDelivered
      <4>2. CASE Srv!ReadHeader(Self) \/ Srv!ReadFails(Self)
        BY <4>2 DEF Srv!ReadHeader, Srv!ReadFails, SameWrite, LogGrows
      <4> QED
        BY <2>4, <4>1, <4>2 DEF Srv!ReadHandler
    <3> QED
      BY <1>1, <2>1, <3>1, <3>2, DownStill
  <2> QED
    BY <1>8, <2>2, <2>3, <2>4 DEF ServerAlone, ServerReads
<1>9. CASE CarryUp
  <2>1. UNCHANGED <<vars, down, coming, shown, s_first, s_peer, s_sent, s_log, s_writing, s_write_messages>>
    BY <1>9 DEF CarryUp
  <2>2. LogGrows /\ SameWrite /\ UNCHANGED <<wire, DownExpected>>
    BY <1>4, <2>1 DEF LogGrows, SameWrite
  <2> QED
    BY <1>1, <2>1, <2>2, DownStill
<1>10. CASE ClientGone \/ Break
  <2>1. /\ UNCHANGED <<down, coming, shown, wire, connect, reading, s_first, s_sent, s_log>>
        /\ s_peer'[Self] = "gone"
    BY <1>2, <1>10 DEF ClientGone, Break, Gone, vars, link, connecting, readSide, Srv!HangUp, Srv!history
  <2>2. LogGrows /\ DownExpected' = DownExpected
    BY <2>1 DEF LogGrows, DownExpected
  <2> QED
    BY <1>1, <2>1, <2>2, DownStill
<1>11. CASE SessionGone
  <2>1. UNCHANGED <<server_, down, coming, shown, wire, connect, reading>>
    BY <1>11 DEF SessionGone, Gone, link, connecting, readSide
  <2>2. DownExpected' = DownExpected
    BY <2>1 DEF DownExpected
  <2> QED
    BY <1>3, <2>1, <2>2
<1>12. CASE UNCHANGED systemVars
  <2>1. UNCHANGED <<vars, server_, down, coming, shown>>
    BY <1>12 DEF systemVars, link
  <2> QED
    BY <1>3, <1>4, <2>1
<1>13. ~ (host = "stranger" /\ Alone(Put \/ Gone))
  OBVIOUS
<1> QED
  BY <1>5, <1>6, <1>7, <1>8, <1>9, <1>10, <1>11, <1>12, <1>13, DownReads, DownWritten, DownCarries DEF SystemNext

--------------------------------------------------------------------------------
(* The whole.                                                              *)

(* The server's invariant holds at the start, whatever Self will send.     *)
LEMMA ServerInit == Srv!Init /\ s_put = [s \in Sessions |-> 0] => SrvN!IInv
<1> SUFFICES ASSUME Srv!Init, s_put = [s \in Sessions |-> 0] PROVE SrvN!IInv
  OBVIOUS
<1> DEFINE p == [s_put EXCEPT ![Self] = MostPieces]
<1>1. p \in [Sessions -> 0 .. MostPieces]
  <2>1. 0 \in 0 .. MostPieces /\ MostPieces \in 0 .. MostPieces
    BY MostPiecesType
  <2> QED
    BY <2>1, MostPiecesType
<1>2. kMaxRecentMsgs \in Nat \ {0} /\ MostPieces \in Nat
  BY MostPiecesType
<1>3. SrvN!TypeOK
  <2>1. /\ <<>> \in Seq(SrvN!Messages) /\ <<>> \in Seq({"header", "badheader", "body"})
        /\ Len(<<>>) = 0 /\ 0 <= kMaxRecentMsgs /\ 0 \in 0 .. MostPieces
    BY <1>2
  <2> QED
    BY <1>1, <2>1 DEF Srv!Init, SrvN!TypeOK
<1>4. SrvN!PutBound
  <2>1. \A s \in Sessions : s_heard[s] + Len(s_wire[s]) = 0 /\ p[s] \in 0 .. MostPieces
    BY <1>1 DEF Srv!Init
  <2>2. \A x \in 0 .. MostPieces : 0 <= x
    BY <1>2
  <2> QED
    BY <2>1, <2>2 DEF SrvN!PutBound
<1>5. SrvN!WritesWhileQueued /\ SrvN!ParticipantsAreRead /\ SrvN!NeverJoined /\ SrvN!Shares
  BY DEF Srv!Init, SrvN!WritesWhileQueued, SrvN!ParticipantsAreRead, SrvN!NeverJoined, SrvN!Shares
<1>6. SrvN!RecentIsEnd
  <2>1. /\ s_recent = <<>> /\ s_log = <<>> /\ Len(<<>>) = 0 /\ ~ (0 > kMaxRecentMsgs)
        /\ SrvN!OldestRecent = 1
    BY <1>2 DEF Srv!Init, SrvN!OldestRecent
  <2>2. SubSeq(s_log, 1, 0) = <<>>
    BY SubSeqEmpty
  <2> QED
    BY <2>1, <2>2 DEF SrvN!RecentIsEnd
<1> QED
  BY <1>3, <1>4, <1>5, <1>6 DEF SrvN!IInv

(* The invariant holds at the start.                                       *)
LEMMA SystemInitIInv == SystemInit => SystemIInv
<1> SUFFICES ASSUME SystemInit PROVE SystemIInv
  OBVIOUS
<1>1. Init /\ Srv!Init /\ host \in {"ours", "stranger"} /\ Self \in Sessions /\ Pieces \in Nat /\ WireSize \in Nat
  BY MostPiecesType DEF SystemInit
<1>2. ClientIInv
  BY <1>1, ClientInit
<1>3. SrvN!IInv
  BY <1>1, ServerInit DEF Srv!Init
<1>4. /\ up = 0 /\ down = 0 /\ shown = 0 /\ carried = <<>> /\ coming = <<>>
      /\ s_wire[Self] = <<>> /\ s_heard[Self] = 0 /\ s_accepted = {} /\ s_peer[Self] = "away"
      /\ s_writing[Self] = 0 /\ s_sent[Self] = <<>> /\ s_put = [s \in Sessions |-> 0]
      /\ wire = <<>> /\ written = <<>> /\ connect = "pending"
  BY <1>1 DEF SystemInit, Init, Srv!Init
<1>5. Len(<<>>) = 0 /\ 0 % 2 = 0 /\ <<>> \o <<>> = <<>>
  OBVIOUS
<1>6. LinkTypeOK
  <2>1. <<>> \in Seq(1 .. Lines) /\ <<>> \in Seq(SrvN!Messages) /\ 0 \in 0 .. Pieces
    BY <1>1
  <2> QED
    BY <1>1, <1>4, <1>5, <2>1 DEF LinkTypeOK
<1>7. StrangerAlone
  BY <1>4 DEF StrangerAlone
<1>8. /\ UpExpected = "header" /\ DownExpected = "header"
      /\ Framed("header", <<>>) /\ Read(0, "header") = 0
      /\ \A m : OfWrite(0, m) = <<>>
  BY <1>4, <1>5 DEF UpExpected, DownExpected, Framed, Read, OfWrite
<1>9. UpStream
  <2>1. carried = [k \in 1 .. Len(carried) |-> k]
    <3>1. Len(Upto(0)) = 0 /\ Upto(0) \in Seq(Nat)
      BY UptoGrows
    <3>2. Upto(0) = <<>>
      BY <3>1, EmptySeq
    <3> QED
      BY <3>2, <1>4, <1>5 DEF Upto
  <2> QED
    BY <2>1, <1>4, <1>5, <1>8 DEF UpStream
<1>10. DownStream
  BY <1>4, <1>5, <1>8 DEF DownStream
<1> QED
  BY <1>2, <1>3, <1>6, <1>7, <1>9, <1>10 DEF SystemIInv

(* Every step keeps the invariant.                                         *)
LEMMA SystemNextIInv == SystemIInv /\ [SystemNext]_systemVars => SystemIInv'
<1> SUFFICES ASSUME SystemIInv, [SystemNext]_systemVars PROVE SystemIInv'
  OBVIOUS
<1>1. ClientIInv' /\ SrvN!IInv'
  BY ClientKept, ServerKept
<1>2. LinkTypeOK' /\ StrangerAlone'
  BY LinkTypesKept, StrangerKept
<1>3. (host = "ours" => UpStream /\ DownStream)'
  BY SameHost, UpKept, DownKept
<1> QED
  BY <1>1, <1>2, <1>3 DEF SystemIInv

(* Every reachable state satisfies the inductive invariant.                *)
LEMMA SystemInvariance == SystemSpec => []SystemIInv
<1>1. SystemSpec => SystemInit /\ [][SystemNext]_systemVars
  BY PTL DEF SystemSpec
<1> QED
  BY <1>1, SystemInitIInv, SystemNextIInv, PTL

--------------------------------------------------------------------------------

(* The client's types, at most one write outstanding and one whenever      *)
(* there are lines to write on an open socket, and a read outstanding as   *)
(* long as the connection stands.                                          *)
THEOREM ClientConsistentHolds == SystemSpec => []Consistent
<1>1. SystemIInv => Consistent
  BY DEF SystemIInv, ClientIInv, Consistent
<1> QED
  BY <1>1, SystemInvariance, PTL

(* The lines typed are, in order, those written, those queued and those    *)
(* posted, and the close is posted behind them.                            *)
THEOREM LinesInOrderHolds == SystemSpec => []LinesInOrder
<1>1. SystemIInv => LinesInOrder
  BY DEF SystemIInv, ClientIInv
<1> QED
  BY <1>1, SystemInvariance, PTL

(* An end that waits for a header finds one next, and one that waits for a *)
(* body finds that.                                                        *)
THEOREM EndsAgreeHolds == SystemSpec => []EndsAgree
<1>1. SystemIInv => EndsAgree
  <2> SUFFICES ASSUME SystemIInv, host = "ours"
               PROVE  /\ reading # "none" => Framed(reading, wire)
                      /\ s_reading[Self] # "none" => Framed(s_reading[Self], s_wire[Self])
    BY DEF EndsAgree
  <2>1. UpStream /\ DownStream
    BY DEF SystemIInv
  <2>2. reading # "none" => DownExpected = reading
    BY DownTypes
  <2>3. s_reading[Self] # "none" => UpExpected = s_reading[Self]
    BY UpTypes
  <2> QED
    BY <2>1, <2>2, <2>3 DEF UpStream, DownStream
<1> QED
  BY <1>1, SystemInvariance, PTL

(* The lines are said in the room in the order of their typing, and what   *)
(* comes back is the conversation from the client's share onwards.         *)
THEOREM ConversationKeptHolds == SystemSpec => []ConversationKept
<1>1. SystemIInv => ConversationKept
  BY DEF SystemIInv, UpStream, DownStream, ConversationKept
<1> QED
  BY <1>1, SystemInvariance, PTL

(* Also with the real client at one of its connections the server          *)
(* implements the abstract room.                                           *)
THEOREM ServerKeepsRoom == SystemSpec => SrvN!RoomSpec
<1>1. SystemInit => SrvN!Room!Init
  BY DEF SystemInit, Srv!Init, SrvN!Room!Init
<1>2. SystemIInv /\ [SystemNext]_systemVars => [SrvN!Room!Next]_(SrvN!Room!vars)
  <2> SUFFICES ASSUME SystemIInv, [SystemNext]_systemVars PROVE [SrvN!Room!Next]_(SrvN!Room!vars)
    OBVIOUS
  <2>1. SrvN!IInv /\ MostPieces \in Nat /\ kMaxRecentMsgs \in Nat \ {0}
    BY MostPiecesType DEF SystemIInv
  <2>2. CASE CarryUp
    BY <2>2 DEF CarryUp, SrvN!Room!vars
  <2>3. CASE ~ CarryUp
    BY <2>1, <2>3, ServerSteps, SrvN!StepRefines
  <2> QED
    BY <2>2, <2>3
<1>3. SystemSpec => SystemInit /\ [][SystemNext]_systemVars
  BY PTL DEF SystemSpec
<1> QED
  BY <1>1, <1>2, <1>3, SystemInvariance, PTL DEF SrvN!RoomSpec, SrvN!Room!Spec

--------------------------------------------------------------------------------
(* Headers: what atoi reads, whatever arrives, and that it reads back what *)
(* sprintf has written.                                                    *)

(* How far atoi can have got.                                              *)
States == [at : {"blanks", "digits", "end"}, negative : BOOLEAN, number : Nat]

(* A digit has its value.                                                  *)
LEMMA DigitValue ==
  ASSUME NEW d \in 0 .. 9
  PROVE  Digit[d + 1] \in Digits /\ Value(Digit[d + 1]) = d
<1>1. \A e \in 0 .. 9 : Digit[e + 1] = Digit[d + 1] => e = d
  BY DEF Digit
<1>2. Digit[d + 1] \in Digits
  BY DEF Digit, Digits
<1> QED
  BY <1>1, <1>2 DEF Value

(* A character that is a digit has one.                                    *)
LEMMA ValueType ==
  ASSUME NEW char \in Digits
  PROVE  Value(char) \in 0 .. 9
<1>1. \E d \in 0 .. 9 : Digit[d + 1] = char
  <2>1. Digit[0 + 1] = "0" /\ Digit[1 + 1] = "1" /\ Digit[2 + 1] = "2" /\ Digit[3 + 1] = "3" /\ Digit[4 + 1] = "4"
        /\ Digit[5 + 1] = "5" /\ Digit[6 + 1] = "6" /\ Digit[7 + 1] = "7" /\ Digit[8 + 1] = "8" /\ Digit[9 + 1] = "9"
    BY DEF Digit
  <2>2. 0 \in 0 .. 9 /\ 1 \in 0 .. 9 /\ 2 \in 0 .. 9 /\ 3 \in 0 .. 9 /\ 4 \in 0 .. 9
        /\ 5 \in 0 .. 9 /\ 6 \in 0 .. 9 /\ 7 \in 0 .. 9 /\ 8 \in 0 .. 9 /\ 9 \in 0 .. 9
    OBVIOUS
  <2> QED
    BY <2>1, <2>2 DEF Digits
<1> QED
  BY <1>1 DEF Value

(* A character more makes a number of what was one.                        *)
LEMMA ScanType ==
  ASSUME NEW state \in States, NEW char
  PROVE  Scan(state, char) \in States
<1>1. CASE char \in Digits
  <2>1. state.number \in Nat /\ Value(char) \in Nat
    BY <1>1, ValueType DEF States
  <2>2. 10 * state.number + Value(char) \in Nat
    BY <2>1
  <2> QED
    BY <1>1, <2>2 DEF Scan, States
<1>2. CASE char \notin Digits
  BY <1>2 DEF Scan, States
<1> QED
  BY <1>1, <1>2

(* Whatever arrives, the length decoded fits.                              *)
LEMMA AnyHeaderFitsHolds == AnyHeaderFits
<1> SUFFICES ASSUME NEW header \in Headers(Arriving)
             PROVE  decodeHeader(header).body_length_ \in 0 .. kMaxBodyLength
  BY DEF AnyHeaderFits
<1>1. Begin \in States
  BY DEF Begin, States
<1>2. Scan(Scan(Scan(Scan(Begin, header[1]), header[2]), header[3]), header[4]) \in States
  BY <1>1, ScanType
<1>3. Atoi(header) \in Int
  BY <1>2 DEF Atoi, States
<1>4. \A n \in Int, w \in Nat \ {0} : n % w \in Nat
  OBVIOUS
<1>5. Word \in Nat \ {0} /\ kMaxBodyLength \in Nat
  BY ChatMessageAssumption
<1>6. Unsigned(Atoi(header)) \in Nat
  BY <1>3, <1>4, <1>5 DEF Unsigned
<1> QED
  BY <1>5, <1>6 DEF decodeHeader

(* What atoi has got when it has read the digits of n.                      *)
Seen(n) == [at |-> "digits", negative |-> FALSE, number |-> n]

(* A digit is read after what was.                                         *)
LEMMA ScanDigit ==
  ASSUME NEW n \in Nat, NEW d \in 0 .. 9
  PROVE  Scan(Seen(n), Digit[d + 1]) = Seen(10 * n + d)
<1>1. Digit[d + 1] \in Digits /\ Value(Digit[d + 1]) = d
  BY DigitValue
<1>2. Digit[d + 1] # " " /\ Digit[d + 1] # "-"
  BY <1>1 DEF Digits
<1>3. \A c \in Digits : c # " " /\ c # "-" => Scan(Seen(n), c) = Seen(10 * n + Value(c))
  BY DEF Scan, Seen
<1> QED
  BY <1>1, <1>2, <1>3

(* The first digit begins the number.                                      *)
LEMMA ScanFirst ==
  ASSUME NEW d \in 0 .. 9
  PROVE  Scan(Begin, Digit[d + 1]) = Seen(d)
<1>1. Digit[d + 1] \in Digits /\ Value(Digit[d + 1]) = d
  BY DigitValue
<1>2. Digit[d + 1] # " " /\ Digit[d + 1] # "-"
  BY <1>1 DEF Digits
<1>3. \A c \in Digits : c # " " /\ c # "-" => Scan(Begin, c) = Seen(10 * 0 + Value(c))
  BY DEF Scan, Begin, Seen
<1>4. 10 * 0 + d = d
  OBVIOUS
<1> QED
  BY <1>1, <1>2, <1>3, <1>4

(* A blank is passed over.                                                 *)
LEMMA ScanBlank == Scan(Begin, " ") = Begin
<1>1. Begin.at = "blanks"
  BY DEF Begin
<1> QED
  BY <1>1 DEF Scan

(* Where atoi is when it has read the blanks and digits that stand for n;  *)
(* the character that comes last of those, d being the last digit of n.    *)
Have(n) == IF n = 0 THEN Begin ELSE Seen(n)
Last(n, d) == IF n = 0 THEN " " ELSE Digit[d + 1]

(* One character more.                                                     *)
LEMMA ScanLast ==
  ASSUME NEW m \in Nat, NEW d \in 0 .. 9
  PROVE  Scan(Have(m), Last(10 * m + d, d)) = Have(10 * m + d)
<1>1. CASE m = 0 /\ d = 0
  <2>1. 10 * m + d = 0
    BY <1>1
  <2> QED
    BY <1>1, <2>1, ScanBlank DEF Have, Last
<1>2. CASE m = 0 /\ d # 0
  <2>1. 10 * m + d = d
    BY <1>2
  <2> QED
    BY <1>2, <2>1, ScanFirst DEF Have, Last
<1>3. CASE m # 0
  <2>1. 10 * m + d # 0
    BY <1>3
  <2> QED
    BY <1>3, <2>1, ScanDigit DEF Have, Last
<1> QED
  BY <1>1, <1>2, <1>3

(* The last of all is a digit even when the number is zero.                *)
LEMMA ScanUnit ==
  ASSUME NEW m \in Nat, NEW d \in 0 .. 9
  PROVE  Scan(Have(m), Digit[d + 1]) = Seen(10 * m + d)
<1>1. CASE m = 0
  <2>1. 10 * m + d = d
    BY <1>1
  <2> QED
    BY <1>1, <2>1, ScanFirst DEF Have
<1>2. CASE m # 0
  BY <1>2, ScanDigit DEF Have
<1> QED
  BY <1>1, <1>2

(* The characters of a header that stands for n, in its digits.            *)
Written(h, n, p, q, r, a, b, c, d) ==
  /\ h[1] = Last(p, a) /\ h[2] = Last(q, b) /\ h[3] = Last(r, c) /\ h[4] = Digit[d + 1]
  /\ p \in Nat /\ q \in Nat /\ r \in Nat
  /\ a \in 0 .. 9 /\ b \in 0 .. 9 /\ c \in 0 .. 9 /\ d \in 0 .. 9
  /\ p = a /\ q = 10 * p + b /\ r = 10 * q + c /\ n = 10 * r + d

(* Such a header is read from end to end and gives n.                      *)
LEMMA ScanWritten ==
  ASSUME NEW h, NEW n, NEW p, NEW q, NEW r, NEW a, NEW b, NEW c, NEW d,
         Written(h, n, p, q, r, a, b, c, d)
  PROVE  Scan(Scan(Scan(Scan(Begin, h[1]), h[2]), h[3]), h[4]) = Seen(n)
<1>1. a \in 0 .. 9 /\ p = a
  BY DEF Written
<1>2. Scan(Begin, h[1]) = Have(p)
  <2>1. Have(0) = Begin
    BY DEF Have
  <2>2. 10 * 0 + a = a
    BY <1>1
  <2>3. Scan(Have(0), Last(a, a)) = Have(a)
    BY <1>1, <2>2, ScanLast
  <2> QED
    BY <1>1, <2>1, <2>3 DEF Written
<1>3. Scan(Have(p), h[2]) = Have(q)
  <2>1. p \in Nat /\ b \in 0 .. 9 /\ h[2] = Last(q, b) /\ q = 10 * p + b
    BY DEF Written
  <2> QED
    BY <2>1, ScanLast
<1>4. Scan(Have(q), h[3]) = Have(r)
  <2>1. q \in Nat /\ c \in 0 .. 9 /\ h[3] = Last(r, c) /\ r = 10 * q + c
    BY DEF Written
  <2> QED
    BY <2>1, ScanLast
<1>5. Scan(Have(r), h[4]) = Seen(n)
  <2>1. r \in Nat /\ d \in 0 .. 9 /\ h[4] = Digit[d + 1] /\ n = 10 * r + d
    BY DEF Written
  <2> QED
    BY <2>1, ScanUnit
<1> QED
  BY <1>2, <1>3, <1>4, <1>5

(* What encodeHeader puts at a place but the last, and there: m is n cut   *)
(* after that place, e the digit there.                                    *)
LEMMA EncodedAt ==
  ASSUME NEW n, NEW i \in 1 .. kHeaderLength, NEW m, NEW e,
         i < kHeaderLength, n \div Place[i] = m, m % 10 = e, n < Place[i] <=> m = 0
  PROVE  encodeHeader(n)[i] = Last(m, e)
BY Zenon DEF encodeHeader, Last

(* The last place.                                                         *)
LEMMA EncodedLast ==
  ASSUME NEW n, NEW i \in 1 .. kHeaderLength, NEW m, NEW e,
         ~ (i < kHeaderLength), n \div Place[i] = m, m % 10 = e
  PROVE  encodeHeader(n)[i] = Digit[e + 1]
BY Zenon DEF encodeHeader

(* Cutting a number after a digit.                                         *)
LEMMA Cut ==
  ASSUME NEW n \in Nat, n < 10000
  PROVE  /\ n \div 1000 \in 0 .. 9
         /\ n \div 100 \in Nat /\ n \div 100 = 10 * (n \div 1000) + ((n \div 100) % 10)
         /\ n \div 10 \in Nat /\ n \div 10 = 10 * (n \div 100) + ((n \div 10) % 10)
         /\ n = 10 * (n \div 10) + (n % 10)
<1>1. \A x \in Nat : x = 10 * (x \div 10) + (x % 10) /\ x \div 10 \in Nat
  OBVIOUS
<1>2. \A x \in Nat : x \div 100 = (x \div 10) \div 10
  OBVIOUS
<1>3. \A x \in Nat : x \div 1000 = (x \div 100) \div 10
  OBVIOUS
<1>4. n \in Nat
  OBVIOUS
<1>5. n \div 1000 \in 0 .. 9
  OBVIOUS
<1>6. n \div 10 \in Nat /\ n \div 100 \in Nat
  BY <1>1, <1>2, <1>4
<1>7. n \div 100 = 10 * (n \div 1000) + ((n \div 100) % 10)
  BY <1>1, <1>3, <1>4, <1>6
<1>8. n \div 10 = 10 * (n \div 100) + ((n \div 10) % 10)
  BY <1>1, <1>2, <1>4, <1>6
<1> QED
  BY <1>1, <1>4, <1>5, <1>6, <1>7, <1>8

(* encodeHeader writes such a header.                                      *)
LEMMA HeaderWritten ==
  ASSUME NEW n \in Nat, n < 10000
  PROVE  \E p, q, r, a, b, c, d :
           Written(encodeHeader(n), n, p, q, r, a, b, c, d)
<1> DEFINE p == n \div 1000
           q == n \div 100
           r == n \div 10
           b == q % 10
           c == r % 10
           d == n % 10
<1>1. n \in Nat
  OBVIOUS
<1>2. p \in 0 .. 9 /\ p \in Nat /\ q \in Nat /\ r \in Nat
  BY Cut
<1>3. b \in 0 .. 9 /\ c \in 0 .. 9 /\ d \in 0 .. 9
  <2>1. \A x \in Nat : x % 10 \in 0 .. 9
    OBVIOUS
  <2> QED
    BY <1>1, <1>2, <2>1
<1>4. p % 10 = p
  <2>1. \A x \in 0 .. 9 : x % 10 = x
    OBVIOUS
  <2> QED
    BY <1>2, <2>1
<1>5. (n < 1000 <=> p = 0) /\ (n < 100 <=> q = 0) /\ (n < 10 <=> r = 0)
  OBVIOUS
<1>6. n \div 1 = n
  OBVIOUS
<1>7. /\ Place[1] = 1000 /\ Place[2] = 100 /\ Place[3] = 10 /\ Place[4] = 1
  BY DEF Place
<1>8. q = 10 * p + b /\ r = 10 * q + c /\ n = 10 * r + d
  BY Cut
<1>9. /\ n \div Place[1] = p /\ (n < Place[1] <=> p = 0)
      /\ n \div Place[2] = q /\ (n < Place[2] <=> q = 0)
      /\ n \div Place[3] = r /\ (n < Place[3] <=> r = 0)
      /\ n \div Place[4] = n
  BY <1>5, <1>6, <1>7
<1>10. /\ 1 \in 1 .. kHeaderLength /\ 2 \in 1 .. kHeaderLength /\ 3 \in 1 .. kHeaderLength /\ 4 \in 1 .. kHeaderLength
       /\ 1 < kHeaderLength /\ 2 < kHeaderLength /\ 3 < kHeaderLength /\ ~ (4 < kHeaderLength)
  BY DEF kHeaderLength
<1>11. q % 10 = b /\ r % 10 = c /\ n % 10 = d
  OBVIOUS
<1> HIDE DEF p, q, r, b, c, d
<1>12. /\ encodeHeader(n)[1] = Last(p, p) /\ encodeHeader(n)[2] = Last(q, b)
       /\ encodeHeader(n)[3] = Last(r, c) /\ encodeHeader(n)[4] = Digit[d + 1]
  <2>1. encodeHeader(n)[1] = Last(p, p)
    BY <1>4, <1>9, <1>10, EncodedAt
  <2>2. encodeHeader(n)[2] = Last(q, b)
    BY <1>9, <1>10, <1>11, EncodedAt
  <2>3. encodeHeader(n)[3] = Last(r, c)
    BY <1>9, <1>10, <1>11, EncodedAt
  <2>4. encodeHeader(n)[4] = Digit[d + 1]
    BY <1>9, <1>10, <1>11, EncodedLast
  <2> QED
    BY <2>1, <2>2, <2>3, <2>4
<1>13. Written(encodeHeader(n), n, p, q, r, p, b, c, d)
  BY <1>2, <1>3, <1>8, <1>12 DEF Written
<1> QED
  BY <1>13

(* A number of at most four digits is read back.                           *)
LEMMA ReadBack ==
  ASSUME NEW n \in Nat, n < 10000
  PROVE  Atoi(encodeHeader(n)) = n
<1> DEFINE h == encodeHeader(n)
<1>1. Scan(Scan(Scan(Scan(Begin, h[1]), h[2]), h[3]), h[4]) = Seen(n)
  <2> HIDE DEF h
  <2>1. PICK p, q, r, a, b, c, d :
          Written(h, n, p, q, r, a, b, c, d)
    BY HeaderWritten DEF h
  <2> QED
    BY <2>1, ScanWritten
<1>2. Seen(n).negative = FALSE /\ Seen(n).number = n
  BY DEF Seen
<1> QED
  BY <1>1, <1>2 DEF Atoi

(* A length the buffer holds is the same as an unsigned int.               *)
LEMMA SameUnsigned ==
  ASSUME NEW x \in 0 .. kMaxBodyLength
  PROVE  Unsigned(x) = x
<1>1. \A y, w \in Nat : y < w => y % w = y
  OBVIOUS
<1>2. kMaxBodyLength \in Nat /\ Word \in Nat /\ kMaxBodyLength < Word
  BY ChatMessageAssumption
<1>3. x \in Nat /\ x < Word
  BY <1>2
<1> QED
  BY <1>1, <1>2, <1>3 DEF Unsigned

(* Every length the sender gives comes back.                               *)
LEMMA EveryLengthSurvivesHolds == EveryLengthSurvives
<1>1. kMaxBodyLength \in Nat /\ kMaxBodyLength < 10000
  BY ChatMessageAssumption
<1>2. ASSUME NEW x \in 0 .. kMaxBodyLength
      PROVE  decodeHeader(encodeHeader(x)) = [accepted |-> TRUE, body_length_ |-> x]
  <2>1. x \in Nat /\ x < 10000 /\ ~ (x > kMaxBodyLength)
    BY <1>1
  <2>2. Unsigned(Atoi(encodeHeader(x))) = x
    <3>1. Atoi(encodeHeader(x)) = x
      BY <2>1, ReadBack
    <3> QED
      BY <3>1, SameUnsigned
  <2> QED
    BY <2>1, <2>2 DEF decodeHeader
<1>3. \A n \in LineLengths : updateBodyLength(n) \in 0 .. kMaxBodyLength
  BY <1>1, ChatMessageAssumption DEF updateBodyLength
<1> QED
  BY <1>2, <1>3, Zenon DEF EveryLengthSurvives

(* What a header says is never more than the buffer holds, and what the    *)
(* sender has made of a line's length comes back.                          *)
THEOREM HeaderSafeHolds == SystemSpec => []HeaderSafe
<1>1. HeaderSafe
  BY AnyHeaderFitsHolds, EveryLengthSurvivesHolds DEF HeaderSafe
<1> QED
  BY <1>1, PTL

================================================================================

-------------------------- MODULE DaytimeServersProofs --------------------------
(***************************************************************************)
(* Proofs about DaytimeServers for any clients, any number of datagrams,   *)
(* any sizes of buffer and message and any number of failing accepts.      *)
(***************************************************************************)
EXTENDS DaytimeServers, TLAPS, SequenceTheorems

Answers == [to : Clients, kind : {"intact", "lost", "garbled"}]
Waiting == [to : Clients, kept : BOOLEAN]

Typing ==
  /\ program \in {"udp", "tcp", "both"}
  /\ inbox \in Seq(Clients) /\ taken \in Seq(Clients)
  /\ receiving \in {"waiting", "complete", "failed", "stopped"}
  /\ receiving = "complete" => endpoint_ \in Clients
  /\ sends \in Seq(Waiting) /\ replies \in Seq(Answers)
  /\ conn \in [Clients -> {"none", "open", "writing", "closed"}]
  /\ written \in [Clients -> Nat]

(* Which answers wait is the program's own choice: udp_server_async binds  *)
(* each message to its handler, tcp_udp_server_async none, and             *)
(* tcp_server_async sends no datagram.                                     *)
KeptByUdpOnly ==
  /\ \A i \in DOMAIN sends : sends[i].kept <=> program = "udp"
  /\ program = "tcp" => receiving = "stopped" /\ sends = <<>>

(* The inductive invariant.                                                *)
IInv == Typing /\ KeptByUdpOnly /\ EachAnswered

--------------------------------------------------------------------------------
(* Sequences.                                                              *)

(* A sequence has as many senders as elements, in the same order.          *)
LEMMA SendersType ==
  ASSUME NEW R, \A x \in R : x.to \in Clients, NEW s \in Seq(R)
  PROVE  /\ Senders(s) \in Seq(Clients)
         /\ Len(Senders(s)) = Len(s)
         /\ \A i \in 1 .. Len(s) : Senders(s)[i] = s[i].to
<1>1. /\ Len(s) \in Nat /\ DOMAIN s = 1 .. Len(s)
      /\ \A i \in 1 .. Len(s) : s[i].to \in Clients
  OBVIOUS
<1>2. Senders(s) = [i \in 1 .. Len(s) |-> s[i].to]
  BY <1>1 DEF Senders
<1>3. Senders(s) \in [1 .. Len(s) -> Clients]
  BY <1>1, <1>2
<1> QED
  BY <1>1, <1>2, <1>3

(* The senders of a sequence with an element more.                         *)
LEMMA SendersAppend ==
  ASSUME NEW R, \A x \in R : x.to \in Clients, NEW s \in Seq(R), NEW x \in R
  PROVE  Senders(Append(s, x)) = Append(Senders(s), x.to)
<1>1. Append(s, x) \in Seq(R) /\ Len(Append(s, x)) = Len(s) + 1 /\ Len(s) \in Nat
  OBVIOUS
<1>2. /\ Senders(s) \in Seq(Clients) /\ Len(Senders(s)) = Len(s)
      /\ \A i \in 1 .. Len(s) : Senders(s)[i] = s[i].to
  BY SendersType
<1>3. /\ Senders(Append(s, x)) \in Seq(Clients) /\ Len(Senders(Append(s, x))) = Len(s) + 1
      /\ \A i \in 1 .. Len(s) + 1 : Senders(Append(s, x))[i] = Append(s, x)[i].to
  BY <1>1, SendersType
<1>4. x.to \in Clients
  OBVIOUS
<1>5. /\ Append(Senders(s), x.to) \in Seq(Clients) /\ Len(Append(Senders(s), x.to)) = Len(s) + 1
      /\ \A i \in 1 .. Len(s) : Append(Senders(s), x.to)[i] = s[i].to
      /\ Append(Senders(s), x.to)[Len(s) + 1] = x.to
  BY <1>1, <1>2, <1>4
<1>6. /\ \A i \in 1 .. Len(s) : Append(s, x)[i] = s[i]
      /\ Append(s, x)[Len(s) + 1] = x
  OBVIOUS
<1>7. \A n \in Nat : \A i \in 1 .. n + 1 : i \in 1 .. n \/ i = n + 1
  OBVIOUS
<1>8. \A i \in 1 .. Len(s) + 1 : Senders(Append(s, x))[i] = Append(Senders(s), x.to)[i]
  BY <1>1, <1>3, <1>5, <1>6, <1>7
<1> QED
  BY <1>3, <1>5, <1>8, SeqEqual

(* The first sender, and the senders of the rest.                          *)
LEMMA SendersTail ==
  ASSUME NEW R, \A x \in R : x.to \in Clients, NEW s \in Seq(R), s # <<>>
  PROVE  /\ Senders(s) # <<>> /\ Head(s) \in R /\ Tail(s) \in Seq(R)
         /\ Head(Senders(s)) = Head(s).to
         /\ Senders(Tail(s)) = Tail(Senders(s))
<1>1. /\ Head(s) \in R /\ Tail(s) \in Seq(R) /\ Len(Tail(s)) = Len(s) - 1 /\ Len(s) \in Nat \ {0}
      /\ \A i \in 1 .. Len(s) - 1 : Tail(s)[i] = s[i + 1]
      /\ Head(s) = s[1]
  OBVIOUS
<1>2. /\ Senders(s) \in Seq(Clients) /\ Len(Senders(s)) = Len(s)
      /\ \A i \in 1 .. Len(s) : Senders(s)[i] = s[i].to
  BY SendersType
<1>3. /\ Senders(Tail(s)) \in Seq(Clients) /\ Len(Senders(Tail(s))) = Len(s) - 1
      /\ \A i \in 1 .. Len(s) - 1 : Senders(Tail(s))[i] = Tail(s)[i].to
  BY <1>1, SendersType
<1>4. Senders(s) # <<>>
  BY <1>1, <1>2
<1>5. /\ Tail(Senders(s)) \in Seq(Clients) /\ Len(Tail(Senders(s))) = Len(s) - 1
      /\ \A i \in 1 .. Len(s) - 1 : Tail(Senders(s))[i] = Senders(s)[i + 1]
      /\ Head(Senders(s)) = Senders(s)[1]
  BY <1>1, <1>2, <1>4, SMTT(30)
<1>6. \A n \in Nat \ {0} : 1 \in 1 .. n /\ \A i \in 1 .. n - 1 : i + 1 \in 1 .. n
  OBVIOUS
<1>7. \A i \in 1 .. Len(s) - 1 : Senders(Tail(s))[i] = Tail(Senders(s))[i]
  BY <1>1, <1>2, <1>3, <1>5, <1>6
<1> QED
  BY <1>1, <1>2, <1>3, <1>4, <1>5, <1>6, <1>7, SeqEqual

(* An element that comes in at the end of two sequences.                   *)
LEMMA AddLast ==
  \A r, s, t \in Seq(Clients), e \in Clients :
    r \o s = t => r \o (s \o <<e>>) = Append(t, e)
  BY SMTT(30)

(* One element goes from one sequence to the next.                         *)
LEMMA PassOn ==
  ASSUME NEW X, NEW r \in Seq(X), NEW s \in Seq(X), NEW e \in X
  PROVE  /\ r \o (s \o <<>>) = r \o s
         /\ r \o (<<>> \o <<e>>) = Append(r, e) \o <<>>
  BY SMTT(30)

(* What heads the second sequence may end the first.                       *)
LEMMA PassHead ==
  ASSUME NEW X, NEW r \in Seq(X), NEW s \in Seq(X), NEW c \in Seq(X), s # <<>>
  PROVE  r \o (s \o c) = Append(r, Head(s)) \o (Tail(s) \o c)
  BY SMTT(30)

(* Answers and those that wait have their senders among the clients.       *)
LEMMA SendersOfBoth ==
  /\ \A s \in Seq(Answers) : Senders(s) \in Seq(Clients)
  /\ \A s \in Seq(Waiting) : Senders(s) \in Seq(Clients)
  /\ Senders(<<>>) = <<>>
<1>1. (\A x \in Answers : x.to \in Clients) /\ (\A x \in Waiting : x.to \in Clients)
  BY DEF Answers, Waiting
<1>2. \A s \in Seq(Answers) : Senders(s) \in Seq(Clients)
  BY <1>1, SendersType
<1>3. \A s \in Seq(Waiting) : Senders(s) \in Seq(Clients)
  BY <1>1, SendersType
<1>4. Senders(<<>>) = <<>>
  <2>1. <<>> \in Seq(Waiting) /\ Len(<<>>) = 0
    OBVIOUS
  <2>2. Senders(<<>>) \in Seq(Clients) /\ Len(Senders(<<>>)) = 0
    BY <1>1, <2>1, SendersType
  <2> QED
    BY <2>2
<1> QED
  BY <1>2, <1>3, <1>4

--------------------------------------------------------------------------------

(* The invariant holds at the start.                                       *)
LEMMA InitIInv ==
  ASSUME Init
  PROVE  IInv
<1>1. Typing
  <2>1. <<>> \in Seq(Clients) /\ <<>> \in Seq(Waiting) /\ <<>> \in Seq(Answers)
    OBVIOUS
  <2> QED
    BY <2>1 DEF Init, Typing, Receives
<1>2. KeptByUdpOnly
  BY DEF Init, KeptByUdpOnly, Receives
<1>3. EachAnswered
  <2>1. receiving # "complete" /\ sends = <<>> /\ taken = <<>> /\ replies = <<>>
    BY DEF Init
  <2>2. Owed = <<>>
    BY <2>1, SendersOfBoth DEF Owed
  <2>3. Senders(replies) \o Owed = taken
    BY <2>1, <2>2, SendersOfBoth
  <2>4. \A c \in Clients : conn[c] # "closed"
    BY DEF Init
  <2> QED
    BY <2>1, <2>3, <2>4 DEF EachAnswered
<1> QED
  BY <1>1, <1>2, <1>3 DEF IInv

(* The first statement of handleReceive, async_send_to, settles the        *)
(* datagram in hand: then all that was taken is answered or waits.         *)
LEMMA SendEffect ==
  ASSUME IInv, receiving = "complete", async_send_to(endpoint_, program = "udp")
  PROVE  /\ sends' \in Seq(Waiting) /\ replies' \in Seq(Answers)
         /\ \A i \in DOMAIN sends' : sends'[i].kept <=> program = "udp"
         /\ \A i \in DOMAIN replies' : replies'[i].kind = "garbled" => program = "both"
         /\ Senders(replies') \o Senders(sends') = taken
<1>1. /\ endpoint_ \in Clients /\ sends \in Seq(Waiting) /\ replies \in Seq(Answers)
      /\ Senders(sends) \in Seq(Clients) /\ Senders(replies) \in Seq(Clients)
  BY SendersOfBoth DEF IInv, Typing
<1>2. Senders(replies) \o (Senders(sends) \o <<endpoint_>>) = taken
  BY DEF IInv, EachAnswered, Owed
<1>3. /\ \A i \in DOMAIN sends : sends[i].kept <=> program = "udp"
      /\ \A i \in DOMAIN replies : replies[i].kind = "garbled" => program = "both"
  BY DEF IInv, KeptByUdpOnly, EachAnswered
<1>4. (\A x \in Answers : x.to \in Clients) /\ (\A x \in Waiting : x.to \in Clients)
  BY DEF Answers, Waiting
<1>5. ASSUME NEW kind \in {"intact", "lost"}, sends = <<>>, sends' = sends,
             replies' = Append(replies, [to |-> endpoint_, kind |-> kind])
      PROVE  /\ replies' \in Seq(Answers)
             /\ \A i \in DOMAIN replies' : replies'[i].kind = "garbled" => program = "both"
             /\ Senders(replies') \o Senders(sends') = taken
  <2> DEFINE a == [to |-> endpoint_, kind |-> kind]
  <2>1. a \in Answers /\ a.to = endpoint_ /\ a.kind # "garbled"
    BY <1>1, <1>5 DEF Answers
  <2>2. replies' = Append(replies, a)
    BY <1>5
  <2> HIDE DEF a
  <2>3. replies' \in Seq(Answers) /\ \A i \in DOMAIN replies' : (i \in DOMAIN replies /\ replies'[i] = replies[i]) \/ replies'[i] = a
    BY <1>1, <2>1, <2>2
  <2>4. Senders(replies') = Append(Senders(replies), endpoint_)
    BY <1>1, <1>4, <2>1, <2>2, SendersAppend
  <2>5. Senders(sends) = <<>> /\ Senders(sends') = <<>>
    BY <1>5, SendersOfBoth
  <2>6. Append(Senders(replies), endpoint_) \o <<>> = taken
    BY <1>1, <1>2, <2>5, PassOn
  <2> QED
    BY <1>3, <2>1, <2>3, <2>4, <2>5, <2>6
<1>6. ASSUME sends' = Append(sends, [to |-> endpoint_, kept |-> (program = "udp")]), replies' = replies
      PROVE  /\ sends' \in Seq(Waiting)
             /\ \A i \in DOMAIN sends' : sends'[i].kept <=> program = "udp"
             /\ Senders(replies') \o Senders(sends') = taken
  <2> DEFINE w == [to |-> endpoint_, kept |-> (program = "udp")]
  <2>1. w \in Waiting /\ w.to = endpoint_ /\ (w.kept <=> program = "udp")
    BY <1>1 DEF Waiting
  <2>2. sends' = Append(sends, w)
    BY <1>6
  <2> HIDE DEF w
  <2>3. sends' \in Seq(Waiting) /\ \A i \in DOMAIN sends' : (i \in DOMAIN sends /\ sends'[i] = sends[i]) \/ sends'[i] = w
    BY <1>1, <2>1, <2>2
  <2>4. Senders(sends') = Append(Senders(sends), endpoint_)
    BY <1>1, <1>4, <2>1, <2>2, SendersAppend
  <2>5. Senders(replies) \o Append(Senders(sends), endpoint_) = taken
    <3>1. \A s \in Seq(Clients), e \in Clients : s \o <<e>> = Append(s, e)
      OBVIOUS
    <3> QED
      BY <1>1, <1>2, <3>1
  <2>6. \A i \in DOMAIN sends' : sends'[i].kept <=> program = "udp"
    BY <1>3, <2>1, <2>3
  <2> QED
    BY <1>6, <2>3, <2>4, <2>5, <2>6
<1> QED
  BY <1>1, <1>3, <1>5, <1>6 DEF async_send_to

(* The second, startReceive: whether it waits, fails or has a datagram at  *)
(* once, what was taken is what was settled and what is in hand.           *)
LEMMA ReceiveEffect ==
  ASSUME Typing, startReceive,
         NEW given \in Seq(Answers), NEW waiting \in Seq(Waiting), Senders(given) \o Senders(waiting) = taken
  PROVE  /\ inbox' \in Seq(Clients) /\ taken' \in Seq(Clients)
         /\ receiving' \in {"waiting", "complete", "failed"}
         /\ receiving' = "complete" => endpoint_' \in Clients
         /\ Senders(given) \o (Senders(waiting) \o (IF receiving' = "complete" THEN <<endpoint_'>> ELSE <<>>)) = taken'
<1>1. /\ inbox \in Seq(Clients) /\ taken \in Seq(Clients)
      /\ Senders(given) \in Seq(Clients) /\ Senders(waiting) \in Seq(Clients)
  BY SendersOfBoth DEF Typing
<1>2. CASE TakeDatagram
  <2>1. /\ inbox # <<>> /\ endpoint_' = Head(inbox) /\ taken' = Append(taken, Head(inbox))
        /\ inbox' = Tail(inbox) /\ receiving' = "complete"
    BY <1>2 DEF TakeDatagram
  <2>2. Head(inbox) \in Clients /\ Tail(inbox) \in Seq(Clients)
    BY <1>1, <2>1, HeadTailProperties
  <2>3. taken' \in Seq(Clients)
    BY <1>1, <2>1, <2>2
  <2>4. Senders(given) \o (Senders(waiting) \o <<endpoint_'>>) = Append(taken, endpoint_')
    <3>1. endpoint_' \in Clients
      BY <2>1, <2>2
    <3> QED
      BY <1>1, <2>1, <3>1, AddLast, SMTT(30)
  <2> QED
    BY <2>1, <2>2, <2>3, <2>4
<1>3. CASE receiving' \in {"waiting", "failed"} /\ UNCHANGED <<inbox, endpoint_, taken>>
  BY <1>1, <1>3, PassOn
<1> QED
  BY <1>2, <1>3 DEF startReceive, ReceiveFails

(* handleReceive: both statements, in that order.  Were the receive first, *)
(* the answer could go to the sender of the next datagram.                 *)
LEMMA StephandleReceive ==
  ASSUME IInv, handleReceive
  PROVE  IInv'
<1>1. /\ receiving = "complete" /\ async_send_to(endpoint_, program = "udp") /\ startReceive
      /\ UNCHANGED <<program, conn, written, gone>>
  BY DEF handleReceive, tcpVars
<1>2. /\ sends' \in Seq(Waiting) /\ replies' \in Seq(Answers)
      /\ \A i \in DOMAIN sends' : sends'[i].kept <=> program = "udp"
      /\ \A i \in DOMAIN replies' : replies'[i].kind = "garbled" => program = "both"
      /\ Senders(replies') \o Senders(sends') = taken
  BY <1>1, SendEffect
<1>3. /\ inbox' \in Seq(Clients) /\ taken' \in Seq(Clients)
      /\ receiving' \in {"waiting", "complete", "failed"}
      /\ receiving' = "complete" => endpoint_' \in Clients
      /\ Senders(replies') \o (Senders(sends') \o (IF receiving' = "complete" THEN <<endpoint_'>> ELSE <<>>)) = taken'
  BY <1>1, <1>2, ReceiveEffect DEF IInv
<1>4. Typing'
  BY <1>1, <1>2, <1>3 DEF IInv, Typing
<1>5. KeptByUdpOnly'
  BY <1>1, <1>2 DEF IInv, KeptByUdpOnly
<1>6. EachAnswered'
  <2>1. Senders(replies') \o Owed' = taken'
    BY <1>3 DEF Owed
  <2> QED
    BY <1>1, <1>2, <2>1 DEF IInv, EachAnswered
<1> QED
  BY <1>4, <1>5, <1>6 DEF IInv

(* An outstanding receive ends, with a datagram or with an error.          *)
LEMMA StepReceiveCompletes ==
  ASSUME IInv, ReceiveCompletes
  PROVE  IInv'
<1>1. /\ receiving = "waiting" /\ startReceive
      /\ UNCHANGED <<program, sends, replies, conn, written, gone>>
  BY DEF ReceiveCompletes, startReceive, tcpVars
<1>2. /\ replies \in Seq(Answers) /\ sends \in Seq(Waiting)
      /\ Senders(replies) \in Seq(Clients) /\ Senders(sends) \in Seq(Clients)
  BY SendersOfBoth DEF IInv, Typing
<1>3. Senders(replies) \o Senders(sends) = taken
  <2>1. Senders(replies) \o (Senders(sends) \o <<>>) = taken
    BY <1>1 DEF IInv, EachAnswered, Owed
  <2> QED
    BY <1>2, <2>1, ConcatEmptySeq
<1>4. /\ inbox' \in Seq(Clients) /\ taken' \in Seq(Clients)
      /\ receiving' \in {"waiting", "complete", "failed"}
      /\ receiving' = "complete" => endpoint_' \in Clients
      /\ Senders(replies) \o (Senders(sends) \o (IF receiving' = "complete" THEN <<endpoint_'>> ELSE <<>>)) = taken'
  BY <1>1, <1>2, <1>3, ReceiveEffect DEF IInv
<1>5. Typing'
  BY <1>1, <1>4 DEF IInv, Typing
<1>6. KeptByUdpOnly'
  BY <1>1 DEF IInv, KeptByUdpOnly
<1>7. EachAnswered'
  <2>1. Senders(replies') \o Owed' = taken'
    BY <1>1, <1>4 DEF Owed
  <2> QED
    BY <1>1, <2>1 DEF IInv, EachAnswered
<1> QED
  BY <1>5, <1>6, <1>7 DEF IInv

(* A send that waited passes its receiver on to the answers.               *)
LEMMA StepSendCompletes ==
  ASSUME IInv, SendCompletes
  PROVE  IInv'
<1> DEFINE inHand == IF receiving = "complete" THEN <<endpoint_>> ELSE <<>>
<1>1. /\ sends # <<>> /\ sends' = Tail(sends)
      /\ UNCHANGED <<program, inbox, endpoint_, receiving, taken, conn, written, gone>>
  BY DEF SendCompletes, tcpVars
<1>2. PICK kind \in {"intact", "lost"} \cup (IF Head(sends).kept THEN {} ELSE {"garbled"}) :
        replies' = Append(replies, [to |-> Head(sends).to, kind |-> kind])
  BY DEF SendCompletes
<1>3. /\ sends \in Seq(Waiting) /\ replies \in Seq(Answers) /\ inHand \in Seq(Clients)
      /\ Senders(sends) \in Seq(Clients) /\ Senders(replies) \in Seq(Clients)
  BY SendersOfBoth DEF IInv, Typing
<1>4. (\A x \in Answers : x.to \in Clients) /\ (\A x \in Waiting : x.to \in Clients)
  BY DEF Answers, Waiting
<1>5. /\ Senders(sends) # <<>> /\ Head(sends) \in Waiting /\ Tail(sends) \in Seq(Waiting)
      /\ Head(Senders(sends)) = Head(sends).to /\ Senders(Tail(sends)) = Tail(Senders(sends))
  BY <1>1, <1>3, <1>4, SendersTail
<1> DEFINE a == [to |-> Head(sends).to, kind |-> kind]
<1>6. a \in Answers /\ a.to = Head(sends).to /\ a.kind = kind
  BY <1>4, <1>5 DEF Answers
<1>7. kind = "garbled" => program = "both"
  <2>1. 1 \in DOMAIN sends /\ Head(sends) = sends[1]
    BY <1>1, <1>3
  <2>2. Head(sends).kept <=> program = "udp"
    BY <2>1 DEF IInv, KeptByUdpOnly
  <2>3. program \in {"udp", "both"}
    BY <1>1 DEF IInv, KeptByUdpOnly, Typing
  <2> QED
    BY <1>2, <2>2, <2>3
<1>8. replies' = Append(replies, a)
  BY <1>2
<1> HIDE DEF a
<1>9. /\ replies' \in Seq(Answers)
      /\ \A i \in DOMAIN replies' : (i \in DOMAIN replies /\ replies'[i] = replies[i]) \/ replies'[i] = a
  BY <1>3, <1>6, <1>8
<1>10. Typing'
  BY <1>1, <1>5, <1>9 DEF IInv, Typing
<1>11. KeptByUdpOnly'
  <2>1. \A i \in DOMAIN Tail(sends) : i + 1 \in DOMAIN sends /\ Tail(sends)[i] = sends[i + 1]
    BY <1>1, <1>3
  <2> QED
    BY <1>1, <2>1 DEF IInv, KeptByUdpOnly
<1>12. EachAnswered'
  <2>1. Senders(replies') = Append(Senders(replies), Head(Senders(sends)))
    BY <1>3, <1>4, <1>5, <1>6, <1>8, SendersAppend
  <2>2. Senders(replies) \o (Senders(sends) \o inHand) = taken
    BY DEF IInv, EachAnswered, Owed
  <2>3. Senders(replies') \o (Senders(sends') \o inHand) = taken
    <3> HIDE DEF inHand
    <3>1. Senders(replies) \o (Senders(sends) \o inHand)
            = Append(Senders(replies), Head(Senders(sends))) \o (Tail(Senders(sends)) \o inHand)
      BY <1>3, <1>5, PassHead, SMTT(30)
    <3> QED
      BY <1>1, <1>5, <2>1, <2>2, <3>1
  <2>4. Senders(replies') \o Owed' = taken'
    BY <1>1, <2>3 DEF Owed
  <2>5. \A i \in DOMAIN replies' : replies'[i].kind = "garbled" => program' = "both"
    BY <1>1, <1>6, <1>7, <1>9 DEF IInv, EachAnswered
  <2> QED
    BY <1>1, <2>4, <2>5 DEF IInv, EachAnswered
<1> QED
  BY <1>10, <1>11, <1>12 DEF IInv

(* Whatever else happens to datagrams touches none of this: one arrives,   *)
(* or the handler of a receive that failed starts no other.                *)
LEMMA StepDatagramsElse ==
  ASSUME IInv, handleReceiveError \/ \E c \in Clients : DatagramArrives(c)
  PROVE  IInv'
<1>1. /\ receiving' \in {"waiting", "complete", "failed", "stopped"}
      /\ receiving' = "complete" <=> receiving = "complete"
      /\ program = "tcp" => receiving' = "stopped"
      /\ inbox' \in Seq(Clients)
      /\ UNCHANGED <<program, endpoint_, taken, sends, replies, conn, written, gone>>
  <2>1. inbox \in Seq(Clients) /\ receiving \in {"waiting", "complete", "failed", "stopped"}
        /\ (program = "tcp" => receiving = "stopped")
    BY DEF IInv, Typing, KeptByUdpOnly
  <2>2. CASE handleReceiveError
    BY <2>1, <2>2 DEF handleReceiveError, tcpVars
  <2>3. ASSUME NEW c \in Clients, DatagramArrives(c)
        PROVE  /\ inbox' \in Seq(Clients)
               /\ UNCHANGED <<program, endpoint_, receiving, taken, sends, replies, conn, written, gone>>
    BY <2>1, <2>3 DEF DatagramArrives, tcpVars
  <2> QED
    BY <2>1, <2>2, <2>3
<1>2. Typing'
  BY <1>1 DEF IInv, Typing
<1>3. KeptByUdpOnly'
  BY <1>1 DEF IInv, KeptByUdpOnly
<1>4. EachAnswered'
  BY <1>1 DEF IInv, EachAnswered, Owed
<1> QED
  BY <1>2, <1>3, <1>4 DEF IInv

(* The steps of connections, and the end of run(), leave datagrams alone:  *)
(* what remains to show is that a connection ends with all written or its  *)
(* client gone.                                                            *)
LEMMA StepConnections ==
  ASSUME IInv, UNCHANGED <<program, inbox, endpoint_, receiving, sends, taken, replies>>,
         conn' \in [Clients -> {"none", "open", "writing", "closed"}],
         written' \in [Clients -> Nat],
         \A c \in Clients : conn'[c] = "closed" => written'[c] = Pieces \/ c \in gone'
  PROVE  IInv'
<1>1. Typing' /\ KeptByUdpOnly'
  BY DEF IInv, Typing, KeptByUdpOnly
<1>2. EachAnswered'
  BY DEF IInv, EachAnswered, Owed
<1> QED
  BY <1>1, <1>2 DEF IInv

(* A piece is written, and the last one closes; or the write fails, which  *)
(* takes a client that is gone.                                            *)
LEMMA StepWrite ==
  ASSUME IInv, NEW c \in Clients, Write(c) \/ WriteFails(c)
  PROVE  IInv'
<1>1. /\ conn \in [Clients -> {"none", "open", "writing", "closed"}] /\ written \in [Clients -> Nat]
      /\ \A d \in Clients : conn[d] = "closed" => written[d] = Pieces \/ d \in gone
  BY DEF IInv, Typing, EachAnswered
<1>2. CASE Write(c)
  <2>1. /\ conn[c] = "writing" /\ written' = [written EXCEPT ![c] = written[c] + 1] /\ gone' = gone
        /\ conn' = IF written'[c] = Pieces THEN [conn EXCEPT ![c] = "closed"] ELSE conn
    BY <1>2 DEF Write
  <2>2. /\ written' \in [Clients -> Nat] /\ \A d \in Clients \ {c} : written'[d] = written[d]
        /\ conn' \in [Clients -> {"none", "open", "writing", "closed"}]
        /\ \A d \in Clients \ {c} : conn'[d] = conn[d]
    BY <1>1, <2>1
  <2>3. conn'[c] = "closed" => written'[c] = Pieces
    BY <1>1, <2>1
  <2> QED
    BY <1>1, <1>2, <2>1, <2>2, <2>3, StepConnections DEF Write, udpVars
<1>3. CASE WriteFails(c)
  BY <1>1, <1>3, StepConnections DEF WriteFails, udpVars
<1> QED
  BY <1>2, <1>3

(* The other steps of connections close none.                              *)
LEMMA StepOpening ==
  ASSUME IInv,
         \/ \E c \in Clients : Connect(c) \/ GivesUp(c)
         \/ AcceptCompletes \/ AcceptFails \/ handleAccept \/ handleAcceptError
         \/ RunReturns \/ UNCHANGED vars
  PROVE  IInv'
<1>1. /\ conn \in [Clients -> {"none", "open", "writing", "closed"}] /\ written \in [Clients -> Nat]
      /\ \A d \in Clients : conn[d] = "closed" => written[d] = Pieces \/ d \in gone
  BY DEF IInv, Typing, EachAnswered
<1>2. /\ UNCHANGED <<program, inbox, endpoint_, receiving, sends, taken, replies, written>>
      /\ gone \subseteq gone'
  BY DEF Connect, GivesUp, AcceptCompletes, AcceptFails, handleAccept, handleAcceptError, RunReturns,
         vars, udpVars, tcpVars
<1>3. /\ conn' \in [Clients -> {"none", "open", "writing", "closed"}]
      /\ \A d \in Clients : conn'[d] = "closed" => conn[d] = "closed"
  BY <1>1 DEF Connect, GivesUp, AcceptCompletes, AcceptFails, handleAccept, handleAcceptError, RunReturns,
              start, vars, tcpVars
<1> QED
  BY <1>1, <1>2, <1>3, StepConnections

(* Every step keeps the invariant.                                         *)
LEMMA NextIInv ==
  ASSUME IInv, [Next]_vars
  PROVE  IInv'
BY StephandleReceive, StepReceiveCompletes, StepSendCompletes, StepDatagramsElse, StepWrite, StepOpening
   DEF Next

--------------------------------------------------------------------------------

(* Every datagram is answered once, in order and to whoever sent it, and   *)
(* no connection is dropped with something left to write to a client that  *)
(* is there, for any number of clients and however the reactor orders      *)
(* completions.                                                            *)
THEOREM EachAnsweredHolds == Spec => []EachAnswered
<1>1. IInv => EachAnswered
  BY DEF IInv
<1> QED
  BY <1>1, InitIInv, NextIInv, PTL DEF Spec

================================================================================

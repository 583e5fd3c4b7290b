---------------------------- MODULE ChatServerProofs ----------------------------
(***************************************************************************)
(* Proofs about ChatServer for any number of sessions, any bound on the    *)
(* history and any number of pieces a client puts on the wire.             *)
(***************************************************************************)
EXTENDS ChatServer, TLAPS, SequenceTheorems

(* Only what was put on the wire is read from it: the number of the next   *)
(* message is one a client can have said.                                  *)
PutBound == \A s \in Sessions : heard[s] + Len(wire[s]) <= put[s]

(* recent_msgs_ is the end of the conversation, as long as it may be: what *)
(* a newcomer is given joins on to what is said next.                      *)
RecentIsEnd ==
  /\ Len(recent_msgs_) = IF Len(log) > kMaxRecentMsgs THEN kMaxRecentMsgs ELSE Len(log)
  /\ recent_msgs_ = SubSeq(log, OldestRecent, Len(log))

(* A connection that has not come into the room has had nothing from it.   *)
NeverJoined ==
  \A s \in Sessions :
    /\ s \notin accepted => first[s] = 0
    /\ first[s] = 0 => /\ s \notin participants_ /\ reading[s] = "none" /\ writing[s] = 0
                       /\ write_messages_[s] = <<>> /\ sent[s] = <<>>

ShareEnd(s) == IF s \in participants_ THEN Len(log) ELSE last[s]

(* What was written to a session and what is queued for it are its share   *)
(* of the conversation, also when it has left with messages in its queue.  *)
Shares ==
  \A s \in Sessions : first[s] # 0 =>
    /\ first[s] <= ShareEnd(s) + 1 /\ ShareEnd(s) <= Len(log)
    /\ sent[s] \o write_messages_[s] = SubSeq(log, first[s], ShareEnd(s))

(* The inductive invariant.                                                *)
IInv ==
  /\ TypeOK
  /\ WritesWhileQueued
  /\ ParticipantsAreRead
  /\ PutBound
  /\ RecentIsEnd
  /\ NeverJoined
  /\ Shares

--------------------------------------------------------------------------------
(* Sequences.                                                              *)

(* A part of a sequence that goes to its end grows with it.                *)
LEMMA SubSeqGrows ==
  ASSUME NEW S, NEW q \in Seq(S), NEW e \in S, NEW i \in 1 .. Len(q) + 1
  PROVE  SubSeq(Append(q, e), i, Len(q) + 1) = Append(SubSeq(q, i, Len(q)), e)
<1> DEFINE l == SubSeq(Append(q, e), i, Len(q) + 1)
           p == SubSeq(q, i, Len(q))
           r == Append(p, e)
<1>0. Len(q) \in Nat
  OBVIOUS
<1>1. /\ Append(q, e) \in Seq(S) /\ Len(Append(q, e)) = Len(q) + 1
      /\ \A k \in 1 .. Len(q) : Append(q, e)[k] = q[k]
      /\ Append(q, e)[Len(q) + 1] = e
  BY AppendProperties
<1>2. \A k \in i .. Len(q) + 1 : Append(q, e)[k] \in S
  BY <1>0, <1>1, ElementOfSeq
<1>3. /\ l \in Seq(S) /\ Len(l) = Len(q) + 1 - i + 1
      /\ \A k \in 1 .. Len(q) + 1 - i + 1 : l[k] = Append(q, e)[i + k - 1]
  <2> HIDE DEF p, r
  <2>1. i \in Int /\ Len(q) + 1 \in Int /\ i <= Len(q) + 1
    BY <1>0
  <2> QED
    BY <2>1, <1>2, SubSeqProperties
<1>4. \A k \in i .. Len(q) : q[k] \in S
  BY <1>0, ElementOfSeq
<1>5. /\ p \in Seq(S) /\ Len(p) = Len(q) - i + 1
      /\ \A k \in 1 .. Len(q) - i + 1 : p[k] = q[i + k - 1]
  <2>1. i \in Int /\ Len(q) \in Int /\ (i <= Len(q) \/ Len(q) - i + 1 = 0)
    BY <1>0
  <2> HIDE DEF l, r
  <2>2. /\ p \in Seq(S) /\ Len(p) = (IF i <= Len(q) THEN Len(q) - i + 1 ELSE 0)
        /\ \A k \in 1 .. Len(q) - i + 1 : p[k] = q[i + k - 1]
    BY <2>1, <1>4, SubSeqProperties
  <2> QED
    BY <2>1, <2>2, <1>0
<1>6. /\ r \in Seq(S) /\ Len(r) = Len(p) + 1
      /\ \A k \in 1 .. Len(p) : r[k] = p[k]
      /\ r[Len(p) + 1] = e
  <2> HIDE DEF p
  <2> QED
    BY <1>5, AppendProperties
<1> HIDE DEF l, p, r
<1>7. Len(l) = Len(r)
  BY <1>0, <1>3, <1>5, <1>6
<1>8. ASSUME NEW k \in 1 .. Len(l) PROVE l[k] = r[k]
  <2>1. l[k] = Append(q, e)[i + k - 1]
    BY <1>3, <1>8, <1>0
  <2>2. CASE k = Len(p) + 1
    BY <2>1, <2>2, <1>0, <1>1, <1>5, <1>6
  <2>3. CASE k # Len(p) + 1
    <3>1. k \in 1 .. Len(p) /\ k \in 1 .. Len(q) - i + 1 /\ i + k - 1 \in 1 .. Len(q)
      <4>1. Len(l) = Len(q) + 1 - i + 1 /\ Len(p) = Len(q) - i + 1 /\ i \in Int /\ i >= 1
        BY <1>0, <1>3, <1>5
      <4> QED
        BY <2>3, <4>1, <1>0
    <3> QED
      BY <3>1, <2>1, <1>1, <1>5, <1>6
  <2> QED
    BY <2>2, <2>3
<1>9. l = r
  BY <1>3, <1>6, <1>7, <1>8, SeqEqual
<1> QED
  BY <1>9 DEF l, p, r

(* A part of a sequence that ends before its end does not.                 *)
LEMMA SubSeqStays ==
  ASSUME NEW S, NEW q \in Seq(S), NEW e \in S, NEW i \in 1 .. Len(q) + 1, NEW j \in 0 .. Len(q)
  PROVE  SubSeq(Append(q, e), i, j) = SubSeq(q, i, j)
<1>0. Len(q) \in Nat
  OBVIOUS
<1>1. /\ Append(q, e) \in Seq(S)
      /\ \A k \in 1 .. Len(q) : Append(q, e)[k] = q[k]
  BY AppendProperties
<1>2. \A k \in i .. j : k \in 1 .. Len(q) /\ q[k] \in S /\ Append(q, e)[k] = q[k]
  BY <1>0, <1>1, ElementOfSeq
<1> DEFINE l == SubSeq(Append(q, e), i, j)
           r == SubSeq(q, i, j)
<1>3. i \in Int /\ j \in Int
  BY <1>0
<1>4. /\ l \in Seq(S) /\ Len(l) = IF i <= j THEN j - i + 1 ELSE 0
      /\ \A k \in 1 .. j - i + 1 : l[k] = Append(q, e)[i + k - 1]
  <2>1. \A k \in i .. j : Append(q, e)[k] \in S
    BY <1>2
  <2> HIDE DEF r
  <2> QED
    BY <1>3, <2>1, SubSeqProperties
<1>5. /\ r \in Seq(S) /\ Len(r) = IF i <= j THEN j - i + 1 ELSE 0
      /\ \A k \in 1 .. j - i + 1 : r[k] = q[i + k - 1]
  <2>1. \A k \in i .. j : q[k] \in S
    BY <1>2
  <2> HIDE DEF l
  <2> QED
    BY <1>3, <2>1, SubSeqProperties
<1> HIDE DEF l, r
<1>6. ASSUME NEW k \in 1 .. Len(l) PROVE l[k] = r[k]
  <2>1. k \in 1 .. j - i + 1 /\ i + k - 1 \in i .. j
    BY <1>3, <1>4, <1>6
  <2> QED
    BY <2>1, <1>2, <1>4, <1>5
<1>7. l = r
  BY <1>4, <1>5, <1>6, SeqEqual
<1> QED
  BY <1>7 DEF l, r

(* What is sent moves from the queue to what was sent: the whole stays.    *)
LEMMA SendHead ==
  ASSUME NEW S, NEW d \in Seq(S), NEW q \in Seq(S), q # <<>>
  PROVE  /\ d \o q = Append(d, Head(q)) \o Tail(q)
         /\ Head(q) \in S
         /\ Tail(q) \in Seq(S)
         /\ Len(Tail(q)) = Len(q) - 1
         /\ Append(d, Head(q)) \in Seq(S)
         /\ Len(d) \in Nat /\ Len(d) < Len(d \o q) /\ (d \o q)[Len(d) + 1] = Head(q)
  BY SMTT(30)

(* Appending an element appends it to a concatenation.                     *)
LEMMA ConcatAppend ==
  ASSUME NEW d \in Seq(Messages), NEW q \in Seq(Messages), NEW e \in Messages
  PROVE  Append(d \o q, e) = d \o Append(q, e)
  BY SMTT(30)

(* The end of a sequence that is trimmed to n stays its end when both get  *)
(* one more element.                                                       *)
LEMMA TrimmedIsEnd ==
  ASSUME NEW q \in Seq(Messages), NEW m \in Messages, NEW r \in Seq(Messages), NEW k, k = kMaxRecentMsgs,
         Len(r) = IF Len(q) > k THEN k ELSE Len(q),
         r = SubSeq(q, Len(q) - Len(r) + 1, Len(q)),
         NEW t, t = Trimmed(Append(r, m))
  PROVE  /\ t \in Seq(Messages)
         /\ Len(t) = IF Len(q) + 1 > k THEN k ELSE Len(q) + 1
         /\ t = SubSeq(Append(q, m), Len(q) + 1 - Len(t) + 1, Len(q) + 1)
<1> DEFINE i == Len(q) - Len(r) + 1
           a == Append(r, m)
           b == Append(q, m)
<1>1. /\ k \in Nat /\ k >= 1 /\ Len(q) \in Nat /\ Len(r) \in Nat
      /\ i = Len(q) - Len(r) + 1
      /\ Len(r) <= Len(q) /\ (Len(q) >= k => Len(r) = k) /\ (Len(q) < k => Len(r) = Len(q))
  <2>1. k \in Nat /\ k >= 1 /\ Len(q) \in Nat /\ Len(r) \in Nat
    BY ChatServerAssumption
  <2>2. Len(r) = k \/ Len(r) = Len(q)
    OBVIOUS
  <2> QED
    BY <2>1, <2>2
<1>2. /\ a \in Seq(Messages) /\ Len(a) = Len(r) + 1
      /\ b \in Seq(Messages) /\ Len(b) = Len(q) + 1
  BY AppendProperties
<1>3. t = IF Len(a) > k THEN SubSeq(a, Len(a) - k + 1, Len(a)) ELSE a
  BY DEF Trimmed
<1>4. r = SubSeq(q, i, Len(q))
  OBVIOUS
<1>5. a = Append(r, m) /\ b = Append(q, m)
  OBVIOUS
<1> HIDE DEF i, a, b
<1>6. i \in 1 .. Len(q) + 1
  <2>1. \A x, y \in Nat : y <= x => x - y + 1 \in 1 .. x + 1
    OBVIOUS
  <2> QED
    BY <1>1, <2>1
<1>7. a = SubSeq(b, i, Len(q) + 1)
  BY <1>4, <1>5, <1>6, SubSeqGrows
<1>8. CASE Len(q) < k
  <2>1. Len(r) = Len(q) /\ ~ (Len(a) > k) /\ i = 1
    BY <1>8, <1>1, <1>2
  <2>2. t = a /\ Len(t) = Len(q) + 1
    BY <2>1, <1>2, <1>3
  <2>3. Len(q) + 1 - Len(t) + 1 = 1
    BY <2>2, <1>1
  <2> QED
    BY <2>1, <2>2, <2>3, <1>1, <1>2, <1>5, <1>7, <1>8
<1>9. CASE Len(q) >= k
  <2>1. Len(r) = k /\ Len(a) = k + 1 /\ i = Len(q) - k + 1
    BY <1>9, <1>1, <1>2
  <2>2. Len(a) > k /\ Len(a) - k + 1 = 2
    BY <2>1, <1>1
  <2>3. t = SubSeq(a, 2, k + 1)
    BY <2>1, <2>2, <1>3
  <2>4. t \in Seq(Messages) /\ Len(t) = k
    <3>1. \A n \in 2 .. k + 1 : n \in 1 .. Len(a)
      BY <2>1, <1>1
    <3>2. \A n \in 2 .. k + 1 : a[n] \in Messages
      BY <3>1, <1>2, ElementOfSeq
    <3>3. 2 \in Int /\ k + 1 \in Int /\ 2 <= k + 1 /\ (k + 1) - 2 + 1 = k
      BY <1>1
    <3> QED
      BY <2>3, <3>2, <3>3, SubSeqProperties
  <2>5. SubSeq(SubSeq(b, i, Len(q) + 1), 2, k + 1) = SubSeq(b, i + 2 - 1, i + (k + 1) - 1)
    <3>1. \A s \in Seq(Messages) : \A u, v \in 1 .. Len(s) : \A x, y \in 1 .. v - u + 1 :
            SubSeq(SubSeq(s, u, v), x, y) = SubSeq(s, u + x - 1, u + y - 1)
      BY SubSeqOfSubSeq
    <3>2. /\ i \in 1 .. Len(b) /\ Len(q) + 1 \in 1 .. Len(b)
          /\ 2 \in 1 .. (Len(q) + 1) - i + 1 /\ k + 1 \in 1 .. (Len(q) + 1) - i + 1
      BY <2>1, <1>1, <1>2, <1>9
    <3> QED
      BY <3>1, <3>2, <1>2
  <2>6. i + 2 - 1 = Len(q) + 1 - Len(t) + 1 /\ i + (k + 1) - 1 = Len(q) + 1
    BY <2>1, <2>4, <1>1
  <2>7. t = SubSeq(b, Len(q) + 1 - Len(t) + 1, Len(q) + 1)
    BY <2>3, <2>5, <2>6, <1>7
  <2>8. Len(t) = IF Len(q) + 1 > k THEN k ELSE Len(q) + 1
    BY <2>4, <1>9, <1>1
  <2> QED
    BY <2>4, <2>7, <2>8, <1>5
<1> QED
  BY <1>1, <1>8, <1>9

--------------------------------------------------------------------------------

(* The invariant holds at the start.                                       *)
LEMMA InitIInv == Init => IInv
<1> SUFFICES ASSUME Init PROVE IInv
  OBVIOUS
<1> USE ChatServerAssumption DEF Init
<1>1. TypeOK
  BY DEF TypeOK
<1>2. WritesWhileQueued /\ ParticipantsAreRead /\ PutBound /\ NeverJoined /\ Shares
  BY DEF WritesWhileQueued, ParticipantsAreRead, PutBound, NeverJoined, Shares
<1>3. RecentIsEnd
  <2>1. Len(log) = 0 /\ Len(recent_msgs_) = 0 /\ ~ (0 > kMaxRecentMsgs) /\ 0 - 0 + 1 = 1
    OBVIOUS
  <2>2. SubSeq(log, 1, 0) = <<>>
    BY SubSeqEmpty
  <2> QED
    BY <2>1, <2>2 DEF RecentIsEnd, OldestRecent
<1> QED
  BY <1>1, <1>2, <1>3 DEF IInv

(* What the clients do by themselves touches only the wire.                *)
LEMMA StepClient ==
  ASSUME IInv, NEW s \in Sessions, Connect(s) \/ Put(s) \/ HangUp(s)
  PROVE  IInv'
<1> USE ChatServerAssumption
<1>1. UNCHANGED <<participants_, recent_msgs_, write_messages_, reading, writing, accepted, heard, history>>
  BY DEF Connect, Put, HangUp
<1>2. /\ wire' \in [Sessions -> Seq({"header", "badheader", "body"})]
      /\ put' \in [Sessions -> 0 .. Pieces]
      /\ peer' \in [Sessions -> {"away", "there", "gone"}]
      /\ PutBound'
  <2>1. CASE Connect(s)
    BY <2>1 DEF Connect, IInv, TypeOK, PutBound
  <2>2. CASE HangUp(s)
    BY <2>2 DEF HangUp, IInv, TypeOK, PutBound
  <2>3. CASE Put(s)
    <3>1. PICK piece \in {"header", "badheader", "body"} : wire' = [wire EXCEPT ![s] = Append(@, piece)]
      BY <2>3 DEF Put
    <3>2. /\ peer' = peer /\ put' = [put EXCEPT ![s] = @ + 1] /\ put[s] < Pieces /\ heard' = heard
      BY <2>3 DEF Put
    <3>3. /\ wire' \in [Sessions -> Seq({"header", "badheader", "body"})]
          /\ Len(wire'[s]) = Len(wire[s]) + 1 /\ Len(wire[s]) \in Nat
          /\ \A t \in Sessions \ {s} : wire'[t] = wire[t]
      BY <3>1 DEF IInv, TypeOK
    <3>4. put' \in [Sessions -> 0 .. Pieces] /\ put'[s] = put[s] + 1 /\ put[s] \in Nat
      BY <3>2 DEF IInv, TypeOK
    <3>5. heard[s] + Len(wire'[s]) <= put'[s]
      <4>1. heard[s] \in Nat /\ heard[s] + Len(wire[s]) <= put[s]
        BY DEF IInv, TypeOK, PutBound
      <4> QED
        BY <4>1, <3>3, <3>4
    <3>6. PutBound'
      BY <3>2, <3>3, <3>4, <3>5 DEF IInv, TypeOK, PutBound
    <3> QED
      BY <3>2, <3>3, <3>4, <3>6 DEF IInv, TypeOK
  <2> QED
    BY <2>1, <2>2, <2>3
<1>3. TypeOK'
  BY <1>1, <1>2 DEF IInv, TypeOK, history
<1>4. WritesWhileQueued' /\ ParticipantsAreRead' /\ RecentIsEnd' /\ NeverJoined' /\ Shares'
  BY <1>1 DEF IInv, WritesWhileQueued, ParticipantsAreRead, RecentIsEnd, OldestRecent, NeverJoined, Shares,
     ShareEnd, history
<1> QED
  BY <1>2, <1>3, <1>4 DEF IInv

(* A newcomer's queue is the end of the conversation, and its share with   *)
(* it.                                                                     *)
LEMMA StepAccept ==
  ASSUME IInv, NEW s \in Sessions, Accept(s)
  PROVE  IInv'
<1> USE ChatServerAssumption
<1>1. /\ s \notin accepted /\ accepted' = accepted \cup {s}
      /\ participants_' = participants_ \cup {s}
      /\ write_messages_' = [write_messages_ EXCEPT ![s] = recent_msgs_]
      /\ writing' = [writing EXCEPT ![s] = IF recent_msgs_ = <<>> THEN 0 ELSE 1]
      /\ first' = [first EXCEPT ![s] = OldestRecent]
      /\ reading' = [reading EXCEPT ![s] = "header"]
      /\ UNCHANGED <<recent_msgs_, peer, wire, put, heard, log, last, sent>>
  BY DEF Accept, Join, client
<1>2. /\ OldestRecent \in 1 .. Len(log) + 1 /\ Len(log) \in Nat
      /\ recent_msgs_ = SubSeq(log, OldestRecent, Len(log))
  <2>1. Len(log) \in Nat /\ Len(recent_msgs_) \in Nat
    BY DEF IInv, TypeOK
  <2>2. Len(recent_msgs_) <= Len(log)
    BY <2>1 DEF IInv, RecentIsEnd
  <2>3. \A x, y \in Nat : y <= x => x - y + 1 \in 1 .. x + 1
    OBVIOUS
  <2>4. OldestRecent \in 1 .. Len(log) + 1
    BY <2>1, <2>2, <2>3 DEF OldestRecent
  <2>5. recent_msgs_ = SubSeq(log, OldestRecent, Len(log))
    BY DEF IInv, RecentIsEnd
  <2> QED
    BY <2>1, <2>4, <2>5
<1>3. TypeOK'
  <2>1. TypeOK
    BY DEF IInv
  <2>2. recent_msgs_ \in Seq(Messages) /\ OldestRecent \in Nat
    BY <1>2, <2>1 DEF TypeOK
  <2>3. write_messages_' \in [Sessions -> Seq(Messages)]
    BY <1>1, <2>1, <2>2 DEF TypeOK
  <2>4. writing' \in [Sessions -> Nat] /\ first' \in [Sessions -> Nat]
    BY <1>1, <2>1, <2>2 DEF TypeOK
  <2>5. reading' \in [Sessions -> {"none", "header", "body"}]
    BY <1>1, <2>1 DEF TypeOK
  <2>6. participants_' \subseteq accepted' /\ accepted' \subseteq Sessions
    BY <1>1, <2>1 DEF TypeOK
  <2> QED
    BY <1>1, <2>1, <2>3, <2>4, <2>5, <2>6 DEF TypeOK
<1>4. WritesWhileQueued'
  BY <1>1, SMTT(30) DEF IInv, TypeOK, WritesWhileQueued
<1>5. ParticipantsAreRead'
  BY <1>1 DEF IInv, TypeOK, ParticipantsAreRead
<1>6. PutBound' /\ RecentIsEnd'
  BY <1>1 DEF IInv, PutBound, RecentIsEnd, OldestRecent
<1>7. NeverJoined'
  <2>1. first'[s] # 0 /\ \A t \in Sessions \ {s} : first'[t] = first[t]
    BY <1>1, <1>2 DEF IInv, TypeOK
  <2> QED
    BY <2>1, <1>1 DEF IInv, TypeOK, NeverJoined
<1>8. Shares'
  <2> SUFFICES ASSUME NEW t \in Sessions, first'[t] # 0
               PROVE  /\ first'[t] <= ShareEnd(t)' + 1 /\ ShareEnd(t)' <= Len(log)'
                      /\ sent'[t] \o write_messages_'[t] = SubSeq(log', first'[t], ShareEnd(t)')
    BY DEF Shares
  <2>1. CASE t = s
    <3>1. sent[s] = <<>> /\ sent'[s] = <<>> /\ write_messages_'[s] = recent_msgs_ /\ first'[s] = OldestRecent
      BY <1>1 DEF IInv, TypeOK, NeverJoined
    <3>2. <<>> \o recent_msgs_ = recent_msgs_
      BY ConcatEmptySeq DEF IInv, TypeOK
    <3>3. ShareEnd(s)' = Len(log) /\ log' = log
      BY <1>1 DEF ShareEnd
    <3> QED
      BY <2>1, <3>1, <3>2, <3>3, <1>2
  <2>2. CASE t # s
    <3>1. ShareEnd(t)' = ShareEnd(t) /\ sent'[t] = sent[t] /\ write_messages_'[t] = write_messages_[t]
          /\ first'[t] = first[t] /\ log' = log
      BY <2>2, <1>1 DEF ShareEnd, IInv, TypeOK
    <3> QED
      BY <3>1 DEF IInv, Shares
  <2> QED
    BY <2>1, <2>2
<1> QED
  BY <1>3, <1>4, <1>5, <1>6, <1>7, <1>8 DEF IInv

(* A connection that fails is known, and never comes into the room.        *)
LEMMA StepAcceptFails ==
  ASSUME IInv, NEW s \in Sessions, AcceptFails(s)
  PROVE  IInv'
<1>1. /\ accepted' = accepted \cup {s} /\ peer' = [peer EXCEPT ![s] = "gone"]
      /\ UNCHANGED <<participants_, recent_msgs_, write_messages_, reading, writing, wire, put, heard,
                     log, first, last, sent>>
  BY DEF AcceptFails, history
<1>2. TypeOK'
  BY <1>1 DEF IInv, TypeOK
<1>3. /\ WritesWhileQueued' /\ ParticipantsAreRead' /\ PutBound' /\ RecentIsEnd' /\ NeverJoined' /\ Shares'
  BY <1>1 DEF IInv, WritesWhileQueued, ParticipantsAreRead, PutBound, RecentIsEnd, OldestRecent, NeverJoined,
     Shares, ShareEnd
<1> QED
  BY <1>2, <1>3 DEF IInv

(* Leaving ends the share where the conversation stands.                   *)
LEMMA LeaveEffect ==
  ASSUME IInv, NEW s \in Sessions, Leave(s),
         UNCHANGED <<recent_msgs_, write_messages_, accepted, log, first, sent>>
  PROVE  /\ participants_' \subseteq accepted'
         /\ last' \in [Sessions -> Nat]
         /\ RecentIsEnd'
         /\ Shares'
         /\ \A t \in participants_' : t \in participants_ /\ t # s
<1>1. /\ participants_' = participants_ \ {s}
      /\ last' = IF s \in participants_ THEN [last EXCEPT ![s] = Len(log)] ELSE last
  BY DEF Leave
<1>2. Len(log) \in Nat /\ participants_ \subseteq accepted /\ last \in [Sessions -> Nat]
  BY DEF IInv, TypeOK
<1>3. \A t \in Sessions : ShareEnd(t)' = ShareEnd(t)
  BY <1>1, <1>2 DEF ShareEnd
<1>4. Shares'
  <2> SUFFICES ASSUME NEW t \in Sessions, first'[t] # 0
               PROVE  /\ first'[t] <= ShareEnd(t)' + 1 /\ ShareEnd(t)' <= Len(log)'
                      /\ sent'[t] \o write_messages_'[t] = SubSeq(log', first'[t], ShareEnd(t)')
    BY DEF Shares
  <2> QED
    BY <1>3 DEF IInv, Shares
<1>5. RecentIsEnd'
  BY DEF IInv, RecentIsEnd, OldestRecent
<1> QED
  BY <1>1, <1>2, <1>4, <1>5

(* A header is taken off the wire; one that is refused ends the stay.      *)
LEMMA StepReadHeader ==
  ASSUME IInv, NEW s \in Sessions, ReadHeader(s)
  PROVE  IInv'
<1>1. /\ reading[s] = "header" /\ wire[s] # <<>>
      /\ wire' = [wire EXCEPT ![s] = Tail(@)]
      /\ \/ reading' = [reading EXCEPT ![s] = "body"] /\ UNCHANGED <<participants_, last>>
         \/ reading' = [reading EXCEPT ![s] = "none"] /\ Leave(s)
      /\ UNCHANGED <<recent_msgs_, write_messages_, writing, accepted, peer, put, heard, log, first, sent>>
  BY DEF ReadHeader
<1>2. /\ wire' \in [Sessions -> Seq({"header", "badheader", "body"})]
      /\ Len(wire'[s]) = Len(wire[s]) - 1 /\ Len(wire[s]) \in Nat
      /\ \A t \in Sessions \ {s} : wire'[t] = wire[t]
  BY <1>1 DEF IInv, TypeOK
<1>3. PutBound'
  <2>1. heard[s] + Len(wire'[s]) <= put[s]
    <3>1. heard[s] \in Nat /\ put[s] \in Nat /\ heard[s] + Len(wire[s]) <= put[s]
      BY DEF IInv, TypeOK, PutBound
    <3> QED
      BY <3>1, <1>2
  <2> QED
    BY <1>1, <1>2, <2>1 DEF IInv, PutBound
<1>4. /\ participants_' \subseteq accepted' /\ last' \in [Sessions -> Nat] /\ RecentIsEnd' /\ Shares'
      /\ ParticipantsAreRead' /\ participants_' \subseteq participants_
  <2>1. CASE reading' = [reading EXCEPT ![s] = "body"] /\ UNCHANGED <<participants_, last>>
    <3>1. RecentIsEnd' /\ Shares'
      BY <1>1, <2>1 DEF IInv, RecentIsEnd, OldestRecent, Shares, ShareEnd
    <3> QED
      BY <3>1, <1>1, <2>1 DEF IInv, TypeOK, ParticipantsAreRead
  <2>2. CASE reading' = [reading EXCEPT ![s] = "none"] /\ Leave(s)
    <3>1. /\ participants_' \subseteq accepted' /\ last' \in [Sessions -> Nat] /\ RecentIsEnd' /\ Shares'
          /\ \A t \in participants_' : t \in participants_ /\ t # s
      BY <1>1, <2>2, LeaveEffect
    <3> QED
      BY <3>1, <2>2 DEF IInv, TypeOK, ParticipantsAreRead
  <2> QED
    BY <1>1, <2>1, <2>2
<1>5. TypeOK'
  BY <1>1, <1>2, <1>4 DEF IInv, TypeOK
<1>6. WritesWhileQueued'
  BY <1>1, <1>4 DEF IInv, WritesWhileQueued
<1>7. NeverJoined'
  BY <1>1, <1>4 DEF IInv, TypeOK, NeverJoined
<1> QED
  BY <1>3, <1>4, <1>5, <1>6, <1>7 DEF IInv

(* A read that fails ends the stay and the reading.                        *)
LEMMA StepReadFails ==
  ASSUME IInv, NEW s \in Sessions, ReadFails(s)
  PROVE  IInv'
<1>1. /\ reading' = [reading EXCEPT ![s] = "none"] /\ Leave(s)
      /\ UNCHANGED <<recent_msgs_, write_messages_, writing, accepted, peer, wire, put, heard, log, first,
                     sent>>
  BY DEF ReadFails, client
<1>2. /\ participants_' \subseteq accepted' /\ last' \in [Sessions -> Nat] /\ RecentIsEnd' /\ Shares'
      /\ \A t \in participants_' : t \in participants_ /\ t # s
  BY <1>1, LeaveEffect
<1>3. TypeOK'
  BY <1>1, <1>2 DEF IInv, TypeOK
<1>4. ParticipantsAreRead' /\ WritesWhileQueued' /\ NeverJoined' /\ PutBound'
  BY <1>1, <1>2 DEF IInv, TypeOK, ParticipantsAreRead, WritesWhileQueued, NeverJoined, PutBound
<1> QED
  BY <1>2, <1>3, <1>4 DEF IInv

(* A write that fails ends the stay and the writing, the queue stays.      *)
LEMMA StepWriteFails ==
  ASSUME IInv, NEW s \in Sessions, WriteFails(s)
  PROVE  IInv'
<1>1. /\ writing[s] > 0 /\ writing' = [writing EXCEPT ![s] = @ - 1] /\ Leave(s)
      /\ UNCHANGED <<recent_msgs_, write_messages_, reading, accepted, peer, wire, put, heard, log, first,
                     sent>>
  BY DEF WriteFails, client
<1>2. /\ participants_' \subseteq accepted' /\ last' \in [Sessions -> Nat] /\ RecentIsEnd' /\ Shares'
      /\ \A t \in participants_' : t \in participants_ /\ t # s
  BY <1>1, LeaveEffect
<1>3. /\ writing[s] = 1 /\ writing'[s] = 0 /\ writing' \in [Sessions -> Nat]
      /\ \A t \in Sessions \ {s} : writing'[t] = writing[t]
  BY <1>1 DEF IInv, TypeOK, WritesWhileQueued
<1>4. TypeOK'
  BY <1>1, <1>2, <1>3 DEF IInv, TypeOK
<1>5. WritesWhileQueued'
  BY <1>1, <1>2, <1>3 DEF IInv, WritesWhileQueued
<1>6. ParticipantsAreRead' /\ NeverJoined' /\ PutBound'
  BY <1>1, <1>2, <1>3 DEF IInv, TypeOK, ParticipantsAreRead, NeverJoined, PutBound
<1> QED
  BY <1>2, <1>4, <1>5, <1>6 DEF IInv

(* A message goes to the end of the conversation, of its memory and of     *)
(* every participant's queue; an idle participant starts to write.         *)
LEMMA StepReadBody ==
  ASSUME IInv, NEW s \in Sessions, ReadBody(s)
  PROVE  IInv'
<1> DEFINE m == <<s, heard[s] + 1>>
<1>1. /\ reading[s] = "body" /\ wire[s] # <<>>
      /\ wire' = [wire EXCEPT ![s] = Tail(@)]
      /\ heard' = [heard EXCEPT ![s] = @ + 1]
      /\ reading' = [reading EXCEPT ![s] = "header"]
      /\ recent_msgs_' = Trimmed(Append(recent_msgs_, m))
      /\ write_messages_' = [t \in Sessions |-> IF t \in participants_ THEN Append(write_messages_[t], m)
                                                ELSE write_messages_[t]]
      /\ writing' = [t \in Sessions |-> IF t \in participants_ /\ write_messages_[t] = <<>>
                                        THEN writing[t] + 1 ELSE writing[t]]
      /\ log' = Append(log, m)
      /\ UNCHANGED <<participants_, accepted, peer, put, first, last, sent>>
  BY DEF ReadBody, Deliver
<1>2. /\ wire' \in [Sessions -> Seq({"header", "badheader", "body"})]
      /\ Len(wire'[s]) = Len(wire[s]) - 1 /\ Len(wire[s]) \in Nat /\ Len(wire[s]) >= 1
      /\ \A t \in Sessions \ {s} : wire'[t] = wire[t]
  BY <1>1 DEF IInv, TypeOK
<1>3. /\ heard[s] + 1 \in 1 .. Pieces
      /\ heard[s] + 1 + Len(wire'[s]) <= put[s]
  <2>1. /\ heard[s] \in Nat /\ put[s] \in Nat /\ put[s] <= Pieces /\ heard[s] + Len(wire[s]) <= put[s]
    BY ChatServerAssumption DEF IInv, TypeOK, PutBound
  <2> QED
    BY <2>1, <1>2, ChatServerAssumption
<1>4. m \in Messages
  BY <1>3 DEF Messages
<1> HIDE DEF m
<1>5. PutBound'
  BY <1>1, <1>2, <1>3 DEF IInv, TypeOK, PutBound
<1>6. /\ recent_msgs_' \in Seq(Messages) /\ Len(recent_msgs_') <= kMaxRecentMsgs
      /\ RecentIsEnd'
      /\ log' \in Seq(Messages) /\ Len(log') = Len(log) + 1 /\ Len(log) \in Nat
  <2>1. log \in Seq(Messages) /\ recent_msgs_ \in Seq(Messages)
    BY DEF IInv, TypeOK
  <2>2. log' \in Seq(Messages) /\ Len(log') = Len(log) + 1 /\ Len(log) \in Nat
    BY <2>1, <1>1, <1>4, AppendProperties
  <2>3. /\ Len(recent_msgs_) = IF Len(log) > kMaxRecentMsgs THEN kMaxRecentMsgs ELSE Len(log)
        /\ recent_msgs_ = SubSeq(log, Len(log) - Len(recent_msgs_) + 1, Len(log))
    BY DEF IInv, RecentIsEnd, OldestRecent
  <2>4. /\ recent_msgs_' \in Seq(Messages)
        /\ Len(recent_msgs_') = IF Len(log) + 1 > kMaxRecentMsgs THEN kMaxRecentMsgs ELSE Len(log) + 1
        /\ recent_msgs_' = SubSeq(log', Len(log) + 1 - Len(recent_msgs_') + 1, Len(log) + 1)
    BY <2>1, <2>3, <1>1, <1>4, TrimmedIsEnd
  <2>5. Len(recent_msgs_') <= kMaxRecentMsgs
    BY <2>2, <2>4, ChatServerAssumption
  <2> QED
    BY <2>2, <2>4, <2>5 DEF RecentIsEnd, OldestRecent
<1>7. TypeOK'
  <2>1. write_messages_' \in [Sessions -> Seq(Messages)] /\ writing' \in [Sessions -> Nat]
    <3>1. write_messages_ \in [Sessions -> Seq(Messages)] /\ writing \in [Sessions -> Nat]
      BY DEF IInv, TypeOK
    <3>2. \A t \in Sessions : Append(write_messages_[t], m) \in Seq(Messages)
      BY <3>1, <1>4, AppendProperties
    <3> QED
      BY <3>1, <3>2, <1>1
  <2>2. heard' \in [Sessions -> 0 .. Pieces]
    BY <1>1, <1>3 DEF IInv, TypeOK
  <2>3. reading' \in [Sessions -> {"none", "header", "body"}]
    BY <1>1 DEF IInv, TypeOK
  <2> QED
    BY <2>1, <2>2, <2>3, <1>1, <1>2, <1>6 DEF IInv, TypeOK
<1>8. WritesWhileQueued'
  <2> SUFFICES ASSUME NEW t \in Sessions
               PROVE  /\ writing'[t] <= 1
                      /\ writing'[t] = 1 => write_messages_'[t] # <<>>
                      /\ t \in participants_' /\ write_messages_'[t] # <<>> => writing'[t] = 1
    BY DEF WritesWhileQueued
  <2>1. /\ writing[t] \in Nat /\ writing[t] <= 1 /\ write_messages_[t] \in Seq(Messages)
        /\ writing[t] = 1 => write_messages_[t] # <<>>
        /\ t \in participants_ /\ write_messages_[t] # <<>> => writing[t] = 1
    BY DEF IInv, TypeOK, WritesWhileQueued
  <2>2. CASE t \in participants_
    <3>1. write_messages_'[t] # <<>>
      BY <2>1, <2>2, <1>1, <1>4, AppendProperties
    <3> QED
      BY <3>1, <2>1, <2>2, <1>1
  <2>3. CASE t \notin participants_
    BY <2>1, <2>3, <1>1
  <2> QED
    BY <2>2, <2>3
<1>9. ParticipantsAreRead' /\ NeverJoined'
  BY <1>1 DEF IInv, TypeOK, ParticipantsAreRead, NeverJoined
<1>10. Shares'
  <2> SUFFICES ASSUME NEW t \in Sessions, first'[t] # 0
               PROVE  /\ first'[t] <= ShareEnd(t)' + 1 /\ ShareEnd(t)' <= Len(log)'
                      /\ sent'[t] \o write_messages_'[t] = SubSeq(log', first'[t], ShareEnd(t)')
    BY DEF Shares
  <2>1. /\ first'[t] = first[t] /\ sent'[t] = sent[t]
        /\ first[t] \in Nat /\ first[t] # 0 /\ last[t] \in Nat
        /\ log \in Seq(Messages) /\ sent[t] \in Seq(Messages) /\ write_messages_[t] \in Seq(Messages)
        /\ first[t] <= ShareEnd(t) + 1 /\ ShareEnd(t) <= Len(log)
        /\ sent[t] \o write_messages_[t] = SubSeq(log, first[t], ShareEnd(t))
    BY <1>1 DEF IInv, TypeOK, Shares
  <2>2. CASE t \in participants_
    <3>1. ShareEnd(t) = Len(log) /\ ShareEnd(t)' = Len(log)' /\ Len(log)' = Len(log) + 1
      BY <2>2, <1>1, <1>6 DEF ShareEnd
    <3>2. write_messages_'[t] = Append(write_messages_[t], m)
      BY <2>2, <1>1
    <3>3. first[t] \in 1 .. Len(log) + 1
      BY <2>1, <3>1, <1>6
    <3>4. SubSeq(log', first[t], Len(log) + 1) = Append(SubSeq(log, first[t], Len(log)), m)
      BY <3>3, <2>1, <1>1, <1>4, SubSeqGrows
    <3>5. sent[t] \o write_messages_'[t] = Append(sent[t] \o write_messages_[t], m)
      <4>1. /\ sent[t] \in Seq(Messages) /\ write_messages_[t] \in Seq(Messages)
            /\ m \in Messages
        BY <2>1, <1>4
      <4>2. Append(sent[t] \o write_messages_[t], m) = sent[t] \o Append(write_messages_[t], m)
        BY <4>1, ConcatAppend
      <4> QED
        BY <3>2, <4>2
    <3>6. first[t] <= Len(log) + 1 + 1
      BY <3>3, <1>6
    <3>7. ShareEnd(t)' = Len(log) + 1
      BY <3>1
    <3>8. sent'[t] \o write_messages_'[t] = SubSeq(log', first'[t], Len(log) + 1)
      BY <3>1, <3>4, <3>5, <2>1
    <3>9. first'[t] <= Len(log) + 1 + 1 /\ Len(log) + 1 <= Len(log)'
      BY <3>1, <3>6, <2>1, <1>6
    <3> QED
      BY <3>7, <3>8, <3>9
  <2>3. CASE t \notin participants_
    <3>1. ShareEnd(t)' = ShareEnd(t) /\ ShareEnd(t) = last[t] /\ write_messages_'[t] = write_messages_[t]
      BY <2>3, <1>1 DEF ShareEnd
    <3>2. first[t] \in 1 .. Len(log) + 1 /\ last[t] \in 0 .. Len(log) /\ last[t] <= Len(log)'
      BY <2>1, <3>1, <1>6
    <3>3. SubSeq(log', first[t], last[t]) = SubSeq(log, first[t], last[t])
      BY <3>2, <2>1, <1>1, <1>4, SubSeqStays
    <3> QED
      BY <3>1, <3>2, <3>3, <2>1
  <2> QED
    BY <2>2, <2>3
<1> QED
  BY <1>5, <1>6, <1>7, <1>8, <1>9, <1>10 DEF IInv

(* A message moves from the queue to what was written; the next write is   *)
(* started while there is one.                                             *)
LEMMA StepWriteDone ==
  ASSUME IInv, NEW s \in Sessions, WriteDone(s)
  PROVE  IInv'
<1>1. /\ writing[s] > 0
      /\ sent' = [sent EXCEPT ![s] = Append(@, Head(write_messages_[s]))]
      /\ write_messages_' = [write_messages_ EXCEPT ![s] = Tail(@)]
      /\ writing' = [writing EXCEPT ![s] = IF Len(write_messages_[s]) > 1 THEN @ ELSE @ - 1]
      /\ UNCHANGED <<participants_, recent_msgs_, reading, accepted, peer, wire, put, heard, log, first, last>>
  BY DEF WriteDone, client
<1>2. /\ writing[s] = 1 /\ write_messages_[s] # <<>>
      /\ write_messages_[s] \in Seq(Messages) /\ sent[s] \in Seq(Messages)
  BY <1>1 DEF IInv, TypeOK, WritesWhileQueued
<1>3. /\ sent[s] \o write_messages_[s] = Append(sent[s], Head(write_messages_[s])) \o Tail(write_messages_[s])
      /\ Append(sent[s], Head(write_messages_[s])) \in Seq(Messages)
      /\ Tail(write_messages_[s]) \in Seq(Messages)
      /\ Len(Tail(write_messages_[s])) = Len(write_messages_[s]) - 1
  <2>1. \A d, q \in Seq(Messages) : q # <<>> =>
          /\ d \o q = Append(d, Head(q)) \o Tail(q)
          /\ Head(q) \in Messages /\ Tail(q) \in Seq(Messages) /\ Len(Tail(q)) = Len(q) - 1
          /\ Append(d, Head(q)) \in Seq(Messages)
    BY SendHead
  <2> QED
    BY <1>2, <2>1
<1>4. /\ writing'[s] = IF Tail(write_messages_[s]) = <<>> THEN 0 ELSE 1
      /\ writing' \in [Sessions -> Nat]
  <2>1. Len(write_messages_[s]) \in Nat /\ (Len(Tail(write_messages_[s])) = 0 <=> Tail(write_messages_[s]) = <<>>)
    <3>1. \A q \in Seq(Messages) : Len(q) \in Nat /\ (Len(q) = 0 <=> q = <<>>)
      OBVIOUS
    <3> QED
      BY <3>1, <1>2, <1>3
  <2>2. Len(write_messages_[s]) > 1 <=> Tail(write_messages_[s]) # <<>>
    <3>1. \A x \in Nat : x # 0 => (x > 1 <=> x - 1 # 0)
      OBVIOUS
    <3>2. Len(write_messages_[s]) # 0
      BY <1>2
    <3> QED
      BY <1>3, <2>1, <3>1, <3>2
  <2>3. writing'[s] = (IF Len(write_messages_[s]) > 1 THEN 1 ELSE 0) /\ writing' \in [Sessions -> Nat]
    BY <1>1, <1>2 DEF IInv, TypeOK
  <2> QED
    BY <2>2, <2>3
<1>5. TypeOK'
  BY <1>1, <1>3, <1>4 DEF IInv, TypeOK
<1>6. WritesWhileQueued'
  <2>1. \A t \in Sessions \ {s} : writing'[t] = writing[t] /\ write_messages_'[t] = write_messages_[t]
    BY <1>1 DEF IInv, TypeOK
  <2>2. write_messages_'[s] = Tail(write_messages_[s])
    BY <1>1 DEF IInv, TypeOK
  <2>3. /\ writing'[s] <= 1
        /\ writing'[s] = 1 => write_messages_'[s] # <<>>
        /\ write_messages_'[s] # <<>> => writing'[s] = 1
    BY <1>4, <2>2
  <2> QED
    BY <1>1, <2>1, <2>3 DEF IInv, WritesWhileQueued
<1>7. ParticipantsAreRead' /\ PutBound' /\ RecentIsEnd'
  BY <1>1 DEF IInv, ParticipantsAreRead, PutBound, RecentIsEnd, OldestRecent
<1>8. first[s] # 0
  BY <1>2 DEF IInv, NeverJoined
<1>9. NeverJoined'
  BY <1>1, <1>8 DEF IInv, TypeOK, NeverJoined
<1>10. Shares'
  <2>1. \A t \in Sessions : ShareEnd(t)' = ShareEnd(t)
    BY <1>1 DEF ShareEnd
  <2>2. \A t \in Sessions : sent'[t] \o write_messages_'[t] = sent[t] \o write_messages_[t]
    BY <1>1, <1>3 DEF IInv, TypeOK
  <2> QED
    BY <2>1, <2>2, <1>1 DEF IInv, Shares
<1> QED
  BY <1>5, <1>6, <1>7, <1>9, <1>10 DEF IInv

(* Every step keeps the invariant.                                         *)
LEMMA NextIInv == IInv /\ [Next]_vars => IInv'
<1> SUFFICES ASSUME IInv, [Next]_vars PROVE IInv'
  OBVIOUS
<1>1. ASSUME NEW s \in Sessions,
             Connect(s) \/ Put(s) \/ HangUp(s) \/ AcceptHandler(s) \/ ReadHandler(s) \/ WriteHandler(s)
      PROVE  IInv'
  BY <1>1, StepClient, StepAccept, StepAcceptFails, StepReadHeader, StepReadBody, StepReadFails,
     StepWriteDone, StepWriteFails DEF AcceptHandler, ReadHandler, WriteHandler
<1>2. CASE UNCHANGED vars
  BY <1>2 DEF vars, IInv, TypeOK, WritesWhileQueued, ParticipantsAreRead, PutBound, RecentIsEnd, OldestRecent,
     NeverJoined, Shares, ShareEnd
<1> QED
  BY <1>1, <1>2 DEF Next

(* Every reachable state satisfies the inductive invariant.                *)
LEMMA Invariance == Spec => []IInv
  BY InitIInv, NextIInv, PTL DEF Spec

--------------------------------------------------------------------------------

(* The types, at most one write outstanding for a session and one as long  *)
(* as a participant has messages queued, and a read outstanding for every  *)
(* participant: none is served in one direction only.                      *)
THEOREM ConsistentHolds == Spec => []Consistent
<1>1. IInv => Consistent
  BY DEF IInv, Consistent
<1> QED
  BY <1>1, Invariance, PTL

(* What was written to a participant and what is queued for it are all     *)
(* that was said since the oldest message it was given, in order.          *)
THEOREM QueueIsRestOfShareHolds == Spec => []QueueIsRestOfShare
<1>1. IInv => QueueIsRestOfShare
  <2> SUFFICES ASSUME IInv, NEW s \in participants_
               PROVE  sent[s] \o write_messages_[s] = SubSeq(log, first[s], Len(log))
    BY DEF QueueIsRestOfShare
  <2>1. s \in Sessions /\ first[s] # 0
    BY DEF IInv, TypeOK, NeverJoined
  <2> QED
    BY <2>1 DEF IInv, Shares, ShareEnd
<1> QED
  BY <1>1, Invariance, PTL

--------------------------------------------------------------------------------
(* The refinement of ChatRoom.                                             *)

(* The newest message of the queue is the next the client has a right to.  *)
LEMMA WriteDoneShows ==
  ASSUME IInv, NEW s \in Sessions, WriteDone(s)
  PROVE  Room!Show(s)
<1>1. /\ writing[s] > 0 /\ sent' = [sent EXCEPT ![s] = Append(@, Head(write_messages_[s]))]
      /\ UNCHANGED <<participants_, log, first, last>>
  BY DEF WriteDone
<1>2. first[s] # 0 /\ write_messages_[s] # <<>>
  BY <1>1 DEF IInv, TypeOK, WritesWhileQueued, NeverJoined
<1>3. sent[s] \o write_messages_[s] = Room!Share(s)
  BY <1>2 DEF IInv, Shares, ShareEnd, Room!Share
<1>4. Len(sent[s]) < Len(Room!Share(s)) /\ Room!Share(s)[Len(sent[s]) + 1] = Head(write_messages_[s])
  <2>1. sent[s] \in Seq(Messages) /\ write_messages_[s] \in Seq(Messages)
    BY DEF IInv, TypeOK
  <2> QED
    <3>1. \A d, q \in Seq(Messages) : q # <<>> =>
            Len(d) < Len(d \o q) /\ (d \o q)[Len(d) + 1] = Head(q)
      BY SendHead
    <3> QED
      BY <2>1, <3>1, <1>2, <1>3
<1> QED
  BY <1>1, <1>2, <1>4 DEF Room!Show

(* Leaving is leaving, or nothing for a session that has left.             *)
LEMMA LeaveRefines ==
  ASSUME IInv, NEW s \in Sessions, Leave(s), UNCHANGED <<log, first, sent>>
  PROVE  [Room!Leave(s)]_(Room!vars)
<1>1. CASE s \in participants_
  <2>1. first[s] # 0
    BY <1>1 DEF IInv, NeverJoined
  <2>2. Room!Leave(s)
    BY <1>1, <2>1 DEF Leave, Room!Leave
  <2> QED
    BY <2>2
<1>2. CASE s \notin participants_
  BY <1>2 DEF Leave, Room!vars
<1> QED
  BY <1>1, <1>2

(* Accepting is joining: what the newcomer is given begins where the       *)
(* abstract room says.                                                     *)
LEMMA AcceptJoins ==
  ASSUME IInv, NEW s \in Sessions, Accept(s)
  PROVE  Room!Join(s)
<1>1. /\ s \notin accepted /\ participants_' = participants_ \cup {s}
      /\ first' = [first EXCEPT ![s] = OldestRecent]
      /\ UNCHANGED <<log, last, sent>>
  BY DEF Accept, Join
<1>2. first[s] = 0 /\ s \notin participants_
  BY <1>1 DEF IInv, NeverJoined
<1>3. OldestRecent = Room!OldestRecent /\ OldestRecent # 0
  <2>1. Len(log) \in Nat /\ Len(recent_msgs_) \in Nat /\ kMaxRecentMsgs \in Nat
    BY ChatServerAssumption DEF IInv, TypeOK
  <2>2. Len(recent_msgs_) = IF Len(log) > kMaxRecentMsgs THEN kMaxRecentMsgs ELSE Len(log)
    BY DEF IInv, RecentIsEnd
  <2>3. \A x, y, k \in Nat : y = (IF x > k THEN k ELSE x)
          => x - y + 1 = (IF x > k THEN x - k + 1 ELSE 1) /\ x - y + 1 # 0
    OBVIOUS
  <2> QED
    BY <2>1, <2>2, <2>3 DEF OldestRecent, Room!OldestRecent
<1>4. first' = [first EXCEPT ![s] = Room!OldestRecent] /\ first'[s] # 0
      /\ \A t \in Sessions \ {s} : first'[t] = first[t]
  BY <1>1, <1>3 DEF IInv, TypeOK
<1> QED
  BY <1>1, <1>2, <1>4 DEF Room!Join

(* A step of the server is a step of the abstract room or stutters.        *)
LEMMA StepRefines == IInv /\ [Next]_vars => [Room!Next]_(Room!vars)
<1> SUFFICES ASSUME IInv, [Next]_vars PROVE [Room!Next]_(Room!vars)
  OBVIOUS
<1>1. ASSUME NEW s \in Sessions, Connect(s) \/ Put(s) \/ HangUp(s) \/ AcceptFails(s)
      PROVE  UNCHANGED Room!vars
  BY <1>1 DEF Connect, Put, HangUp, AcceptFails, history, Room!vars
<1>2. ASSUME NEW s \in Sessions, Accept(s) PROVE Room!Next
  BY <1>2, AcceptJoins DEF Room!Next
<1>3. ASSUME NEW s \in Sessions, ReadHeader(s) \/ ReadFails(s) \/ WriteFails(s)
      PROVE  [Room!Next]_(Room!vars)
  <2>1. UNCHANGED <<log, first, sent>> /\ (Leave(s) \/ UNCHANGED <<participants_, last>>)
    BY <1>3 DEF ReadHeader, ReadFails, WriteFails
  <2>2. [Room!Leave(s)]_(Room!vars)
    BY <2>1, LeaveRefines DEF Room!vars
  <2> QED
    BY <2>2 DEF Room!Next
<1>4. ASSUME NEW s \in Sessions, ReadBody(s) PROVE Room!Next
  <2>1. log' = Append(log, <<s, heard[s] + 1>>) /\ UNCHANGED <<participants_, first, last, sent>>
    BY <1>4 DEF ReadBody, Deliver
  <2>2. <<s, heard[s] + 1>> \in Messages
    <3>1. /\ heard[s] \in Nat /\ put[s] \in Nat /\ put[s] <= Pieces /\ heard[s] + Len(wire[s]) <= put[s]
          /\ Len(wire[s]) \in Nat /\ Len(wire[s]) >= 1
      BY <1>4, ChatServerAssumption DEF IInv, TypeOK, PutBound, ReadBody
    <3> QED
      BY <3>1, ChatServerAssumption DEF Messages
  <2>3. Room!Speak(<<s, heard[s] + 1>>)
    BY <2>1 DEF Room!Speak
  <2> QED
    BY <2>2, <2>3 DEF Room!Next
<1>5. ASSUME NEW s \in Sessions, WriteDone(s) PROVE Room!Next
  BY <1>5, WriteDoneShows DEF Room!Next
<1>6. CASE UNCHANGED vars
  BY <1>6 DEF vars, Room!vars
<1> QED
  BY <1>1, <1>2, <1>3, <1>4, <1>5, <1>6 DEF Next, AcceptHandler, ReadHandler, WriteHandler

(* The server with its queues, its memory of the last messages and its     *)
(* handlers implements the abstract room: a newcomer is shown the last     *)
(* messages and then all that is said, none missing and none twice, and    *)
(* one that has left nothing that was said later.                          *)
THEOREM ImplementsChatRoom == Spec => RoomSpec
<1>1. Init => Room!Init
  BY DEF Init, Room!Init
<1> QED
  BY <1>1, StepRefines, Invariance, PTL DEF Spec, RoomSpec, Room!Spec

================================================================================

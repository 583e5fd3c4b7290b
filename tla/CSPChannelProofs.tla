---------------------------- MODULE CSPChannelProofs ----------------------------
(***************************************************************************)
(* Proofs about CSPChannel for any number of productors and customers, any *)
(* capacity and any number of messages.                                    *)
(***************************************************************************)
EXTENDS CSPChannel, TLAPS, FiniteSetTheorems

(* close() is the last thing a productor does.                             *)
DoneMeansClosed == (\E p \in Productors : pc[p] = "done") => closed_

(* A productor that has not left its loop has a message left to send.      *)
LoopIndex ==
  \A p \in Productors : pc[p] \in {"send", "blocked", "woken"} => index[p] <= MsgCount

(* The inductive invariant.                                                *)
IInv ==
  /\ TypeOK
  /\ FifoContents
  /\ NoLostCustomerWakeup
  /\ NoLostProductorWakeup
  /\ CustomerLeavesDrained
  /\ DoneMeansClosed
  /\ LoopIndex

--------------------------------------------------------------------------------
(* Sequences and cardinalities.                                            *)

(* Moving the front of the queue to the delivered part leaves the history. *)
LEMMA PopHistory ==
  ASSUME NEW S, NEW d \in Seq(S), NEW q \in Seq(S), q # <<>>
  PROVE  /\ d \o q = Append(d, Head(q)) \o Tail(q)
         /\ Head(q) \in S
         /\ Tail(q) \in Seq(S)
         /\ Len(Tail(q)) = Len(q) - 1
  BY SMTT(30)

(* A finite set that loses at most x keeps all but one of its elements.    *)
LEMMA LoseOne ==
  ASSUME NEW A, IsFiniteSet(A), NEW B, IsFiniteSet(B), NEW x, A \ {x} \subseteq B
  PROVE  Cardinality(B) >= Cardinality(A) - 1
<1>1. Cardinality(A) \in Nat /\ Cardinality(B) \in Nat
  BY FS_CardinalityType
<1>2. /\ IsFiniteSet(A \ {x})
      /\ Cardinality(A \ {x}) = IF x \in A THEN Cardinality(A) - 1 ELSE Cardinality(A)
  BY FS_RemoveElement
<1>3. Cardinality(A \ {x}) <= Cardinality(B)
  BY FS_Subset
<1> QED
  BY <1>1, <1>2, <1>3

(* A set with all of A and an x besides has at least one element more.     *)
LEMMA GainOne ==
  ASSUME NEW A, NEW B, IsFiniteSet(B), A \subseteq B, NEW x \in B, x \notin A
  PROVE  Cardinality(B) >= Cardinality(A) + 1
<1>1. IsFiniteSet(A)
  BY FS_Subset
<1>2. Cardinality(A) \in Nat /\ Cardinality(B) \in Nat
  BY <1>1, FS_CardinalityType
<1>3. IsFiniteSet(A \cup {x}) /\ Cardinality(A \cup {x}) = Cardinality(A) + 1
  BY <1>1, FS_AddElement
<1>4. Cardinality(A \cup {x}) <= Cardinality(B)
  BY FS_Subset
<1> QED
  BY <1>2, <1>3, <1>4

(* However pc changes, the woken threads of a kind can be counted.         *)
LEMMA WokenCounted ==
  ASSUME NEW S, IsFiniteSet(S)
  PROVE  /\ IsFiniteSet(Woken(S)) /\ Cardinality(Woken(S)) \in Nat
         /\ IsFiniteSet(Woken(S)') /\ Cardinality(Woken(S)') \in Nat
<1>1. Woken(S) \subseteq S /\ Woken(S)' \subseteq S
  BY DEF Woken
<1>2. IsFiniteSet(Woken(S)) /\ IsFiniteSet(Woken(S)')
  BY <1>1, FS_Subset
<1> QED
  BY <1>2, FS_CardinalityType

(* What notify_one does: nothing when nobody waits, and otherwise it takes *)
(* exactly one thread out of the wait set.                                 *)
LEMMA NotifyOneEffect ==
  ASSUME TypeOK, NEW S \in SUBSET Threads, NEW f \in NotifyOne(S)
  PROVE  \/ Blocked(S) = {} /\ f = pc
         \/ \E t \in Blocked(S) : f = [pc EXCEPT ![t] = "woken"]
  BY DEF NotifyOne

--------------------------------------------------------------------------------

(* The invariant holds at the start.                                       *)
LEMMA InitIInv == Init => IInv
<1> SUFFICES ASSUME Init PROVE IInv
  OBVIOUS
<1>1. TypeOK
  <2>1. /\ \A p \in Productors : pc[p] = "send"
        /\ \A c \in Customers : pc[c] = "receive"
    BY CSPChannelAssumption DEF Init, Threads
  <2>2. pc \in [Threads -> {"send", "receive"}]
    BY DEF Init
  <2>3. index \in [Productors -> 1 .. MsgCount + 1]
    BY CSPChannelAssumption DEF Init
  <2>4. <<>> \in Seq(Messages)
    OBVIOUS
  <2> QED
    BY <2>1, <2>2, <2>3, <2>4 DEF Init, TypeOK
<1>2. FifoContents
  BY CSPChannelAssumption DEF Init, FifoContents
<1>3. Blocked(Customers) = {} /\ Blocked(Productors) = {}
  BY DEF Init, Blocked, Threads
<1>4. CustomerLeavesDrained /\ DoneMeansClosed /\ LoopIndex
  BY CSPChannelAssumption DEF Init, CustomerLeavesDrained, DoneMeansClosed, LoopIndex, Threads
<1> QED
  BY <1>1, <1>2, <1>3, <1>4 DEF IInv, NoLostCustomerWakeup, NoLostProductorWakeup

(* The part of the invariant a step can only change through pc.            *)
LEMMA SameChannel ==
  ASSUME IInv, UNCHANGED <<queue_, closed_, accepted, delivered>>
  PROVE  /\ FifoContents'
         /\ (\A c \in Customers : pc'[c] = "done" => pc[c] = "done") => CustomerLeavesDrained'
         /\ (\A p \in Productors : pc'[p] = "done" => pc[p] = "done") => DoneMeansClosed'
  BY DEF IInv, FifoContents, CustomerLeavesDrained, DoneMeansClosed

(* A productor starts to wait: the queue was full when it looked.          *)
LEMMA StepSendWait ==
  ASSUME IInv, NEW p \in Productors, SendWait(p)
  PROVE  IInv'
<1> USE CSPChannelAssumption DEF SendWait
<1>1. /\ pc[p] \in {"send", "woken"} /\ pc'[p] = "blocked"
      /\ \A t \in Threads \ {p} : pc'[t] = pc[t]
  BY DEF InSend, IInv, TypeOK, Threads
<1>2. TypeOK'
  BY DEF IInv, TypeOK, Threads
<1>3. FifoContents' /\ CustomerLeavesDrained' /\ DoneMeansClosed'
  BY <1>1, SameChannel DEF Threads
<1>4. NoLostCustomerWakeup'
  <2>1. Blocked(Customers)' = Blocked(Customers) /\ Woken(Customers)' = Woken(Customers)
    BY <1>1 DEF Blocked, Woken, Threads
  <2> QED
    BY <2>1 DEF IInv, NoLostCustomerWakeup
<1>5. NoLostProductorWakeup'
  <2>1. Len(queue_) \in Nat /\ Len(queue_) >= Capacity /\ ~closed_
    BY DEF CanSend, IInv, TypeOK
  <2> QED
    BY <2>1, WokenCounted DEF NoLostProductorWakeup
<1>6. LoopIndex'
  BY <1>1 DEF IInv, LoopIndex, Threads
<1> QED
  BY <1>2, <1>3, <1>4, <1>5, <1>6 DEF IInv

(* send() returns: the types and the loop counter.                         *)
LEMMA LeaveSend ==
  ASSUME IInv, NEW p \in Productors, InSend(p),
         NEW f \in [Threads -> {"send", "receive", "blocked", "woken", "check", "close", "done"}],
         \A q \in Productors : f[q] = pc[q],
         \A c \in Customers : f[c] = pc[c] \/ f[c] = "woken",
         ReturnFromSend(p, f)
  PROVE  /\ pc' \in [Threads -> {"send", "receive", "blocked", "woken", "check", "close", "done"}]
         /\ \A q \in Productors : pc'[q] \in {"send", "blocked", "woken", "close", "done"}
         /\ \A c \in Customers : pc'[c] \in {"receive", "blocked", "woken", "check", "done"}
         /\ index' \in [Productors -> 1 .. MsgCount + 1]
         /\ LoopIndex'
         /\ pc'[p] \in {"send", "close"}
         /\ \A t \in Threads \ {p} : pc'[t] = f[t]
<1> USE CSPChannelAssumption DEF ReturnFromSend
<1>1. index[p] \in 1 .. MsgCount
  BY DEF IInv, TypeOK, LoopIndex, InSend
<1>2. pc'[p] = (IF index[p] < MsgCount THEN "send" ELSE "close")
  BY DEF Threads
<1>3. \A t \in Threads \ {p} : pc'[t] = f[t]
  OBVIOUS
<1>4. pc' \in [Threads -> {"send", "receive", "blocked", "woken", "check", "close", "done"}]
  BY DEF Threads
<1>5. /\ \A q \in Productors : pc'[q] \in {"send", "blocked", "woken", "close", "done"}
      /\ \A c \in Customers : pc'[c] \in {"receive", "blocked", "woken", "check", "done"}
  BY <1>2, <1>3 DEF IInv, TypeOK, Threads
<1>6. index' \in [Productors -> 1 .. MsgCount + 1]
  BY <1>1 DEF IInv, TypeOK
<1>7. LoopIndex'
  BY <1>1, <1>2, <1>3 DEF IInv, TypeOK, LoopIndex, Threads
<1> QED
  BY <1>2, <1>3, <1>4, <1>5, <1>6, <1>7

(* A send that finds the channel closed: no productor is waiting.          *)
LEMMA StepSendRefused ==
  ASSUME IInv, NEW p \in Productors, SendRefused(p)
  PROVE  IInv'
<1> USE CSPChannelAssumption DEF SendRefused
<1>1. /\ pc'[p] \in {"send", "close"} /\ \A t \in Threads \ {p} : pc'[t] = pc[t]
      /\ TypeOK' /\ LoopIndex'
  BY LeaveSend DEF IInv, TypeOK
<1>4. FifoContents' /\ CustomerLeavesDrained' /\ DoneMeansClosed'
  BY <1>1, SameChannel DEF Threads
<1>5. NoLostCustomerWakeup'
  <2>1. Blocked(Customers)' = Blocked(Customers) /\ Woken(Customers)' = Woken(Customers)
    BY <1>1 DEF Blocked, Woken, Threads
  <2> QED
    BY <2>1 DEF IInv, NoLostCustomerWakeup
<1>6. NoLostProductorWakeup'
  <2>1. Blocked(Productors) = {}
    BY DEF IInv, NoLostProductorWakeup
  <2>2. Blocked(Productors)' = {}
    BY <2>1, <1>1 DEF Blocked, Threads
  <2> QED
    BY <2>2 DEF NoLostProductorWakeup
<1> QED
  BY <1>1, <1>4, <1>5, <1>6 DEF IInv

(* A push lengthens the queue by one and, if a customer waits, adds one    *)
(* woken customer; the customers that keep waiting waited before.          *)
LEMMA StepSendPush ==
  ASSUME IInv, NEW p \in Productors, SendPush(p)
  PROVE  IInv'
<1> USE CSPChannelAssumption DEF SendPush
<1> DEFINE m == <<p, index[p]>>
<1>1. PICK f \in NotifyOne(Customers) : ReturnFromSend(p, f)
  OBVIOUS
<1>2. \/ Blocked(Customers) = {} /\ f = pc
      \/ \E t \in Blocked(Customers) : f = [pc EXCEPT ![t] = "woken"]
  BY NotifyOneEffect DEF IInv, Threads
<1>3. /\ f \in [Threads -> {"send", "receive", "blocked", "woken", "check", "close", "done"}]
      /\ \A q \in Productors : f[q] = pc[q]
      /\ \A c \in Customers : f[c] = pc[c] \/ f[c] = "woken"
  BY <1>2 DEF IInv, TypeOK, Blocked, Threads
<1>4. /\ pc' \in [Threads -> {"send", "receive", "blocked", "woken", "check", "close", "done"}]
      /\ \A q \in Productors : pc'[q] \in {"send", "blocked", "woken", "close", "done"}
      /\ \A c \in Customers : pc'[c] \in {"receive", "blocked", "woken", "check", "done"}
      /\ index' \in [Productors -> 1 .. MsgCount + 1]
      /\ LoopIndex'
      /\ pc'[p] \in {"send", "close"}
      /\ \A t \in Threads \ {p} : pc'[t] = f[t]
  BY <1>1, <1>3, LeaveSend
<1>5. m \in Messages
  BY DEF IInv, TypeOK, LoopIndex, InSend, Messages
<1>6. /\ queue_' \in Seq(Messages) /\ accepted' \in Seq(Messages)
      /\ Len(queue_') = Len(queue_) + 1 /\ Len(queue_) \in Nat
  BY <1>5 DEF IInv, TypeOK
<1>7. TypeOK'
  BY <1>4, <1>6 DEF IInv, TypeOK
<1>8. FifoContents'
  <2>1. /\ queue_' = Append(queue_, m) /\ delivered' = delivered
        /\ accepted' = Append(accepted, m)
    OBVIOUS
  <2>2. Append(delivered \o queue_, m) = delivered \o Append(queue_, m)
    <3>1. delivered \in Seq(Messages) /\ queue_ \in Seq(Messages)
      BY DEF IInv, TypeOK
    <3> HIDE DEF m, SendPush
    <3> QED
      BY <3>1, <1>5
  <2>3. accepted' = delivered' \o queue_'
    BY <2>1, <2>2 DEF IInv, FifoContents
  <2>4. Len(queue_) < Capacity
    BY <1>6 DEF CanSend
  <2>5. Len(queue_') <= Capacity
    BY <1>6, <2>4
  <2> QED
    BY <2>3, <2>5 DEF FifoContents
<1>9. NoLostCustomerWakeup'
  <2>1. CASE Blocked(Customers) = {}
    BY <2>1, <1>2, <1>4 DEF Blocked, Threads, NoLostCustomerWakeup
  <2>2. CASE Blocked(Customers) # {}
    <3>1. PICK t \in Blocked(Customers) : f = [pc EXCEPT ![t] = "woken"]
      BY <2>2, <1>2
    <3>2. Woken(Customers) \subseteq Woken(Customers)' /\ t \in Woken(Customers)' /\ t \notin Woken(Customers)
      BY <3>1, <1>4 DEF Blocked, Woken, IInv, TypeOK, Threads
    <3>3. Cardinality(Woken(Customers)') >= Cardinality(Woken(Customers)) + 1
      BY <3>2, GainOne, WokenCounted
    <3>4. Cardinality(Woken(Customers)) >= Len(queue_)
      BY <2>2 DEF IInv, NoLostCustomerWakeup
    <3> QED
      BY <3>3, <3>4, <1>6, WokenCounted DEF NoLostCustomerWakeup
  <2> QED
    BY <2>1, <2>2
<1>10. NoLostProductorWakeup'
  <2>1. Blocked(Productors)' = Blocked(Productors)
    BY <1>3, <1>4 DEF Blocked, InSend, Threads
  <2>2. Woken(Productors) \ {p} \subseteq Woken(Productors)'
    BY <1>3, <1>4 DEF Woken, Threads
  <2>3. Cardinality(Woken(Productors)') >= Cardinality(Woken(Productors)) - 1
    BY <2>2, LoseOne, WokenCounted
  <2> QED
    BY <2>1, <2>3, <1>6, WokenCounted DEF IInv, NoLostProductorWakeup
<1>11. CustomerLeavesDrained' /\ DoneMeansClosed'
  BY <1>3, <1>4 DEF IInv, CustomerLeavesDrained, DoneMeansClosed, Threads
<1> QED
  BY <1>4, <1>7, <1>8, <1>9, <1>10, <1>11 DEF IInv

(* close() leaves nobody in a wait set.                                    *)
LEMMA StepClose ==
  ASSUME IInv, NEW p \in Productors, Close(p)
  PROVE  IInv'
<1> USE CSPChannelAssumption DEF Close
<1>1. \A t \in Threads : pc'[t] = IF t = p THEN "done" ELSE IF pc[t] = "blocked" THEN "woken" ELSE pc[t]
  BY DEF NotifyAll, Blocked
<1>2. TypeOK'
  <2>1. pc' \in [Threads -> {"send", "receive", "blocked", "woken", "check", "close", "done"}]
    BY DEF NotifyAll, IInv, TypeOK
  <2> QED
    BY <1>1, <2>1 DEF IInv, TypeOK, Threads
<1>3. Blocked(Customers)' = {} /\ Blocked(Productors)' = {}
  BY <1>1 DEF Blocked, Threads
<1>4. NoLostCustomerWakeup' /\ NoLostProductorWakeup'
  BY <1>3 DEF NoLostCustomerWakeup, NoLostProductorWakeup
<1>5. FifoContents'
  BY DEF IInv, FifoContents
<1>6. CustomerLeavesDrained' /\ DoneMeansClosed'
  <2>1. \A c \in Customers : pc'[c] = "done" => pc[c] = "done"
    BY <1>1 DEF Threads
  <2>2. closed_' = TRUE /\ queue_' = queue_
    OBVIOUS
  <2> HIDE DEF Close
  <2> QED
    BY <2>1, <2>2 DEF IInv, CustomerLeavesDrained, DoneMeansClosed
<1>7. LoopIndex'
  BY <1>1 DEF IInv, LoopIndex, Threads
<1> QED
  BY <1>2, <1>4, <1>5, <1>6, <1>7 DEF IInv

(* A customer starts to wait: the queue was empty when it looked.          *)
LEMMA StepReceiveWait ==
  ASSUME IInv, NEW c \in Customers, ReceiveWait(c)
  PROVE  IInv'
<1> USE CSPChannelAssumption DEF ReceiveWait
<1>1. pc'[c] = "blocked" /\ \A t \in Threads \ {c} : pc'[t] = pc[t]
  BY DEF IInv, TypeOK, Threads
<1>2. TypeOK'
  BY DEF IInv, TypeOK, Threads
<1>3. FifoContents' /\ CustomerLeavesDrained' /\ DoneMeansClosed'
  BY <1>1, SameChannel DEF Threads
<1>4. NoLostCustomerWakeup'
  BY WokenCounted DEF CanReceive, NoLostCustomerWakeup
<1>5. NoLostProductorWakeup' /\ LoopIndex'
  <2>1. Blocked(Productors)' = Blocked(Productors) /\ Woken(Productors)' = Woken(Productors)
    BY <1>1 DEF Blocked, Woken, Threads
  <2> QED
    BY <1>1, <2>1 DEF IInv, NoLostProductorWakeup, LoopIndex, Threads
<1> QED
  BY <1>2, <1>3, <1>4, <1>5 DEF IInv

(* received_all_message(): a customer goes on, or leaves a drained channel. *)
LEMMA StepReceivedAllMessage ==
  ASSUME IInv, NEW c \in Customers, ReceivedAllMessage(c)
  PROVE  IInv'
<1> USE CSPChannelAssumption DEF ReceivedAllMessage
<1>1. /\ pc'[c] = (IF queue_ = <<>> /\ closed_ THEN "done" ELSE "receive")
      /\ \A t \in Threads \ {c} : pc'[t] = pc[t]
  BY DEF IInv, TypeOK, Threads
<1>2. TypeOK'
  BY DEF IInv, TypeOK, Threads
<1>3. FifoContents' /\ DoneMeansClosed' /\ LoopIndex'
  BY <1>1 DEF IInv, FifoContents, DoneMeansClosed, LoopIndex, Threads
<1>4. CustomerLeavesDrained'
  BY <1>1 DEF IInv, CustomerLeavesDrained, Threads
<1>5. NoLostCustomerWakeup' /\ NoLostProductorWakeup'
  <2>1. /\ Blocked(Productors)' = Blocked(Productors) /\ Woken(Productors)' = Woken(Productors)
        /\ Blocked(Customers)' = Blocked(Customers) /\ Woken(Customers)' = Woken(Customers)
    BY <1>1 DEF Blocked, Woken, Threads
  <2> QED
    BY <2>1 DEF IInv, NoLostCustomerWakeup, NoLostProductorWakeup
<1> QED
  BY <1>2, <1>3, <1>4, <1>5 DEF IInv

(* A receive takes one message and at most one woken customer away, and    *)
(* adds a woken productor if one waits; the IF's first branch is dead.     *)
LEMMA StepReceive ==
  ASSUME IInv, NEW c \in Customers, Receive(c)
  PROVE  IInv'
<1> USE CSPChannelAssumption
<1>1. /\ InReceive(c) /\ queue_ # <<>>
      /\ queue_' = Tail(queue_) /\ delivered' = Append(delivered, Head(queue_))
      /\ UNCHANGED <<closed_, index, accepted>>
  BY DEF Receive, CanReceive
<1>2. PICK f \in NotifyOne(Productors) : pc' = [f EXCEPT ![c] = "check"]
  BY DEF Receive, CanReceive
<1>3. \/ Blocked(Productors) = {} /\ f = pc
      \/ \E t \in Blocked(Productors) : f = [pc EXCEPT ![t] = "woken"]
  BY NotifyOneEffect DEF IInv, Threads
<1>4. /\ f \in [Threads -> {"send", "receive", "blocked", "woken", "check", "close", "done"}]
      /\ \A q \in Customers : f[q] = pc[q]
      /\ \A p \in Productors : f[p] = pc[p] \/ (pc[p] = "blocked" /\ f[p] = "woken")
  BY <1>3 DEF IInv, TypeOK, Blocked, Threads
<1>5. /\ pc' \in [Threads -> {"send", "receive", "blocked", "woken", "check", "close", "done"}]
      /\ pc'[c] = "check"
      /\ \A t \in Threads \ {c} : pc'[t] = f[t]
  BY <1>2, <1>4 DEF Threads
<1>6. /\ queue_ \in Seq(Messages) /\ delivered \in Seq(Messages)
      /\ Len(queue_) \in Nat /\ Len(queue_) <= Capacity
      /\ accepted = delivered \o queue_
  BY DEF IInv, TypeOK, FifoContents
<1>7. /\ delivered \o queue_ = Append(delivered, Head(queue_)) \o Tail(queue_)
      /\ Head(queue_) \in Messages
      /\ Tail(queue_) \in Seq(Messages)
      /\ Len(Tail(queue_)) = Len(queue_) - 1
  BY <1>1, <1>6, PopHistory, Zenon
<1>8. TypeOK'
  <2>1. queue_' \in Seq(Messages) /\ delivered' \in Seq(Messages)
    BY <1>1, <1>6, <1>7
  <2>2. /\ \A p \in Productors : pc'[p] \in {"send", "blocked", "woken", "close", "done"}
        /\ \A q \in Customers : pc'[q] \in {"receive", "blocked", "woken", "check", "done"}
    BY <1>4, <1>5 DEF IInv, TypeOK, Threads
  <2>3. closed_' \in BOOLEAN /\ accepted' \in Seq(Messages) /\ index' \in [Productors -> 1 .. MsgCount + 1]
    BY <1>1 DEF IInv, TypeOK
  <2> QED
    BY <1>5, <2>1, <2>2, <2>3 DEF TypeOK
<1>9. FifoContents'
  BY <1>1, <1>6, <1>7 DEF FifoContents
<1>10. NoLostCustomerWakeup'
  <2>1. Blocked(Customers)' = Blocked(Customers)
    BY <1>1, <1>4, <1>5 DEF Blocked, InReceive, Threads
  <2>2. Woken(Customers) \ {c} \subseteq Woken(Customers)'
    BY <1>4, <1>5 DEF Woken, Threads
  <2>3. Cardinality(Woken(Customers)') >= Cardinality(Woken(Customers)) - 1
    BY <2>2, LoseOne, WokenCounted
  <2> QED
    BY <2>1, <2>3, <1>1, <1>6, <1>7, WokenCounted DEF IInv, NoLostCustomerWakeup
<1>11. NoLostProductorWakeup'
  <2>1. CASE Blocked(Productors) = {}
    BY <2>1, <1>3, <1>5 DEF Blocked, Threads, NoLostProductorWakeup
  <2>2. CASE Blocked(Productors) # {}
    <3>1. PICK t \in Blocked(Productors) : f = [pc EXCEPT ![t] = "woken"]
      BY <2>2, <1>3
    <3>2. /\ Woken(Productors) \subseteq Woken(Productors)'
          /\ t \in Woken(Productors)' /\ t \notin Woken(Productors)
      BY <3>1, <1>5 DEF Blocked, Woken, IInv, TypeOK, Threads
    <3>3. Cardinality(Woken(Productors)') >= Cardinality(Woken(Productors)) + 1
      BY <3>2, GainOne, WokenCounted
    <3>4. ~closed_ /\ Cardinality(Woken(Productors)) + Len(queue_) >= Capacity
      BY <2>2 DEF IInv, NoLostProductorWakeup
    <3> QED
      BY <3>3, <3>4, <1>1, <1>6, <1>7, WokenCounted DEF NoLostProductorWakeup
  <2> QED
    BY <2>1, <2>2
<1>12. CustomerLeavesDrained' /\ DoneMeansClosed' /\ LoopIndex'
  <2>1. \A q \in Customers : pc[q] # "done"
    BY <1>1 DEF IInv, CustomerLeavesDrained
  <2>2. \A q \in Customers : pc'[q] # "done"
    BY <2>1, <1>4, <1>5 DEF Threads
  <2>3. \A p \in Productors : pc'[p] = pc[p] \/ (pc[p] = "blocked" /\ pc'[p] = "woken")
    BY <1>4, <1>5 DEF Threads
  <2> QED
    BY <2>2, <2>3, <1>1 DEF IInv, CustomerLeavesDrained, DoneMeansClosed, LoopIndex
<1> QED
  BY <1>8, <1>9, <1>10, <1>11, <1>12 DEF IInv

(* A spurious wake-up only adds a woken thread.                            *)
LEMMA StepSpuriousWakeup ==
  ASSUME IInv, NEW t \in Threads, SpuriousWakeup(t)
  PROVE  IInv'
<1> USE CSPChannelAssumption DEF SpuriousWakeup
<1>1. pc[t] = "blocked" /\ pc'[t] = "woken" /\ \A u \in Threads \ {t} : pc'[u] = pc[u]
  BY DEF IInv, TypeOK
<1>2. TypeOK'
  BY DEF IInv, TypeOK, Threads
<1>3. FifoContents' /\ CustomerLeavesDrained' /\ DoneMeansClosed'
  BY <1>1, SameChannel DEF Threads
<1>4. LoopIndex'
  BY <1>1 DEF IInv, LoopIndex, Threads
<1>5. ASSUME NEW S \in SUBSET Threads, IsFiniteSet(S)
      PROVE  /\ Blocked(S)' \subseteq Blocked(S)
             /\ Cardinality(Woken(S)') >= Cardinality(Woken(S))
  <2>1. Blocked(S)' \subseteq Blocked(S) /\ Woken(S) \subseteq Woken(S)'
    BY <1>1 DEF Blocked, Woken
  <2> QED
    BY <2>1, <1>5, FS_Subset, WokenCounted
<1>6. Len(queue_) \in Nat
  BY DEF IInv, TypeOK
<1>7. NoLostCustomerWakeup'
  <2>1. /\ Blocked(Customers)' \subseteq Blocked(Customers)
        /\ Cardinality(Woken(Customers)') >= Cardinality(Woken(Customers))
    BY <1>5 DEF Threads
  <2> QED
    BY <2>1, <1>6, WokenCounted DEF IInv, NoLostCustomerWakeup
<1>8. NoLostProductorWakeup'
  <2>1. /\ Blocked(Productors)' \subseteq Blocked(Productors)
        /\ Cardinality(Woken(Productors)') >= Cardinality(Woken(Productors))
    BY <1>5 DEF Threads
  <2> QED
    BY <2>1, <1>6, WokenCounted DEF IInv, NoLostProductorWakeup
<1> QED
  BY <1>2, <1>3, <1>4, <1>7, <1>8 DEF IInv

--------------------------------------------------------------------------------

(* Every reachable state satisfies the inductive invariant.                *)
THEOREM Invariance == Spec => []IInv
<1>1. IInv /\ [Next]_vars => IInv'
  <2> SUFFICES ASSUME IInv, [Next]_vars PROVE IInv'
    OBVIOUS
  <2>1. ASSUME NEW p \in Productors, Productor(p) PROVE IInv'
    BY <2>1, StepSendWait, StepSendRefused, StepSendPush, StepClose DEF Productor
  <2>2. ASSUME NEW c \in Customers, Customer(c) PROVE IInv'
    BY <2>2, StepReceiveWait, StepReceive, StepReceivedAllMessage DEF Customer
  <2>3. ASSUME NEW t \in Threads, SpuriousWakeup(t) PROVE IInv'
    BY <2>3, StepSpuriousWakeup
  <2>4. CASE UNCHANGED vars
    BY <2>4 DEF vars, IInv, TypeOK, FifoContents, NoLostCustomerWakeup,
       NoLostProductorWakeup, CustomerLeavesDrained, DoneMeansClosed, LoopIndex,
       Blocked, Woken
  <2> QED
    BY <2>1, <2>2, <2>3, <2>4 DEF Next
<1> QED
  BY InitIInv, <1>1, PTL DEF Spec

(* The types, and with them that the messages a productor names exist.     *)
THEOREM Typing == Spec => []TypeOK
  BY Invariance, PTL DEF IInv

(* The channel neither loses, repeats nor reorders, and respects capacity_. *)
THEOREM FifoContentsHolds == Spec => []FifoContents
  BY Invariance, PTL DEF IInv

(* One notify_one per message and per slot is enough for both conditions.  *)
THEOREM NoLostWakeups == Spec => []NoLostWakeup
  BY Invariance, PTL DEF IInv, NoLostWakeup

(* A customer leaves its loop only when nothing can ever be sent again.    *)
THEOREM CustomerLeavesDrainedHolds == Spec => []CustomerLeavesDrained
  BY Invariance, PTL DEF IInv

(* The threads cannot all come to rest before the productors are done and  *)
(* the queue is drained: a blocked productor would find the queue full and *)
(* no productor woken, hence a message and no customer woken, hence no     *)
(* customer blocked, hence all of them gone from a channel still open.     *)
LEMMA RestsWhenDrained == IInv => RestsOnlyWhenDrained
<1> SUFFICES ASSUME IInv, Capacity > 0, AtRest
             PROVE  /\ \A p \in Productors : pc[p] = "done"
                    /\ queue_ = <<>>
                    /\ closed_
  BY DEF RestsOnlyWhenDrained
<1> USE CSPChannelAssumption
<1>1. Woken(Customers) = {} /\ Woken(Productors) = {}
  BY DEF AtRest, Woken, Threads
<1>2. Cardinality({}) = 0
  BY FS_EmptySet
<1>3. Len(queue_) \in Nat /\ (Len(queue_) = 0 <=> queue_ = <<>>)
  BY DEF IInv, TypeOK
<1>4. queue_ = <<>>
  <2> SUFFICES ASSUME queue_ # <<>> PROVE FALSE
    OBVIOUS
  <2>1. Blocked(Customers) = {}
    BY <1>1, <1>2, <1>3 DEF IInv, NoLostCustomerWakeup
  <2>2. \A c \in Customers : pc[c] = "done"
    BY <2>1 DEF AtRest, Blocked, Threads
  <2> QED
    BY <2>2 DEF IInv, CustomerLeavesDrained
<1>5. Blocked(Productors) = {}
  BY <1>1, <1>2, <1>3, <1>4 DEF IInv, NoLostProductorWakeup
<1>6. \A p \in Productors : pc[p] = "done"
  BY <1>5 DEF AtRest, Blocked, Threads
<1> QED
  BY <1>4, <1>6 DEF IInv, DoneMeansClosed

(* No deadlock but that of customers on a closed, drained channel.         *)
THEOREM RestsOnlyWhenDrainedHolds == Spec => []RestsOnlyWhenDrained
  BY Invariance, RestsWhenDrained, PTL

--------------------------------------------------------------------------------
(* The refinement of FifoChannel.                                          *)

(* A step of the threads is a step of the abstract channel or stutters.    *)
LEMMA StepRefines == IInv /\ [Next]_vars => [Channel!Next]_(Channel!vars)
<1> SUFFICES ASSUME IInv, [Next]_vars PROVE [Channel!Next]_(Channel!vars)
  OBVIOUS
<1> USE CSPChannelAssumption
<1>1. /\ queue_ \in Seq(Messages) /\ delivered \in Seq(Messages)
      /\ Len(queue_) \in Nat /\ Len(delivered) \in Nat
      /\ accepted = delivered \o queue_
      /\ Len(accepted) = Len(delivered) + Len(queue_)
  BY DEF IInv, TypeOK, FifoContents
<1>2. ASSUME NEW p \in Productors, SendPush(p) PROVE Channel!Next
  <2>1. ~closed_ /\ Len(queue_) < Capacity
    BY <1>1, <1>2 DEF SendPush, CanSend
  <2>2. <<p, index[p]>> \in Messages
    BY <1>2 DEF SendPush, IInv, TypeOK, LoopIndex, InSend, Messages
  <2>3. Channel!Accept(<<p, index[p]>>)
    BY <1>1, <1>2, <2>1 DEF SendPush, Channel!Accept
  <2> QED
    BY <2>2, <2>3 DEF Channel!Next
<1>3. ASSUME NEW p \in Productors, Close(p) PROVE Channel!Next
  BY <1>3 DEF Close, Channel!Next, Channel!Close
<1>4. ASSUME NEW c \in Customers, Receive(c) PROVE Channel!Next
  <2>1. queue_ # <<>> /\ delivered' = Append(delivered, Head(queue_)) /\ UNCHANGED <<closed_, accepted>>
    BY <1>4 DEF Receive, CanReceive
  <2>2. Len(delivered) < Len(accepted) /\ accepted[Len(delivered) + 1] = Head(queue_)
    BY <1>1, <2>1
  <2> QED
    BY <2>1, <2>2 DEF Channel!Next, Channel!Deliver
<1>5. ASSUME NEW p \in Productors, SendWait(p) \/ SendRefused(p) PROVE UNCHANGED Channel!vars
  BY <1>5 DEF SendWait, SendRefused, Channel!vars
<1>6. ASSUME NEW c \in Customers, ReceiveWait(c) \/ ReceivedAllMessage(c) PROVE UNCHANGED Channel!vars
  BY <1>6 DEF ReceiveWait, ReceivedAllMessage, Channel!vars
<1>7. ASSUME NEW t \in Threads, SpuriousWakeup(t) PROVE UNCHANGED Channel!vars
  BY <1>7 DEF SpuriousWakeup, Channel!vars
<1>8. CASE UNCHANGED vars
  BY <1>8 DEF vars, Channel!vars
<1> QED
  BY <1>2, <1>3, <1>4, <1>5, <1>6, <1>7, <1>8 DEF Next, Productor, Customer

(* The monitor with its two condition variables implements a FIFO channel. *)
THEOREM ImplementsFifoChannel == Spec => ChannelSpec
<1>1. Init => Channel!Init
  BY DEF Init, Channel!Init
<1> QED
  BY <1>1, StepRefines, Invariance, PTL DEF Spec, ChannelSpec, Channel!Spec

================================================================================

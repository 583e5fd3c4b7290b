------------------------------- MODULE CSPChannel -------------------------------
(***************************************************************************)
(* The bounded channel of multithread/csp_customer_productor.h and the two *)
(* thread bodies of its main().                                            *)
(*                                                                         *)
(* Every member function of the class runs entirely under mtx_, and a wait *)
(* gives mtx_ up atomically with joining the condition variable, so one    *)
(* tenure of mtx_ is one action: from taking the lock (in the call, or     *)
(* again after a wake-up) to releasing it (on return, or in the wait).     *)
(*                                                                         *)
(* pc[t] is where thread t stands:                                         *)
(*   "send", "receive"   about to take mtx_ in that call                   *)
(*   "blocked"           in the wait set of its condition variable         *)
(*   "woken"             out of the wait set, about to retake mtx_         *)
(*   "check"             about to call received_all_message()              *)
(*   "close"             about to call close()                             *)
(*   "done"              the thread function has returned                  *)
(* Productors wait on cv_productor_ only and customers on cv_customer_     *)
(* only, so the wait sets are the blocked threads of each kind.            *)
(*                                                                         *)
(* main() runs one productor, one customer, Capacity 5 and MsgCount 10.    *)
(* Its sleeps and prints touch no shared state.  The destructor calls      *)
(* close() after both joins, when closed_ is already set: no step.         *)
(***************************************************************************)
EXTENDS Naturals, Sequences, FiniteSets

CONSTANTS Productors,  (* threads that run the sending loop                *)
          Customers,   (* threads that run the receiving loop              *)
          Capacity,    (* capacity_                                        *)
          MsgCount     (* how many messages each productor tries to send   *)

ASSUME CSPChannelAssumption ==
  /\ IsFiniteSet(Productors) /\ Productors # {}
  /\ IsFiniteSet(Customers) /\ Customers # {}
  /\ Productors \cap Customers = {}
  /\ Capacity \in Nat
  /\ MsgCount \in Nat \ {0}

VARIABLES queue_,
          closed_,
          pc,
          index,       (* the productor's loop counter                     *)
          accepted,    (* history: messages pushed, in order               *)
          delivered    (* history: messages handed to a customer, in order *)

vars == <<queue_, closed_, pc, index, accepted, delivered>>

Threads == Productors \cup Customers

(* A message is named by its sender and its number.                        *)
Messages == Productors \X (1 .. MsgCount)

Init ==
  /\ queue_ = <<>>
  /\ closed_ = FALSE
  /\ pc = [t \in Threads |-> IF t \in Productors THEN "send" ELSE "receive"]
  /\ index = [p \in Productors |-> 1]
  /\ accepted = <<>>
  /\ delivered = <<>>

--------------------------------------------------------------------------------
(* Condition variables.                                                    *)

Blocked(S) == {t \in S : pc[t] = "blocked"}

Woken(S) == {t \in S : pc[t] = "woken"}

(* Fault: the notification is forgotten.                                   *)
NotifyOne_Forgotten(S) == {pc}

(* The values pc may take when one thread waiting in S is notified.        *)
NotifyOne(S) ==
  IF Blocked(S) = {} THEN {pc}
  ELSE {[pc EXCEPT ![t] = "woken"] : t \in Blocked(S)}

NotifyAll(S) == [t \in Threads |-> IF t \in Blocked(S) THEN "woken" ELSE pc[t]]

(* The standard allows a wait to return with nobody having notified it.    *)
SpuriousWakeup(t) ==
  /\ pc[t] = "blocked"
  /\ pc' = [pc EXCEPT ![t] = "woken"]
  /\ UNCHANGED <<queue_, closed_, index, accepted, delivered>>

--------------------------------------------------------------------------------
(* The productor: send() in a loop, its result ignored, then close().      *)

(* Fault: one message too many.                                            *)
CanSend_OffByOne == Capacity >= Len(queue_) \/ closed_

(* The predicate send() waits for.                                         *)
CanSend == Capacity > Len(queue_) \/ closed_

InSend(p) == pc[p] \in {"send", "woken"}

(* send() returns and the loop goes on to the next message or leaves.      *)
ReturnFromSend(p, f) ==
  /\ index' = [index EXCEPT ![p] = @ + 1]
  /\ pc' = [f EXCEPT ![p] = IF index[p] < MsgCount THEN "send" ELSE "close"]

SendWait(p) ==
  /\ InSend(p)
  /\ ~CanSend
  /\ pc' = [pc EXCEPT ![p] = "blocked"]
  /\ UNCHANGED <<queue_, closed_, index, accepted, delivered>>

SendRefused(p) ==
  /\ InSend(p)
  /\ CanSend
  /\ closed_
  /\ ReturnFromSend(p, pc)
  /\ UNCHANGED <<queue_, closed_, accepted, delivered>>

(* Fault: the wrong condition variable is notified.                        *)
SendPush_WrongCv(p) ==
  /\ InSend(p)
  /\ CanSend
  /\ ~closed_
  /\ LET m == <<p, index[p]>>
     IN  /\ queue_' = Append(queue_, m)
         /\ accepted' = Append(accepted, m)
  /\ \E f \in NotifyOne(Productors) : ReturnFromSend(p, f)
  /\ UNCHANGED <<closed_, delivered>>

SendPush(p) ==
  /\ InSend(p)
  /\ CanSend
  /\ ~closed_
  /\ LET m == <<p, index[p]>>
     IN  /\ queue_' = Append(queue_, m)
         /\ accepted' = Append(accepted, m)
  /\ \E f \in NotifyOne(Customers) : ReturnFromSend(p, f)
  /\ UNCHANGED <<closed_, delivered>>

Close(p) ==
  /\ pc[p] = "close"
  /\ closed_' = TRUE
  /\ pc' = [NotifyAll(Threads) EXCEPT ![p] = "done"]
  /\ UNCHANGED <<queue_, index, accepted, delivered>>

--------------------------------------------------------------------------------
(* The customer: while (receive(value)) { ... if (received_all_message())  *)
(* break; }                                                                *)

(* The predicate receive() waits for.  "closed_" is commented out of it.   *)
CanReceive == queue_ # <<>>

InReceive(c) == pc[c] \in {"receive", "woken"}

ReceiveWait(c) ==
  /\ InReceive(c)
  /\ ~CanReceive
  /\ pc' = [pc EXCEPT ![c] = "blocked"]
  /\ UNCHANGED <<queue_, closed_, index, accepted, delivered>>

(* The IF is receive()'s test after the wait; with this predicate its      *)
(* first branch, which ends the customer's loop, is never taken.           *)
Receive(c) ==
  /\ InReceive(c)
  /\ CanReceive
  /\ IF queue_ = <<>> /\ closed_
     THEN /\ pc' = [pc EXCEPT ![c] = "done"]
          /\ UNCHANGED <<queue_, delivered>>
     ELSE /\ queue_' = Tail(queue_)
          /\ delivered' = Append(delivered, Head(queue_))
          /\ \E f \in NotifyOne(Productors) : pc' = [f EXCEPT ![c] = "check"]
  /\ UNCHANGED <<closed_, index, accepted>>

(* Fault: the queue is not looked at.                                      *)
ReceivedAllMessage_ClosedOnly(c) ==
  /\ pc[c] = "check"
  /\ pc' = [pc EXCEPT ![c] = IF closed_ THEN "done" ELSE "receive"]
  /\ UNCHANGED <<queue_, closed_, index, accepted, delivered>>

ReceivedAllMessage(c) ==
  /\ pc[c] = "check"
  /\ pc' = [pc EXCEPT ![c] = IF queue_ = <<>> /\ closed_ THEN "done" ELSE "receive"]
  /\ UNCHANGED <<queue_, closed_, index, accepted, delivered>>

--------------------------------------------------------------------------------

Productor(p) == SendWait(p) \/ SendRefused(p) \/ SendPush(p) \/ Close(p)

Customer(c) == ReceiveWait(c) \/ Receive(c) \/ ReceivedAllMessage(c)

Next ==
  \/ \E p \in Productors : Productor(p)
  \/ \E c \in Customers : Customer(c)
  \/ \E t \in Threads : SpuriousWakeup(t)

Spec == Init /\ [][Next]_vars

(* A thread that can take mtx_ eventually does: every other thread takes   *)
(* it finitely often before it waits or ends.  Spurious wake-ups are not   *)
(* promised by anybody.                                                    *)
FairSpec ==
  /\ Spec
  /\ \A p \in Productors : WF_vars(Productor(p))
  /\ \A c \in Customers : WF_vars(Customer(c))

--------------------------------------------------------------------------------
(* Properties.                                                             *)

TypeOK ==
  /\ queue_ \in Seq(Messages)
  /\ closed_ \in BOOLEAN
  /\ pc \in [Threads -> {"send", "receive", "blocked", "woken", "check", "close", "done"}]
  /\ \A p \in Productors : pc[p] \in {"send", "blocked", "woken", "close", "done"}
  /\ \A c \in Customers : pc[c] \in {"receive", "blocked", "woken", "check", "done"}
  /\ index \in [Productors -> 1 .. MsgCount + 1]
  /\ accepted \in Seq(Messages)
  /\ delivered \in Seq(Messages)

(* Nothing is lost, invented, repeated or reordered inside the channel:    *)
(* what was pushed is what was delivered followed by what is queued, and   *)
(* the queue never exceeds capacity_.                                      *)
FifoContents ==
  /\ accepted = delivered \o queue_
  /\ Len(queue_) <= Capacity

(* No wake-up of a customer is lost: while customers sleep on              *)
(* cv_customer_, at least as many others have been woken and have yet to   *)
(* look as there are messages to take, although send() notifies just one.  *)
NoLostCustomerWakeup ==
  Blocked(Customers) # {} => Cardinality(Woken(Customers)) >= Len(queue_)

(* The same for productors and free slots, until close() frees them all.   *)
NoLostProductorWakeup ==
  Blocked(Productors) # {} =>
    /\ ~closed_
    /\ Cardinality(Woken(Productors)) + Len(queue_) >= Capacity

(* One notify_one per message and per slot is enough for both conditions.  *)
NoLostWakeup == NoLostCustomerWakeup /\ NoLostProductorWakeup

(* The only way the threads can all come to rest with work unfinished is   *)
(* customers asleep on a closed, drained channel: productors always finish *)
(* (given room for one message) and no message is left behind.             *)
AtRest == \A t \in Threads : pc[t] \in {"blocked", "done"}

RestsOnlyWhenDrained ==
  Capacity > 0 /\ AtRest =>
    /\ \A p \in Productors : pc[p] = "done"
    /\ queue_ = <<>>
    /\ closed_

(* A customer leaves its loop only when the channel is closed and empty,   *)
(* so no message can ever be sent to a channel nobody reads.               *)
CustomerLeavesDrained ==
  (\E c \in Customers : pc[c] = "done") => closed_ /\ queue_ = <<>>

(* Behind the locks and the wait sets the channel is a FIFO channel.       *)
Channel == INSTANCE FifoChannel WITH closed <- closed_

ChannelSpec == Channel!Spec
ChannelFairSpec == Channel!FairSpec

(* main() joins the customer: every customer's loop comes to an end.       *)
CustomersFinish == \A c \in Customers : <>(pc[c] = "done")

================================================================================

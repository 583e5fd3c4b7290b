----------------------------- MODULE ThreadSafeStack -----------------------------
(***************************************************************************)
(* The stack of multithread/thread_safe_stack.h and the thread bodies of   *)
(* its main().                                                             *)
(*                                                                         *)
(* Every member function runs entirely under mtx_, notify_one() included,  *)
(* so one tenure of mtx_ is one action.  pc[t] says which call t is about  *)
(* to make ("push", "wait", "ask" for empty(), "poll" for pop() or         *)
(* try_pop()), or that it is in the wait set ("blocked"), out of it but    *)
(* without mtx_ ("woken"), or at its end ("done").                         *)
(*                                                                         *)
(* main() has one producer of 30 values and one consumer.  Pollers stand   *)
(* for clients of pop() and try_pop(), which no thread of main() calls.    *)
(* The constants are those of ThreadSafeQueue, with its assumptions.  The  *)
(* copy constructor cannot be used (it locks a mutex of a const object).   *)
(***************************************************************************)
EXTENDS Naturals, Sequences, FiniteSets

CONSTANTS Producers,   (* threads that run t_push's loop                   *)
          Consumers,   (* threads that run t_pop's loop                    *)
          Pollers,     (* threads that call pop() or try_pop()             *)
          MsgCount,    (* how many values each producer pushes             *)
          PollCount    (* how many calls each poller makes                 *)

VARIABLES data_,     (* the bottom of the stack first                      *)
          pc,
          calls,     (* completed pushes of a producer, polls of a poller  *)
          pushed,    (* history: the values pushed, in order               *)
          popped     (* history: the values popped, in order               *)

vars == <<data_, pc, calls, pushed, popped>>

Threads == Producers \cup Consumers \cup Pollers

(* A value is named by its producer and its number.                        *)
Messages == Producers \X (1 .. MsgCount)

Init ==
  /\ data_ = <<>>
  /\ pc = [t \in Threads |-> IF t \in Producers THEN "push"
                             ELSE IF t \in Consumers THEN "wait" ELSE "poll"]
  /\ calls = [t \in Producers \cup Pollers |-> 0]
  /\ pushed = <<>>
  /\ popped = <<>>

Blocked == {c \in Consumers : pc[c] = "blocked"}

Woken == {c \in Consumers : pc[c] = "woken"}

--------------------------------------------------------------------------------

(* Fault: a notification is given only when the stack was empty before.    *)
Notify_WhenEmpty == IF Blocked = {} \/ data_ # <<>> THEN {pc}
                    ELSE {[pc EXCEPT ![c] = "woken"] : c \in Blocked}

(* notify_one(): the values pc may take.                                   *)
Notify == IF Blocked = {} THEN {pc} ELSE {[pc EXCEPT ![c] = "woken"] : c \in Blocked}

Push(p) ==
  /\ pc[p] = "push"
  /\ LET v == <<p, calls[p] + 1>>
     IN  /\ data_' = Append(data_, v)
         /\ pushed' = Append(pushed, v)
  /\ calls' = [calls EXCEPT ![p] = @ + 1]
  /\ \E f \in Notify :
       pc' = [f EXCEPT ![p] = IF calls[p] + 1 < MsgCount THEN "push" ELSE "done"]
  /\ UNCHANGED popped

(* Fault: the value is read, but not taken off.                            *)
TakeTop_Keeps ==
  /\ data_ # <<>>
  /\ popped' = Append(popped, data_[Len(data_)])
  /\ UNCHANGED <<data_, pushed>>

(* data_.top() and data_.pop().                                            *)
TakeTop ==
  /\ data_ # <<>>
  /\ popped' = Append(popped, data_[Len(data_)])
  /\ data_' = SubSeq(data_, 1, Len(data_) - 1)
  /\ UNCHANGED pushed

(* wait_and_pop()                                                          *)
InWait(c) == pc[c] \in {"wait", "woken"}

WaitSleep(c) ==
  /\ InWait(c)
  /\ data_ = <<>>
  /\ pc' = [pc EXCEPT ![c] = "blocked"]
  /\ UNCHANGED <<data_, calls, pushed, popped>>

WaitPop(c) ==
  /\ InWait(c)
  /\ TakeTop
  /\ pc' = [pc EXCEPT ![c] = "ask"]
  /\ UNCHANGED calls

SpuriousWakeup(c) ==
  /\ pc[c] = "blocked"
  /\ pc' = [pc EXCEPT ![c] = "woken"]
  /\ UNCHANGED <<data_, calls, pushed, popped>>

(* empty(), and the consumer's loop.                                       *)
Empty(c) ==
  /\ pc[c] = "ask"
  /\ pc' = [pc EXCEPT ![c] = IF data_ = <<>> THEN "done" ELSE "wait"]
  /\ UNCHANGED <<data_, calls, pushed, popped>>

(* pop(), which throws on an empty stack, and try_pop(), which returns     *)
(* nullopt.                                                                *)
Poll(r) ==
  /\ pc[r] = "poll"
  /\ \/ TakeTop
     \/ data_ = <<>> /\ UNCHANGED <<data_, pushed, popped>>
  /\ calls' = [calls EXCEPT ![r] = @ + 1]
  /\ pc' = [pc EXCEPT ![r] = IF calls[r] + 1 < PollCount THEN "poll" ELSE "done"]

--------------------------------------------------------------------------------

Consumer(c) == WaitSleep(c) \/ WaitPop(c) \/ Empty(c)

Next ==
  \/ \E p \in Producers : Push(p)
  \/ \E c \in Consumers : Consumer(c) \/ SpuriousWakeup(c)
  \/ \E r \in Pollers : Poll(r)

Spec == Init /\ [][Next]_vars

--------------------------------------------------------------------------------
(* Properties.                                                             *)

TypeOK ==
  /\ data_ \in Seq(Messages)
  /\ pc \in [Threads -> {"push", "wait", "blocked", "woken", "ask", "poll", "done"}]
  /\ \A p \in Producers : calls[p] \in 0 .. MsgCount
  /\ \A r \in Pollers : calls[r] \in 0 .. PollCount
  /\ pushed \in Seq(Messages)
  /\ popped \in Seq(Messages)

Values(s) == {s[i] : i \in DOMAIN s}

(* Whoever pops, by whichever call, every value pushed is on the stack or  *)
(* was handed out, never both and never twice.                             *)
NothingLostOrTwice ==
  /\ Values(data_) \cup Values(popped) = Values(pushed)
  /\ Len(data_) + Len(popped) = Len(pushed)
  /\ Cardinality(Values(pushed)) = Len(pushed)

(* The types, and one place for each value.                               *)
StackConsistent == TypeOK /\ NothingLostOrTwice

(* No wake-up is lost: while consumers sleep, at least as many are awake   *)
(* and yet to look as there are values to pop.  (Unlike the queue's, this  *)
(* wait and these notifications share one mutex.)                          *)
StackNoLostWakeup ==
  Blocked # {} => Cardinality(Woken) >= Len(data_)

================================================================================

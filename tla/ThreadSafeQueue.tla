----------------------------- MODULE ThreadSafeQueue -----------------------------
(***************************************************************************)
(* The linked queue of multithread/thread_safe_queue.h, whose two ends are *)
(* guarded by two mutexes, and the thread bodies of its main().            *)
(*                                                                         *)
(* push() works under tail_mtx_ alone, the popping calls under head_mtx_,  *)
(* taking tail_mtx_ inside it for the moment get_tail() needs.  A step is  *)
(* what a thread does between two points where another thread may see a    *)
(* difference; get_tail(), and the second lock of empty(), take and give   *)
(* back tail_mtx_ in one step, which asks only that the mutex be free.     *)
(*                                                                         *)
(* A node is named by its place in the order of allocation (none is ever   *)
(* freed): data and next_node hold the fields of all of them, Wild where   *)
(* "new Node" has left a field uninitialised.  Node 1 is the constructor's. *)
(*                                                                         *)
(* pc[t], by the call thread t is in:                                      *)
(*   push()           "push" (to lock tail_mtx_), then under it "link",    *)
(*                    "fill", "advance", "notify"                          *)
(*   wait_and_pop()   "wait" (to lock head_mtx_), then under it "test" and *)
(*                    "sleep" or "take"; "blocked" in the wait set, with   *)
(*                    head_mtx_ given up; "woken", to lock it again        *)
(*   pop(), try_pop() "poll" (to lock head_mtx_), under it "look", "take"  *)
(*   empty()          "ask" (to lock head_mtx_), under it "compare"        *)
(* and "done" when the thread function has returned.                       *)
(*                                                                         *)
(* main() has one producer of 30 values and one consumer.  No thread of it *)
(* calls pop() or try_pop(); pollers, each for a bounded number of calls,  *)
(* stand for clients that do.                                              *)
(***************************************************************************)
EXTENDS Naturals, Sequences, FiniteSets

CONSTANTS Producers,   (* threads that run t_push's loop                   *)
          Consumers,   (* threads that run t_pop's loop                    *)
          Pollers,     (* threads that call pop() or try_pop()             *)
          MsgCount,    (* how many values each producer pushes             *)
          PollCount,   (* how many calls each poller makes                 *)
          Wild,        (* an uninitialised value                           *)
          Free         (* the owner of a mutex nobody holds                *)

Threads == Producers \cup Consumers \cup Pollers

ASSUME ThreadSafeQueueAssumption ==
  /\ Producers \cap Consumers = {}
  /\ Producers \cap Pollers = {}
  /\ Consumers \cap Pollers = {}
  /\ IsFiniteSet(Consumers)
  /\ MsgCount \in Nat \ {0}
  /\ PollCount \in Nat \ {0}
  /\ Free \notin Threads
  /\ Wild \notin Nat
  /\ Wild \notin Producers \X (1 .. MsgCount)

VARIABLES data, next_node, head_node_, tail_node_, head_mtx_, tail_mtx_,
          pc,
          calls,      (* completed pushes of a producer, polls of a poller *)
          pushed,     (* history: the values pushed, in order              *)
          popped      (* history: the values popped, in order              *)

vars == <<data, next_node, head_node_, tail_node_, head_mtx_, tail_mtx_, pc,
          calls, pushed, popped>>

list == <<data, next_node, head_node_, tail_node_>>

(* A value is named by its producer and its number.                        *)
Messages == Producers \X (1 .. MsgCount)

Start(t) == IF t \in Producers THEN "push" ELSE IF t \in Consumers THEN "wait" ELSE "poll"

Init ==
  /\ data = <<Wild>>
  /\ next_node = <<Wild>>
  /\ head_node_ = 1
  /\ tail_node_ = 1
  /\ head_mtx_ = Free
  /\ tail_mtx_ = Free
  /\ pc = [t \in Threads |-> Start(t)]
  /\ calls = [t \in Producers \cup Pollers |-> 0]
  /\ pushed = <<>>
  /\ popped = <<>>

Goto(t, label) == pc' = [pc EXCEPT ![t] = label]

--------------------------------------------------------------------------------
(* push()                                                                  *)

(* Fault: tail_mtx_ is not taken.                                          *)
PushLock_Unguarded(p) ==
  /\ pc[p] = "push"
  /\ Goto(p, "link")
  /\ UNCHANGED <<list, head_mtx_, tail_mtx_, calls, pushed, popped>>

PushLock(p) ==
  /\ pc[p] = "push"
  /\ tail_mtx_ = Free
  /\ tail_mtx_' = p
  /\ Goto(p, "link")
  /\ UNCHANGED <<list, head_mtx_, calls, pushed, popped>>

PushLink(p) ==
  /\ pc[p] = "link"
  /\ data' = Append(data, Wild)
  /\ next_node' = Append([next_node EXCEPT ![tail_node_] = Len(data) + 1], Wild)
  /\ Goto(p, "fill")
  /\ UNCHANGED <<head_node_, tail_node_, head_mtx_, tail_mtx_, calls, pushed, popped>>

PushFill(p) ==
  /\ pc[p] = "fill"
  /\ data' = [data EXCEPT ![next_node[tail_node_]] = <<p, calls[p] + 1>>]
  /\ Goto(p, "advance")
  /\ UNCHANGED <<next_node, head_node_, tail_node_, head_mtx_, tail_mtx_, calls, pushed, popped>>

(* From here on the value can be popped.                                   *)
PushAdvance(p) ==
  /\ pc[p] = "advance"
  /\ tail_node_' = next_node[tail_node_]
  /\ pushed' = Append(pushed, <<p, calls[p] + 1>>)
  /\ Goto(p, "notify")
  /\ UNCHANGED <<data, next_node, head_node_, head_mtx_, tail_mtx_, calls, popped>>

Blocked == {c \in Consumers : pc[c] = "blocked"}

(* Fault: nobody is notified.                                              *)
PushNotify_Forgotten(p) ==
  /\ pc[p] = "notify"
  /\ tail_mtx_' = Free
  /\ calls' = [calls EXCEPT ![p] = @ + 1]
  /\ Goto(p, IF calls[p] + 1 < MsgCount THEN "push" ELSE "done")
  /\ UNCHANGED <<list, head_mtx_, pushed, popped>>

(* notify_one(), the end of push(), and the producer's loop.               *)
PushNotify(p) ==
  /\ pc[p] = "notify"
  /\ tail_mtx_' = Free
  /\ calls' = [calls EXCEPT ![p] = @ + 1]
  /\ LET next == IF calls[p] + 1 < MsgCount THEN "push" ELSE "done"
     IN  IF Blocked = {} THEN Goto(p, next)
         ELSE \E c \in Blocked : pc' = [pc EXCEPT ![p] = next, ![c] = "woken"]
  /\ UNCHANGED <<list, head_mtx_, pushed, popped>>

--------------------------------------------------------------------------------
(* The calls that pop.                                                     *)

LockHead(t, from, to) ==
  /\ pc[t] = from
  /\ head_mtx_ = Free
  /\ head_mtx_' = t
  /\ Goto(t, to)
  /\ UNCHANGED <<list, tail_mtx_, calls, pushed, popped>>

(* Fault: empty(), which locks head_mtx_ again, instead of get_tail().     *)
SeesEmpty_ThroughEmpty(t) == head_mtx_ = Free /\ tail_mtx_ = Free /\ head_node_ = tail_node_

(* head_node_ == get_tail(), with head_mtx_ held.                          *)
SeesEmpty(t) == tail_mtx_ = Free /\ head_node_ = tail_node_

(* Fault: the emptiness is not tested.                                     *)
SeesNode_Unchecked(t) == tail_mtx_ = Free

SeesNode(t) == tail_mtx_ = Free /\ head_node_ # tail_node_

WaitLock(c) == LockHead(c, "wait", "test") \/ LockHead(c, "woken", "test")

WaitTest(c) ==
  /\ pc[c] = "test"
  /\ \/ SeesEmpty(c) /\ Goto(c, "sleep")
     \/ SeesNode(c) /\ Goto(c, "take")
  /\ UNCHANGED <<list, head_mtx_, tail_mtx_, calls, pushed, popped>>

(* cv_.wait gives up head_mtx_ and joins the wait set at once.             *)
WaitSleep(c) ==
  /\ pc[c] = "sleep"
  /\ head_mtx_' = Free
  /\ Goto(c, "blocked")
  /\ UNCHANGED <<list, tail_mtx_, calls, pushed, popped>>

SpuriousWakeup(c) ==
  /\ pc[c] = "blocked"
  /\ Goto(c, "woken")
  /\ UNCHANGED <<list, head_mtx_, tail_mtx_, calls, pushed, popped>>

(* What a thread does after popping, or finding nothing to pop.            *)
EndOfPoll(t) ==
  /\ calls' = [calls EXCEPT ![t] = @ + 1]
  /\ Goto(t, IF calls[t] + 1 < PollCount THEN "poll" ELSE "done")

Take(t) ==
  /\ pc[t] = "take"
  /\ popped' = Append(popped, data[head_node_])
  /\ head_node_' = next_node[head_node_]
  /\ head_mtx_' = Free
  /\ IF t \in Consumers THEN Goto(t, "ask") /\ UNCHANGED calls ELSE EndOfPoll(t)
  /\ UNCHANGED <<data, next_node, tail_node_, tail_mtx_, pushed>>

PollLock(r) == LockHead(r, "poll", "look")

(* pop() throws and try_pop() returns nullopt on an empty queue.           *)
PollEmpty(r) ==
  /\ pc[r] = "look"
  /\ SeesEmpty(r)
  /\ head_mtx_' = Free
  /\ EndOfPoll(r)
  /\ UNCHANGED <<list, tail_mtx_, pushed, popped>>

(* Fault: head_mtx_ is given up before the node is taken off.              *)
PollNode_Unlocks(r) ==
  /\ pc[r] = "look"
  /\ SeesNode(r)
  /\ head_mtx_' = Free
  /\ Goto(r, "take")
  /\ UNCHANGED <<list, tail_mtx_, calls, pushed, popped>>

PollNode(r) ==
  /\ pc[r] = "look"
  /\ SeesNode(r)
  /\ Goto(r, "take")
  /\ UNCHANGED <<list, head_mtx_, tail_mtx_, calls, pushed, popped>>

(* empty(), and the consumer's loop.                                       *)
EmptyLock(c) == LockHead(c, "ask", "compare")

EmptyCompare(c) ==
  /\ pc[c] = "compare"
  /\ \/ SeesEmpty(c) /\ Goto(c, "done")
     \/ SeesNode(c) /\ Goto(c, "wait")
  /\ head_mtx_' = Free
  /\ UNCHANGED <<list, tail_mtx_, calls, pushed, popped>>

--------------------------------------------------------------------------------

Producer(p) == PushLock(p) \/ PushLink(p) \/ PushFill(p) \/ PushAdvance(p) \/ PushNotify(p)

Consumer(c) ==
  WaitLock(c) \/ WaitTest(c) \/ WaitSleep(c) \/ Take(c) \/ EmptyLock(c) \/ EmptyCompare(c)

Poller(r) == PollLock(r) \/ PollEmpty(r) \/ PollNode(r) \/ Take(r)

Next ==
  \/ \E p \in Producers : Producer(p)
  \/ \E c \in Consumers : Consumer(c) \/ SpuriousWakeup(c)
  \/ \E r \in Pollers : Poller(r)

Spec == Init /\ [][Next]_vars

(* Every thread keeps running when it can.  Spurious wake-ups are not      *)
(* promised.                                                               *)
FairSpec ==
  /\ Spec
  /\ \A p \in Producers : WF_vars(Producer(p))
  /\ \A c \in Consumers : WF_vars(Consumer(c))
  /\ \A r \in Pollers : WF_vars(Poller(r))

--------------------------------------------------------------------------------
(* Properties.                                                             *)

Nodes == 1 .. Len(data)

TypeOK ==
  /\ data \in Seq(Messages \cup {Wild})
  /\ next_node \in Seq(Nat \cup {Wild})
  /\ Len(next_node) = Len(data)
  /\ head_node_ \in Nodes
  /\ tail_node_ \in Nodes
  /\ head_mtx_ \in Threads \cup {Free}
  /\ tail_mtx_ \in Producers \cup {Free}
  /\ pc \in [Threads -> {"push", "link", "fill", "advance", "notify", "wait", "test", "sleep",
                         "blocked", "woken", "take", "ask", "compare", "poll", "look", "done"}]
  /\ calls \in [Producers \cup Pollers -> Nat]
  /\ pushed \in Seq(Messages)
  /\ popped \in Seq(Messages \cup {Wild})

(* The queue is in order but one behind, as the comment over main() admits: *)
(* the first pop yields the uninitialised data of the constructor's node,  *)
(* every later one the value pushed just before the one it should, and the *)
(* last value pushed is never handed out.                                  *)
OneBehind ==
  /\ Len(popped) <= Len(pushed)
  /\ \A i \in 1 .. Len(popped) : popped[i] = IF i = 1 THEN Wild ELSE pushed[i - 1]

(* However pushes and pops interleave, the nodes from head_node_ to        *)
(* tail_node_ form one chain that holds exactly the values pushed and not  *)
(* yet passed over, so no pointer a pop follows is uninitialised.          *)
ListIntact ==
  /\ head_node_ <= tail_node_
  /\ tail_node_ = Len(pushed) + 1
  /\ head_node_ = Len(popped) + 1
  /\ \A n \in 1 .. Len(pushed) : next_node[n] = n + 1 /\ data[n + 1] = pushed[n]

(* Two mutexes suffice: a pushing thread never writes a field that a       *)
(* popping thread, which holds the other mutex, is about to read, nor do   *)
(* two pops or two pushes work on the list at once.                        *)
Writing(p) == pc[p] \in {"link", "fill", "advance"}

Reading(t) == pc[t] = "take"

EndsApart ==
  /\ \A p \in Producers, t \in Threads : Reading(t) =>
       /\ pc[p] = "link" => head_node_ # tail_node_
       /\ pc[p] = "fill" => head_node_ # next_node[tail_node_]
  /\ \A p, q \in Producers : Writing(p) /\ Writing(q) => p = q
  /\ \A t, u \in Threads : Reading(t) /\ Reading(u) => t = u

(* Nested locks, an exception thrown under a lock and a wait that gives    *)
(* one up: whatever the threads do, some thread can go on until all have   *)
(* returned or sleep in cv_.                                               *)
AtRest == \A t \in Threads : pc[t] \in {"blocked", "done"}

NoDeadlock ==
  \/ AtRest
  \/ \E p \in Producers : ENABLED Producer(p)
  \/ \E c \in Consumers : ENABLED Consumer(c)
  \/ \E r \in Pollers : ENABLED Poller(r)

(* A notification may come while the consumer is between its test and its  *)
(* wait and be lost, but the next push makes good for it: the only sleeper *)
(* does not sleep on while a producer has values to push.                  *)
NextPushWakes ==
  \A c \in Consumers, p \in Producers :
    Blocked = {c} /\ pc[p] # "done" ~> Blocked # {c}

(* wait_and_pop() waits for a node to pop, and for nothing else: when all  *)
(* has come to rest, a consumer still asleep has an empty queue.           *)
SleepsOnEmptyOnly ==
  AtRest /\ Blocked # {} => head_node_ = tail_node_

================================================================================

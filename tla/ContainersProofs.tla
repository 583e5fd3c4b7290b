----------------------------- MODULE ContainersProofs -----------------------------
(***************************************************************************)
(* Proofs about ThreadSafeQueue and ThreadSafeStack for any producers,     *)
(* consumers and pollers, and any numbers of calls.  The stack is the one  *)
(* of MCContainers, with variables of its own.                             *)
(***************************************************************************)
EXTENDS MCContainers, TLAPS, SequenceTheorems, FunctionTheorems, FiniteSetTheorems

--------------------------------------------------------------------------------
(* The queue.                                                              *)

(* Which thread may be where.                                              *)
Roles ==
  /\ \A p \in Producers : pc[p] \in {"push", "link", "fill", "advance", "notify", "done"}
  /\ \A c \in Consumers : pc[c] \in {"wait", "test", "sleep", "blocked", "woken", "take", "ask", "compare", "done"}
  /\ \A r \in Pollers : pc[r] \in {"poll", "look", "take", "done"}

UnderHead == {"test", "sleep", "take", "look", "compare"}

UnderTail == {"link", "fill", "advance", "notify"}

(* A mutex is owned by the thread whose pc says so.                        *)
Owners ==
  /\ \A t \in Threads : pc[t] \in UnderHead <=> head_mtx_ = t
  /\ \A t \in Threads : pc[t] \in UnderTail <=> tail_mtx_ = t

(* How far the push in progress, if there is one, has got.                 *)
PushInProgress ==
  /\ data[1] = Wild
  /\ Len(data) = tail_node_ + (IF \E p \in Producers : pc[p] \in {"fill", "advance"} THEN 1 ELSE 0)
  /\ \A p \in Producers : pc[p] \in {"fill", "advance"} => next_node[tail_node_] = tail_node_ + 1
  /\ \A p \in Producers : pc[p] = "advance" => data[tail_node_ + 1] = <<p, calls[p] + 1>>
  /\ \A p \in Producers : pc[p] # "done" => calls[p] < MsgCount

(* Whoever is about to take a node has seen one, and it is still there.    *)
TakeHasNode == \A t \in Threads : pc[t] = "take" => head_node_ # tail_node_

(* The inductive invariant; EndsApart follows from it.                     *)
IInv ==
  /\ TypeOK
  /\ OneBehind
  /\ ListIntact
  /\ Roles
  /\ Owners
  /\ PushInProgress
  /\ TakeHasNode

--------------------------------------------------------------------------------

(* The two mutexes keep reads and writes of a node apart.                  *)
LEMMA Apart == IInv => EndsApart
<1> SUFFICES ASSUME IInv PROVE EndsApart
  OBVIOUS
<1>1. ASSUME NEW p \in Producers, NEW t \in Threads, Reading(t)
      PROVE  /\ pc[p] = "link" => head_node_ # tail_node_
             /\ pc[p] = "fill" => head_node_ # next_node[tail_node_]
  BY <1>1 DEF Reading, IInv, TakeHasNode, ListIntact, PushInProgress, TypeOK, Nodes
<1>2. ASSUME NEW p \in Producers, NEW q \in Producers, Writing(p), Writing(q)
      PROVE  p = q
  BY <1>2 DEF Writing, IInv, Owners, UnderTail, Threads
<1>3. ASSUME NEW t \in Threads, NEW u \in Threads, Reading(t), Reading(u)
      PROVE  t = u
  BY <1>3 DEF Reading, IInv, Owners, UnderHead
<1> QED
  BY <1>1, <1>2, <1>3 DEF EndsApart

(* The invariant holds at the start.                                       *)
LEMMA InitIInv == Init => IInv
<1> SUFFICES ASSUME Init PROVE IInv
  OBVIOUS
<1>1. /\ data = <<Wild>> /\ next_node = <<Wild>>
      /\ head_node_ = 1 /\ tail_node_ = 1
      /\ head_mtx_ = Free /\ tail_mtx_ = Free
      /\ pc = [t \in Threads |-> Start(t)]
      /\ calls = [t \in Producers \cup Pollers |-> 0]
      /\ pushed = <<>> /\ popped = <<>>
  BY DEF Init
<1>2. Len(data) = 1 /\ data[1] = Wild /\ data \in Seq(Messages \cup {Wild})
  BY <1>1
<1>3. Len(next_node) = 1 /\ next_node \in Seq(Nat \cup {Wild})
  BY <1>1
<1>4. /\ \A p \in Producers : pc[p] = "push"
      /\ \A c \in Consumers : pc[c] = "wait"
      /\ \A r \in Pollers : pc[r] = "poll"
  BY <1>1, ThreadSafeQueueAssumption DEF Threads, Start
<1>5. \A p \in Producers : calls[p] = 0
  BY <1>1
<1>6. pushed \in Seq(Messages) /\ popped \in Seq(Messages \cup {Wild}) /\ Len(pushed) = 0 /\ Len(popped) = 0
  BY <1>1
<1>7. TypeOK
  <2>1. pc \in [Threads -> {"push", "wait", "poll"}]
    BY <1>1 DEF Start
  <2>2. calls \in [Producers \cup Pollers -> Nat]
    BY <1>1
  <2>3. head_node_ \in Nodes /\ tail_node_ \in Nodes
    BY <1>1, <1>2 DEF Nodes
  <2>4. pc \in [Threads -> {"push", "link", "fill", "advance", "notify", "wait", "test", "sleep",
                            "blocked", "woken", "take", "ask", "compare", "poll", "look", "done"}]
    BY <2>1
  <2> QED
    BY <1>1, <1>2, <1>3, <1>6, <2>2, <2>3, <2>4 DEF TypeOK
<1>8. OneBehind /\ ListIntact
  BY <1>1, <1>6 DEF OneBehind, ListIntact
<1>9. Roles /\ TakeHasNode
  BY <1>4 DEF Roles, TakeHasNode, Threads
<1>10. Owners
  <2> SUFFICES ASSUME NEW t \in Threads
               PROVE  pc[t] \notin UnderHead \cup UnderTail /\ head_mtx_ # t /\ tail_mtx_ # t
    BY DEF Owners
  <2>1. pc[t] \in {"push", "wait", "poll"}
    BY <1>4 DEF Threads
  <2>2. t # Free
    BY ThreadSafeQueueAssumption
  <2> QED
    BY <1>1, <2>1, <2>2 DEF UnderHead, UnderTail
<1>11. PushInProgress
  <2>1. ~ \E p \in Producers : pc[p] \in {"fill", "advance"}
    BY <1>4
  <2>2. \A p \in Producers : pc[p] # "fill" /\ pc[p] # "advance"
    BY <1>4
  <2>3. Len(data) = tail_node_ + (IF \E p \in Producers : pc[p] \in {"fill", "advance"} THEN 1 ELSE 0)
    <3>1. (IF \E p \in Producers : pc[p] \in {"fill", "advance"} THEN 1 ELSE 0) = 0
      BY <2>1, Zenon
    <3>2. Len(data) = tail_node_ + 0
      BY <1>1, <1>2
    <3> QED
      BY <3>1, <3>2, Zenon
  <2>4. \A p \in Producers : calls[p] < MsgCount
    BY <1>5, ThreadSafeQueueAssumption
  <2> QED
    BY <1>2, <2>2, <2>3, <2>4 DEF PushInProgress
<1> QED
  BY <1>7, <1>8, <1>9, <1>10, <1>11 DEF IInv

(* A step that changes pc alone among what Roles and Owners speak of, for  *)
(* one thread, which keeps the mutexes it has.                             *)
LEMMA MoveOnly ==
  ASSUME IInv, NEW t \in Threads,
         NEW to \in {"push", "link", "fill", "advance", "notify", "wait", "test", "sleep",
                    "blocked", "woken", "take", "ask", "compare", "poll", "look", "done"},
         pc' = [pc EXCEPT ![t] = to],
         UNCHANGED <<head_mtx_, tail_mtx_>>,
         pc[t] \in UnderHead <=> to \in UnderHead,
         pc[t] \in UnderTail <=> to \in UnderTail,
         t \in Producers => to \in {"push", "link", "fill", "advance", "notify", "done"},
         t \in Consumers => to \in {"wait", "test", "sleep", "blocked", "woken", "take", "ask", "compare", "done"},
         t \in Pollers => to \in {"poll", "look", "take", "done"}
  PROVE  /\ pc' \in [Threads -> {"push", "link", "fill", "advance", "notify", "wait", "test", "sleep",
                                "blocked", "woken", "take", "ask", "compare", "poll", "look", "done"}]
         /\ Roles' /\ Owners'
         /\ pc'[t] = to
         /\ \A u \in Threads \ {t} : pc'[u] = pc[u]
<1>1. pc \in [Threads -> {"push", "link", "fill", "advance", "notify", "wait", "test", "sleep",
                         "blocked", "woken", "take", "ask", "compare", "poll", "look", "done"}]
  BY DEF IInv, TypeOK
<1>2. pc'[t] = to /\ \A u \in Threads \ {t} : pc'[u] = pc[u]
  BY <1>1
<1>3. Roles'
  BY <1>2 DEF IInv, Roles, Threads
<1>4. Owners'
  BY <1>2 DEF IInv, Owners
<1> QED
  BY <1>1, <1>2, <1>3, <1>4

(* A step that leaves the list and the histories alone.                    *)
LEMMA SameList ==
  ASSUME IInv, UNCHANGED <<list, pushed, popped>>
  PROVE  OneBehind' /\ ListIntact'
  BY DEF IInv, OneBehind, ListIntact, list

(* A step of a thread that does not push leaves the push in progress.      *)
LEMMA SamePush ==
  ASSUME IInv, UNCHANGED <<data, next_node, tail_node_>>,
         \A p \in Producers : pc'[p] = pc[p] /\ calls'[p] = calls[p]
  PROVE  PushInProgress'
  BY DEF IInv, PushInProgress

--------------------------------------------------------------------------------
(* push()                                                                  *)

(* push() takes tail_mtx_: nobody else is pushing.                         *)
LEMMA StepPushLock ==
  ASSUME IInv, NEW p \in Producers, PushLock(p)
  PROVE  IInv'
<1> USE ThreadSafeQueueAssumption DEF PushLock, Goto
<1>1. pc'[p] = "link" /\ \A t \in Threads \ {p} : pc'[t] = pc[t]
  BY DEF IInv, TypeOK, Threads
<1>2. TypeOK'
  BY DEF IInv, TypeOK, Threads, list, Nodes
<1>3. Roles'
  BY <1>1 DEF IInv, Roles, Threads
<1>4. Owners'
  BY <1>1 DEF IInv, Owners, Threads, UnderHead, UnderTail
<1>5. OneBehind' /\ ListIntact'
  BY SameList
<1>6. PushInProgress'
  BY <1>1 DEF IInv, PushInProgress, Threads, list
<1>7. TakeHasNode'
  BY <1>1 DEF IInv, TakeHasNode, list
<1> QED
  BY <1>2, <1>3, <1>4, <1>5, <1>6, <1>7 DEF IInv

(* What the producer that holds tail_mtx_ knows of the others.             *)
LEMMA OnlyPusher ==
  ASSUME IInv, NEW p \in Producers, pc[p] \in UnderTail
  PROVE  \A q \in Producers : pc[q] \in UnderTail => q = p
  BY DEF IInv, Owners, Threads

(* new Node, linked behind the last one: the list grows by a node that is  *)
(* not yet in it.                                                          *)
LEMMA StepPushLink ==
  ASSUME IInv, NEW p \in Producers, PushLink(p)
  PROVE  IInv'
<1> USE ThreadSafeQueueAssumption
<1> DEFINE Val == Messages \cup {Wild}
           Ptr == Nat \cup {Wild}
           linked == [next_node EXCEPT ![tail_node_] = Len(data) + 1]
<1>1. /\ pc[p] = "link" /\ pc' = [pc EXCEPT ![p] = "fill"]
      /\ data' = Append(data, Wild) /\ next_node' = Append(linked, Wild)
      /\ UNCHANGED <<head_node_, tail_node_, head_mtx_, tail_mtx_, calls, pushed, popped>>
  BY DEF PushLink, Goto
<1>2. /\ Roles' /\ Owners' /\ pc'[p] = "fill" /\ \A t \in Threads \ {p} : pc'[t] = pc[t]
      /\ pc' \in [Threads -> {"push", "link", "fill", "advance", "notify", "wait", "test", "sleep",
                             "blocked", "woken", "take", "ask", "compare", "poll", "look", "done"}]
  BY <1>1, MoveOnly DEF Threads, UnderHead, UnderTail
<1>3. /\ data \in Seq(Val) /\ next_node \in Seq(Ptr) /\ Len(next_node) = Len(data) /\ Len(data) \in Nat
      /\ tail_node_ \in 1 .. Len(data) /\ head_node_ \in 1 .. Len(data)
  BY DEF IInv, TypeOK, Nodes
<1>4. Len(data) = tail_node_
  <2>1. \A q \in Producers : pc[q] \notin {"fill", "advance"}
    BY <1>1, OnlyPusher DEF UnderTail
  <2> QED
    BY <2>1, <1>3 DEF IInv, PushInProgress
<1>5. /\ data' \in Seq(Val) /\ Len(data') = Len(data) + 1
      /\ \A i \in 1 .. Len(data) : data'[i] = data[i]
  BY <1>1, <1>3
<1>6. /\ linked \in Seq(Ptr) /\ Len(linked) = Len(next_node)
      /\ \A i \in 1 .. Len(data) : linked[i] = IF i = tail_node_ THEN tail_node_ + 1 ELSE next_node[i]
  BY <1>3, <1>4, ExceptSeq
<1>7. /\ next_node' \in Seq(Ptr) /\ Len(next_node') = Len(data')
      /\ \A i \in 1 .. Len(data) : next_node'[i] = IF i = tail_node_ THEN tail_node_ + 1 ELSE next_node[i]
  <2>1. Wild \in Ptr /\ next_node' = Append(linked, Wild)
    BY <1>1
  <2>2. Len(linked) = Len(data) /\ Len(data) \in Nat /\ Len(data') = Len(data) + 1
    BY <1>3, <1>5, <1>6
  <2> HIDE DEF linked, Ptr
  <2>3. next_node' \in Seq(Ptr) /\ Len(next_node') = Len(data')
    BY <1>6, <2>1, <2>2
  <2>4. \A i \in 1 .. Len(data) : next_node'[i] = linked[i]
    BY <1>6, <2>1, <2>2
  <2> QED
    BY <1>6, <2>3, <2>4
<1>8. TypeOK'
  <2>1. tail_node_' \in Nodes' /\ head_node_' \in Nodes'
    BY <1>1, <1>3, <1>5 DEF Nodes
  <2> QED
    BY <1>1, <1>2, <1>5, <1>7, <2>1 DEF IInv, TypeOK
<1>9. OneBehind'
  BY <1>1 DEF IInv, OneBehind
<1>10. ListIntact'
  <2>1. \A n \in 1 .. Len(pushed) : n \in 1 .. Len(data) /\ n + 1 \in 1 .. Len(data) /\ n # tail_node_
    BY <1>3, <1>4 DEF IInv, TypeOK, ListIntact
  <2> QED
    BY <1>1, <1>5, <1>7, <2>1 DEF IInv, ListIntact
<1>11. PushInProgress'
  <2>1. data'[1] = Wild
    BY <1>3, <1>5 DEF IInv, PushInProgress
  <2>2. Len(data') = tail_node_' + 1 /\ next_node'[tail_node_'] = tail_node_' + 1
    BY <1>1, <1>3, <1>4, <1>5, <1>7
  <2>3. \A q \in Producers : pc'[q] \in {"fill", "advance"} => q = p
    BY <1>1, <1>2, OnlyPusher DEF UnderTail, Threads
  <2>4. \A q \in Producers : pc'[q] # "done" => calls'[q] < MsgCount
    BY <1>1, <1>2 DEF IInv, PushInProgress, Threads
  <2> QED
    BY <1>2, <2>1, <2>2, <2>3, <2>4 DEF PushInProgress
<1>12. TakeHasNode'
  BY <1>1, <1>2 DEF IInv, TakeHasNode
<1> QED
  BY <1>2, <1>8, <1>9, <1>10, <1>11, <1>12 DEF IInv

(* The value is written into the new node, which no other thread can reach. *)
LEMMA StepPushFill ==
  ASSUME IInv, NEW p \in Producers, PushFill(p)
  PROVE  IInv'
<1> USE ThreadSafeQueueAssumption
<1> DEFINE Val == Messages \cup {Wild}
           v == <<p, calls[p] + 1>>
<1>1. /\ pc[p] = "fill" /\ pc' = [pc EXCEPT ![p] = "advance"]
      /\ data' = [data EXCEPT ![next_node[tail_node_]] = v]
      /\ UNCHANGED <<next_node, head_node_, tail_node_, head_mtx_, tail_mtx_, calls, pushed, popped>>
  BY DEF PushFill, Goto
<1>2. /\ Roles' /\ Owners' /\ pc'[p] = "advance" /\ \A t \in Threads \ {p} : pc'[t] = pc[t]
      /\ pc' \in [Threads -> {"push", "link", "fill", "advance", "notify", "wait", "test", "sleep",
                             "blocked", "woken", "take", "ask", "compare", "poll", "look", "done"}]
  BY <1>1, MoveOnly DEF Threads, UnderHead, UnderTail
<1>3. /\ data \in Seq(Val) /\ Len(data) \in Nat
      /\ tail_node_ \in 1 .. Len(data) /\ head_node_ \in 1 .. Len(data)
  BY DEF IInv, TypeOK, Nodes
<1>4. Len(data) = tail_node_ + 1 /\ next_node[tail_node_] = tail_node_ + 1
  BY <1>1 DEF IInv, PushInProgress
<1>5. v \in Messages
  <2>1. calls[p] \in Nat /\ calls[p] < MsgCount
    BY <1>1 DEF IInv, TypeOK, PushInProgress
  <2> QED
    BY <2>1 DEF Messages
<1>6. /\ data' \in Seq(Val) /\ Len(data') = Len(data)
      /\ \A i \in 1 .. Len(data) : data'[i] = IF i = tail_node_ + 1 THEN v ELSE data[i]
  <2> HIDE DEF v
  <2> QED
    BY <1>1, <1>3, <1>4, <1>5, ExceptSeq
<1>7. TypeOK'
  BY <1>1, <1>2, <1>3, <1>6 DEF IInv, TypeOK, Nodes
<1>8. OneBehind'
  BY <1>1 DEF IInv, OneBehind
<1>9. ListIntact'
  <2>1. \A n \in 1 .. Len(pushed) : n + 1 \in 1 .. Len(data) /\ n + 1 # tail_node_ + 1
    BY <1>3, <1>4 DEF IInv, TypeOK, ListIntact
  <2> QED
    BY <1>1, <1>6, <2>1 DEF IInv, ListIntact
<1>10. PushInProgress'
  <2>1. data'[1] = Wild
    BY <1>3, <1>6 DEF IInv, PushInProgress
  <2>2. /\ Len(data') = tail_node_' + 1 /\ next_node'[tail_node_'] = tail_node_' + 1
        /\ data'[tail_node_' + 1] = v
    BY <1>1, <1>3, <1>4, <1>6
  <2>3. \A q \in Producers : pc'[q] \in {"fill", "advance"} => q = p
    BY <1>1, <1>2, OnlyPusher DEF UnderTail, Threads
  <2>4. \A q \in Producers : pc'[q] # "done" => calls'[q] < MsgCount
    BY <1>1, <1>2 DEF IInv, PushInProgress, Threads
  <2> QED
    BY <1>1, <1>2, <2>1, <2>2, <2>3, <2>4 DEF PushInProgress
<1>11. TakeHasNode'
  BY <1>1, <1>2 DEF IInv, TakeHasNode
<1> QED
  BY <1>2, <1>7, <1>8, <1>9, <1>10, <1>11 DEF IInv

(* The list takes the finished node in: it holds the value just pushed.    *)
LEMMA StepPushAdvance ==
  ASSUME IInv, NEW p \in Producers, PushAdvance(p)
  PROVE  IInv'
<1> USE ThreadSafeQueueAssumption
<1> DEFINE v == <<p, calls[p] + 1>>
<1>1. /\ pc[p] = "advance" /\ pc' = [pc EXCEPT ![p] = "notify"]
      /\ tail_node_' = next_node[tail_node_] /\ pushed' = Append(pushed, v)
      /\ UNCHANGED <<data, next_node, head_node_, head_mtx_, tail_mtx_, calls, popped>>
  BY DEF PushAdvance, Goto
<1>2. /\ Roles' /\ Owners' /\ pc'[p] = "notify" /\ \A t \in Threads \ {p} : pc'[t] = pc[t]
      /\ pc' \in [Threads -> {"push", "link", "fill", "advance", "notify", "wait", "test", "sleep",
                             "blocked", "woken", "take", "ask", "compare", "poll", "look", "done"}]
  BY <1>1, MoveOnly DEF Threads, UnderHead, UnderTail
<1>3. /\ Len(data) = tail_node_ + 1 /\ tail_node_' = tail_node_ + 1 /\ data[tail_node_ + 1] = v
      /\ next_node[tail_node_] = tail_node_ + 1
  BY <1>1 DEF IInv, PushInProgress
<1>4. /\ tail_node_ \in Nat \ {0} /\ head_node_ \in Nat \ {0} /\ Len(pushed) \in Nat /\ pushed \in Seq(Messages)
      /\ head_node_ <= tail_node_ /\ tail_node_ = Len(pushed) + 1 /\ head_node_ = Len(popped) + 1
  BY DEF IInv, TypeOK, Nodes, ListIntact
<1>5. v \in Messages
  <2>1. calls[p] \in Nat /\ calls[p] < MsgCount
    BY <1>1 DEF IInv, TypeOK, PushInProgress
  <2> QED
    BY <2>1 DEF Messages
<1>6. /\ pushed' \in Seq(Messages) /\ Len(pushed') = Len(pushed) + 1 /\ pushed'[Len(pushed) + 1] = v
      /\ \A i \in 1 .. Len(pushed) : pushed'[i] = pushed[i]
  <2> HIDE DEF v
  <2> QED
    BY <1>1, <1>4, <1>5
<1>7. TypeOK'
  BY <1>1, <1>2, <1>3, <1>4, <1>6 DEF IInv, TypeOK, Nodes
<1>8. OneBehind'
  <2>1. Len(popped) \in Nat /\ Len(popped) <= Len(pushed)
    BY DEF IInv, TypeOK, OneBehind
  <2>2. \A i \in 1 .. Len(popped) : i # 1 => pushed'[i - 1] = pushed[i - 1]
    BY <1>4, <1>6, <2>1
  <2> QED
    BY <1>1, <1>4, <1>6, <2>1, <2>2 DEF IInv, OneBehind
<1>9. ListIntact'
  <2>1. \A n \in 1 .. Len(pushed) : next_node[n] = n + 1 /\ data[n + 1] = pushed[n]
    BY DEF IInv, ListIntact
  <2>2. next_node[Len(pushed) + 1] = Len(pushed) + 2 /\ data[Len(pushed) + 2] = pushed'[Len(pushed) + 1]
    BY <1>3, <1>4, <1>6
  <2>3. \A n \in 1 .. Len(pushed') : n \in 1 .. Len(pushed) \/ n = Len(pushed) + 1
    BY <1>4, <1>6
  <2> HIDE DEF v
  <2>4. \A n \in 1 .. Len(pushed') : next_node'[n] = n + 1 /\ data'[n + 1] = pushed'[n]
    BY <1>1, <1>4, <1>6, <2>1, <2>2, <2>3
  <2> QED
    BY <1>1, <1>3, <1>4, <1>6, <2>4 DEF ListIntact
<1>10. PushInProgress'
  <2>1. \A q \in Producers : pc'[q] \notin {"fill", "advance"}
    BY <1>1, <1>2, OnlyPusher DEF UnderTail, Threads
  <2>2. \A q \in Producers : pc'[q] # "done" => calls'[q] < MsgCount
    BY <1>1, <1>2 DEF IInv, PushInProgress, Threads
  <2>3. data'[1] = Wild /\ Len(data') = tail_node_'
    BY <1>1, <1>3 DEF IInv, PushInProgress
  <2>4. Len(data') \in Nat
    BY <1>1 DEF IInv, TypeOK
  <2> QED
    BY <2>1, <2>2, <2>3, <2>4 DEF PushInProgress
<1>11. TakeHasNode'
  BY <1>1, <1>2, <1>3, <1>4 DEF IInv, TakeHasNode
<1> QED
  BY <1>2, <1>7, <1>8, <1>9, <1>10, <1>11 DEF IInv

(* push() ends: tail_mtx_ is free again, and a sleeper may be woken.       *)
LEMMA StepPushNotify ==
  ASSUME IInv, NEW p \in Producers, PushNotify(p)
  PROVE  IInv'
<1> USE ThreadSafeQueueAssumption
<1>1. /\ pc[p] = "notify" /\ tail_mtx_' = Free /\ calls' = [calls EXCEPT ![p] = @ + 1]
      /\ UNCHANGED <<data, next_node, head_node_, tail_node_, head_mtx_, pushed, popped>>
  BY DEF PushNotify, list
<1>2. /\ pc' \in [Threads -> {"push", "link", "fill", "advance", "notify", "wait", "test", "sleep",
                             "blocked", "woken", "take", "ask", "compare", "poll", "look", "done"}]
      /\ pc'[p] = (IF calls[p] + 1 < MsgCount THEN "push" ELSE "done")
      /\ \A t \in Threads \ {p} : pc'[t] = pc[t] \/ (t \in Consumers /\ pc[t] = "blocked" /\ pc'[t] = "woken")
  <2> DEFINE next == IF calls[p] + 1 < MsgCount THEN "push" ELSE "done"
  <2>1. CASE Blocked = {}
    BY <2>1 DEF PushNotify, Goto, IInv, TypeOK, Threads
  <2>2. CASE Blocked # {}
    <3>1. PICK c \in Blocked : pc' = [pc EXCEPT ![p] = next, ![c] = "woken"]
      BY <2>2 DEF PushNotify
    <3>2. c \in Consumers /\ pc[c] = "blocked" /\ c # p
      BY DEF Blocked
    <3> QED
      BY <3>1, <3>2 DEF IInv, TypeOK, Threads
  <2> QED
    BY <2>1, <2>2
<1>3. Roles'
  BY <1>2 DEF IInv, Roles, Threads
<1>4. TypeOK'
  <2>1. calls' \in [Producers \cup Pollers -> Nat]
    BY <1>1 DEF IInv, TypeOK
  <2> QED
    BY <1>1, <1>2, <2>1 DEF IInv, TypeOK, Nodes
<1>5. Owners'
  <2>1. \A t \in Threads : pc'[t] \in UnderHead <=> pc[t] \in UnderHead
    BY <1>1, <1>2 DEF UnderHead, Threads
  <2>2. \A t \in Threads : pc[t] \in UnderTail => t = p
    BY <1>1 DEF IInv, Owners, UnderTail, Threads
  <2>3. \A t \in Threads : pc'[t] \notin UnderTail
    BY <1>2, <2>2 DEF UnderTail
  <2> QED
    BY <1>1, <2>1, <2>3 DEF IInv, Owners
<1>6. OneBehind' /\ ListIntact'
  BY <1>1, SameList DEF list
<1>7. PushInProgress'
  <2>1. \A q \in Producers : pc[q] \notin {"fill", "advance"} /\ pc'[q] \notin {"fill", "advance"}
    BY <1>1, <1>2, OnlyPusher DEF UnderTail, Threads
  <2>2. \A q \in Producers : pc'[q] # "done" => calls'[q] < MsgCount
    BY <1>1, <1>2 DEF IInv, TypeOK, PushInProgress, Threads
  <2>3. Len(data') = tail_node_' /\ data'[1] = Wild /\ tail_node_ \in Nat
    BY <1>1, <2>1 DEF IInv, TypeOK, Nodes, PushInProgress
  <2> QED
    BY <1>1, <2>1, <2>2, <2>3 DEF PushInProgress
<1>8. TakeHasNode'
  BY <1>1, <1>2 DEF IInv, TakeHasNode
<1> QED
  BY <1>3, <1>4, <1>5, <1>6, <1>7, <1>8 DEF IInv

--------------------------------------------------------------------------------
(* The calls that pop.                                                     *)

(* Taking head_mtx_ to look at the list.                                   *)
LEMMA StepLockHead ==
  ASSUME IInv, NEW t \in Threads \ Producers, NEW from, NEW to,
         LockHead(t, from, to),
         from \notin UnderHead \cup UnderTail,
         t \in Consumers => to \in {"test", "compare"},
         t \in Pollers => to = "look"
  PROVE  IInv'
<1> USE ThreadSafeQueueAssumption
<1>1. /\ pc[t] = from /\ pc' = [pc EXCEPT ![t] = to] /\ head_mtx_ = Free /\ head_mtx_' = t
      /\ UNCHANGED <<data, next_node, head_node_, tail_node_, tail_mtx_, calls, pushed, popped>>
  BY DEF LockHead, Goto, list
<1>2. to \in {"test", "compare", "look"}
  BY DEF Threads
<1>3. pc'[t] = to /\ \A u \in Threads \ {t} : pc'[u] = pc[u]
  BY <1>1 DEF IInv, TypeOK
<1>4. TypeOK'
  BY <1>1, <1>2 DEF IInv, TypeOK, Nodes
<1>5. Roles'
  BY <1>2, <1>3 DEF IInv, Roles, Threads
<1>6. Owners'
  BY <1>1, <1>2, <1>3 DEF IInv, Owners, UnderHead, UnderTail
<1>7. OneBehind' /\ ListIntact' /\ PushInProgress'
  BY <1>1, <1>3, SameList, SamePush DEF list, Threads
<1>8. TakeHasNode'
  BY <1>1, <1>2, <1>3 DEF IInv, TakeHasNode
<1> QED
  BY <1>4, <1>5, <1>6, <1>7, <1>8 DEF IInv

(* Giving head_mtx_ up, at the end of a call or in a wait.                 *)
LEMMA ReleaseHead ==
  ASSUME IInv, NEW t \in Threads \ Producers,
         NEW to \in {"blocked", "ask", "wait", "poll", "done"},
         pc[t] \in UnderHead, pc' = [pc EXCEPT ![t] = to],
         head_mtx_' = Free, tail_mtx_' = tail_mtx_,
         t \in Consumers => to # "poll",
         t \in Pollers => to \in {"poll", "done"}
  PROVE  /\ pc' \in [Threads -> {"push", "link", "fill", "advance", "notify", "wait", "test", "sleep",
                                "blocked", "woken", "take", "ask", "compare", "poll", "look", "done"}]
         /\ Roles' /\ Owners'
         /\ pc'[t] = to
         /\ \A u \in Threads \ {t} : pc'[u] = pc[u]
<1> USE ThreadSafeQueueAssumption
<1>1. pc'[t] = to /\ \A u \in Threads \ {t} : pc'[u] = pc[u]
  BY DEF IInv, TypeOK
<1>2. pc' \in [Threads -> {"push", "link", "fill", "advance", "notify", "wait", "test", "sleep",
                         "blocked", "woken", "take", "ask", "compare", "poll", "look", "done"}]
  BY DEF IInv, TypeOK
<1>3. Roles'
  BY <1>1 DEF IInv, Roles, Threads
<1>4. Owners'
  BY <1>1 DEF IInv, Owners, UnderHead, UnderTail, Threads
<1> QED
  BY <1>1, <1>2, <1>3, <1>4

(* Steps that change nothing but where the thread stands.                  *)
LEMMA StepMove ==
  ASSUME IInv, NEW t \in Threads \ Producers,
         NEW to \in {"sleep", "take", "woken"},
         pc' = [pc EXCEPT ![t] = to],
         UNCHANGED <<list, head_mtx_, tail_mtx_, calls, pushed, popped>>,
         to = "take" => head_node_ # tail_node_,
         pc[t] \in UnderHead <=> to \in UnderHead,
         t \in Pollers => to = "take"
  PROVE  IInv'
<1> USE ThreadSafeQueueAssumption
<1>1. pc[t] \notin UnderTail
  BY DEF IInv, Roles, UnderTail, Threads
<1>2. /\ pc' \in [Threads -> {"push", "link", "fill", "advance", "notify", "wait", "test", "sleep",
                             "blocked", "woken", "take", "ask", "compare", "poll", "look", "done"}]
      /\ Roles' /\ Owners' /\ pc'[t] = to /\ \A u \in Threads \ {t} : pc'[u] = pc[u]
  <2>1. pc \in [Threads -> {"push", "link", "fill", "advance", "notify", "wait", "test", "sleep",
                           "blocked", "woken", "take", "ask", "compare", "poll", "look", "done"}]
    BY DEF IInv, TypeOK
  <2>2. pc'[t] = to /\ \A u \in Threads \ {t} : pc'[u] = pc[u]
    BY <2>1
  <2>3. Roles'
    BY <2>2 DEF IInv, Roles, Threads
  <2>4. pc[t] \in UnderTail <=> to \in UnderTail
    BY <1>1 DEF UnderTail
  <2>5. Owners'
    BY <2>2, <2>4 DEF IInv, Owners
  <2> QED
    BY <2>1, <2>2, <2>3, <2>5
<1>3. TypeOK'
  BY <1>2 DEF IInv, TypeOK, Nodes, list
<1>4. OneBehind' /\ ListIntact' /\ PushInProgress'
  BY <1>2, SameList, SamePush DEF list, Threads
<1>5. TakeHasNode'
  BY <1>2 DEF IInv, TakeHasNode, list
<1> QED
  BY <1>2, <1>3, <1>4, <1>5 DEF IInv

(* Leaving the list without having changed it.                             *)
LEMMA StepLeave ==
  ASSUME IInv, NEW t \in Threads \ Producers,
         NEW to \in {"blocked", "ask", "wait", "poll", "done"},
         pc[t] \in UnderHead, pc' = [pc EXCEPT ![t] = to],
         head_mtx_' = Free,
         UNCHANGED <<list, tail_mtx_, pushed, popped>>,
         t \in Consumers => to # "poll",
         t \in Pollers => to \in {"poll", "done"},
         calls' \in [Producers \cup Pollers -> Nat],
         \A p \in Producers : calls'[p] = calls[p]
  PROVE  IInv'
<1> USE ThreadSafeQueueAssumption
<1>1. /\ pc' \in [Threads -> {"push", "link", "fill", "advance", "notify", "wait", "test", "sleep",
                             "blocked", "woken", "take", "ask", "compare", "poll", "look", "done"}]
      /\ Roles' /\ Owners' /\ pc'[t] = to /\ \A u \in Threads \ {t} : pc'[u] = pc[u]
  BY ReleaseHead
<1>2. TypeOK'
  BY <1>1 DEF IInv, TypeOK, Nodes, list
<1>3. OneBehind' /\ ListIntact' /\ PushInProgress'
  BY <1>1, SameList, SamePush DEF list, Threads
<1>4. TakeHasNode'
  BY <1>1 DEF IInv, TakeHasNode, list
<1> QED
  BY <1>1, <1>2, <1>3, <1>4 DEF IInv

(* What follows a popping call or an empty one of a poller.                *)
LEMMA PollEnds ==
  ASSUME IInv, NEW r \in Pollers, EndOfPoll(r)
  PROVE  /\ \E to \in {"poll", "done"} : pc' = [pc EXCEPT ![r] = to]
         /\ calls' \in [Producers \cup Pollers -> Nat]
         /\ \A p \in Producers : calls'[p] = calls[p]
<1>1. calls \in [Producers \cup Pollers -> Nat] /\ r \notin Producers
  BY ThreadSafeQueueAssumption DEF IInv, TypeOK
<1>2. calls' = [calls EXCEPT ![r] = @ + 1]
  BY DEF EndOfPoll
<1>3. \E to \in {"poll", "done"} : pc' = [pc EXCEPT ![r] = to]
  <2>1. CASE calls[r] + 1 < PollCount
    BY <2>1 DEF EndOfPoll, Goto
  <2>2. CASE ~(calls[r] + 1 < PollCount)
    BY <2>2 DEF EndOfPoll, Goto
  <2> QED
    BY <2>1, <2>2
<1>4. calls' \in [Producers \cup Pollers -> Nat] /\ \A p \in Producers : calls'[p] = calls[p]
  BY <1>1, <1>2
<1> QED
  BY <1>3, <1>4

(* head_node_ moves on to a node that is there, and the value handed out   *)
(* is the one before the value it ought to be.                             *)
LEMMA StepTake ==
  ASSUME IInv, NEW t \in Threads \ Producers, Take(t)
  PROVE  IInv'
<1> USE ThreadSafeQueueAssumption
<1>1. /\ pc[t] = "take" /\ head_mtx_' = Free
      /\ popped' = Append(popped, data[head_node_]) /\ head_node_' = next_node[head_node_]
      /\ UNCHANGED <<data, next_node, tail_node_, tail_mtx_, pushed>>
  BY DEF Take
<1>2. PICK to \in {"ask", "poll", "done"} :
        /\ pc' = [pc EXCEPT ![t] = to]
        /\ t \in Consumers => to = "ask"
        /\ t \in Pollers => to # "ask"
        /\ calls' \in [Producers \cup Pollers -> Nat]
        /\ \A p \in Producers : calls'[p] = calls[p]
  <2>1. CASE t \in Consumers
    BY <2>1 DEF Take, Goto, IInv, TypeOK
  <2>2. CASE t \in Pollers
    <3>1. EndOfPoll(t)
      BY <2>2 DEF Take
    <3> QED
      BY <2>2, <3>1, PollEnds
  <2> QED
    BY <2>1, <2>2 DEF Threads
<1>3. /\ pc' \in [Threads -> {"push", "link", "fill", "advance", "notify", "wait", "test", "sleep",
                             "blocked", "woken", "take", "ask", "compare", "poll", "look", "done"}]
      /\ Roles' /\ Owners' /\ pc'[t] = to /\ \A u \in Threads \ {t} : pc'[u] = pc[u]
  BY <1>1, <1>2, ReleaseHead DEF UnderHead
<1>4. /\ tail_node_ \in Nodes /\ head_node_ \in Nodes /\ head_node_ < tail_node_
      /\ Len(pushed) \in Nat /\ Len(popped) \in Nat /\ Len(data) \in Nat
      /\ tail_node_ = Len(pushed) + 1 /\ head_node_ = Len(popped) + 1
      /\ popped \in Seq(Messages \cup {Wild}) /\ data \in Seq(Messages \cup {Wild})
  BY <1>1 DEF IInv, TypeOK, Nodes, ListIntact, TakeHasNode
<1>5. head_node_' = head_node_ + 1
  BY <1>1, <1>4 DEF IInv, ListIntact
<1>6. data[head_node_] = IF head_node_ = 1 THEN Wild ELSE pushed[head_node_ - 1]
  <2>1. CASE head_node_ = 1
    BY <2>1 DEF IInv, PushInProgress
  <2>2. CASE head_node_ # 1
    <3>1. head_node_ - 1 \in 1 .. Len(pushed) /\ (head_node_ - 1) + 1 = head_node_
      BY <2>2, <1>4 DEF Nodes
    <3> QED
      BY <2>2, <3>1 DEF IInv, ListIntact
  <2> QED
    BY <2>1, <2>2
<1>7. /\ popped' \in Seq(Messages \cup {Wild}) /\ Len(popped') = Len(popped) + 1
      /\ popped'[Len(popped) + 1] = data[head_node_]
      /\ \A i \in 1 .. Len(popped) : popped'[i] = popped[i]
  <2> DEFINE v == data[head_node_]
             Val == Messages \cup {Wild}
  <2>1. v \in Val /\ popped' = Append(popped, v) /\ popped \in Seq(Val)
    BY <1>1, <1>4 DEF Nodes
  <2> HIDE DEF v, Val
  <2>2. /\ popped' \in Seq(Val) /\ Len(popped') = Len(popped) + 1 /\ popped'[Len(popped) + 1] = v
        /\ \A i \in 1 .. Len(popped) : popped'[i] = popped[i]
    BY <2>1
  <2> QED
    BY <2>2 DEF v, Val
<1>8. TypeOK'
  <2>1. head_node_' \in Nodes' /\ tail_node_' \in Nodes'
    BY <1>1, <1>4, <1>5 DEF Nodes
  <2> QED
    BY <1>1, <1>2, <1>3, <1>7, <2>1 DEF IInv, TypeOK
<1>9. OneBehind'
  <2>1. Len(popped') <= Len(pushed')
    BY <1>1, <1>4, <1>7 DEF Nodes
  <2>2. ASSUME NEW i \in 1 .. Len(popped')
        PROVE  popped'[i] = IF i = 1 THEN Wild ELSE pushed'[i - 1]
    <3>1. CASE i \in 1 .. Len(popped)
      BY <3>1, <1>1, <1>7 DEF IInv, OneBehind
    <3>2. CASE i = Len(popped) + 1
      BY <3>2, <1>1, <1>4, <1>6, <1>7
    <3> QED
      BY <3>1, <3>2, <1>4, <1>7
  <2> QED
    BY <2>1, <2>2 DEF OneBehind
<1>10. ListIntact'
  BY <1>1, <1>4, <1>5, <1>7 DEF IInv, ListIntact, Nodes
<1>11. PushInProgress'
  BY <1>1, <1>2, <1>3, SamePush DEF Threads
<1>12. TakeHasNode'
  <2>1. \A u \in Threads : pc[u] = "take" => u = t
    BY <1>1 DEF IInv, Owners, UnderHead
  <2> QED
    BY <1>3, <2>1 DEF TakeHasNode
<1> QED
  BY <1>3, <1>8, <1>9, <1>10, <1>11, <1>12 DEF IInv

(* The steps of a thread of t_pop's kind.                                  *)
LEMMA StepConsumer ==
  ASSUME IInv, NEW c \in Consumers, Consumer(c) \/ SpuriousWakeup(c)
  PROVE  IInv'
<1> USE ThreadSafeQueueAssumption
<1>1. c \in Threads \ Producers /\ c \notin Pollers
  BY DEF Threads
<1>2. CASE WaitLock(c) \/ EmptyLock(c)
  BY <1>1, <1>2, StepLockHead DEF WaitLock, EmptyLock, UnderHead, UnderTail
<1>3. CASE WaitTest(c)
  <2>1. \E to \in {"sleep", "take"} :
          /\ pc' = [pc EXCEPT ![c] = to]
          /\ to = "take" => head_node_ # tail_node_
    BY <1>3 DEF WaitTest, SeesEmpty, SeesNode, Goto
  <2> QED
    BY <1>1, <1>3, <2>1, StepMove DEF WaitTest, UnderHead
<1>4. CASE WaitSleep(c)
  <2>1. /\ pc' = [pc EXCEPT ![c] = "blocked"] /\ pc[c] \in UnderHead
        /\ calls' \in [Producers \cup Pollers -> Nat] /\ \A p \in Producers : calls'[p] = calls[p]
    BY <1>4 DEF WaitSleep, Goto, UnderHead, IInv, TypeOK
  <2> QED
    BY <1>1, <1>4, <2>1, StepLeave DEF WaitSleep
<1>5. CASE Take(c)
  BY <1>1, <1>5, StepTake
<1>6. CASE EmptyCompare(c)
  <2>1. /\ \E to \in {"wait", "done"} : pc' = [pc EXCEPT ![c] = to]
        /\ pc[c] \in UnderHead /\ calls' \in [Producers \cup Pollers -> Nat]
        /\ \A p \in Producers : calls'[p] = calls[p]
    BY <1>6 DEF EmptyCompare, Goto, UnderHead, IInv, TypeOK
  <2> QED
    BY <1>1, <1>6, <2>1, StepLeave DEF EmptyCompare
<1>7. CASE SpuriousWakeup(c)
  BY <1>1, <1>7, StepMove DEF SpuriousWakeup, Goto, UnderHead
<1> QED
  BY <1>2, <1>3, <1>4, <1>5, <1>6, <1>7 DEF Consumer

(* The steps of a thread that calls pop() or try_pop().                    *)
LEMMA StepPoller ==
  ASSUME IInv, NEW r \in Pollers, Poller(r)
  PROVE  IInv'
<1> USE ThreadSafeQueueAssumption
<1>1. r \in Threads \ Producers /\ r \notin Consumers
  BY DEF Threads
<1>2. CASE PollLock(r)
  BY <1>1, <1>2, StepLockHead DEF PollLock, UnderHead, UnderTail
<1>3. CASE PollEmpty(r)
  <2>1. pc[r] \in UnderHead /\ head_mtx_' = Free /\ UNCHANGED <<list, tail_mtx_, pushed, popped>>
    BY <1>3 DEF PollEmpty, UnderHead
  <2>2. /\ \E to \in {"poll", "done"} : pc' = [pc EXCEPT ![r] = to]
        /\ calls' \in [Producers \cup Pollers -> Nat] /\ \A p \in Producers : calls'[p] = calls[p]
    BY <1>3, PollEnds DEF PollEmpty
  <2> QED
    BY <1>1, <2>1, <2>2, StepLeave
<1>4. CASE PollNode(r)
  BY <1>1, <1>4, StepMove DEF PollNode, SeesNode, Goto, UnderHead
<1>5. CASE Take(r)
  BY <1>1, <1>5, StepTake
<1> QED
  BY <1>2, <1>3, <1>4, <1>5 DEF Poller

--------------------------------------------------------------------------------

(* Every reachable state satisfies the inductive invariant.                *)
THEOREM Invariance == Spec => []IInv
<1>1. IInv /\ [Next]_vars => IInv'
  <2> SUFFICES ASSUME IInv, [Next]_vars PROVE IInv'
    OBVIOUS
  <2>1. ASSUME NEW p \in Producers, Producer(p) PROVE IInv'
    BY <2>1, StepPushLock, StepPushLink, StepPushFill, StepPushAdvance, StepPushNotify DEF Producer
  <2>2. ASSUME NEW c \in Consumers, Consumer(c) \/ SpuriousWakeup(c) PROVE IInv'
    BY <2>2, StepConsumer
  <2>3. ASSUME NEW r \in Pollers, Poller(r) PROVE IInv'
    BY <2>3, StepPoller
  <2>4. CASE UNCHANGED vars
    BY <2>4 DEF vars, IInv, TypeOK, Nodes, OneBehind, ListIntact, Roles, Owners, PushInProgress, TakeHasNode
  <2> QED
    BY <2>1, <2>2, <2>3, <2>4 DEF Next
<1> QED
  BY InitIInv, <1>1, PTL DEF Spec

(* The types, and that head_node_ and tail_node_ always point to a node.   *)
THEOREM Typing == Spec => []TypeOK
  BY Invariance, PTL DEF IInv

(* In order, but one behind: for any clients and any interleaving.         *)
THEOREM OneBehindHolds == Spec => []OneBehind
  BY Invariance, PTL DEF IInv

(* The chain from head_node_ to tail_node_ is never broken.                *)
THEOREM ListIntactHolds == Spec => []ListIntact
  BY Invariance, PTL DEF IInv

(* Under the two mutexes no node field is read while it may be written.    *)
THEOREM EndsApartHolds == Spec => []EndsApart
  BY Invariance, Apart, PTL

(* The mutexes a thread needs for its next step are free; one that is in   *)
(* the wait set or has returned has no next step.                          *)
HasItsLocks(t) ==
  /\ pc[t] \notin {"blocked", "done"}
  /\ pc[t] \in {"wait", "woken", "poll", "ask"} => head_mtx_ = Free
  /\ pc[t] \in {"push", "test", "look", "compare"} => tail_mtx_ = Free

(* What NoDeadlock is for, without ENABLED: as long as a thread is neither *)
(* asleep nor done, one has the mutexes it needs.  The two are nested one  *)
(* way only: the owner of tail_mtx_ waits for nothing, and the owner of    *)
(* head_mtx_ for tail_mtx_ at most.                                        *)
THEOREM LocksNestOneWay == Spec => [](AtRest \/ \E t \in Threads : HasItsLocks(t))
<1>1. IInv => AtRest \/ \E t \in Threads : HasItsLocks(t)
  <2> SUFFICES ASSUME IInv, ~AtRest PROVE \E t \in Threads : HasItsLocks(t)
    OBVIOUS
  <2>1. PICK w \in Threads : pc[w] \notin {"blocked", "done"}
    BY DEF AtRest
  <2>2. CASE tail_mtx_ # Free
    <3>1. tail_mtx_ \in Threads /\ pc[tail_mtx_] \in UnderTail
      BY <2>2 DEF IInv, TypeOK, Owners, Threads
    <3> QED
      BY <3>1 DEF HasItsLocks, UnderTail
  <2>3. CASE tail_mtx_ = Free /\ head_mtx_ # Free
    <3>1. head_mtx_ \in Threads /\ pc[head_mtx_] \in UnderHead
      BY <2>3 DEF IInv, TypeOK, Owners
    <3> QED
      BY <2>3, <3>1 DEF HasItsLocks, UnderHead
  <2>4. CASE tail_mtx_ = Free /\ head_mtx_ = Free
    BY <2>1, <2>4 DEF HasItsLocks
  <2> QED
    BY <2>2, <2>3, <2>4
<1> QED
  BY <1>1, Invariance, PTL

--------------------------------------------------------------------------------
(* The stack.                                                              *)

(* Which calls a thread makes, and that it makes none too many.            *)
StackRoles ==
  /\ \A p \in Producers : stackPc[p] = "done" \/ (stackPc[p] = "push" /\ stackCalls[p] < MsgCount)
  /\ \A c \in Consumers : stackPc[c] \in {"wait", "blocked", "woken", "ask", "done"}
  /\ \A r \in Pollers : stackPc[r] = "done" \/ (stackPc[r] = "poll" /\ stackCalls[r] < PollCount)

(* No producer has pushed a value with a number it has not reached, so the *)
(* next value is new.                                                      *)
StackNumbered == \A i \in DOMAIN stackPushed : stackPushed[i][2] <= stackCalls[stackPushed[i][1]]

(* The inductive invariant.                                                *)
StackIInv ==
  /\ Stack!TypeOK
  /\ stackCalls \in [Producers \cup Pollers -> Nat]
  /\ StackRoles
  /\ StackNumbered
  /\ Stack!NothingLostOrTwice
  /\ Stack!StackNoLostWakeup

(* The instance counts as everybody does.                                  *)
LEMMA SameCount == \A S : Stack!Cardinality(S) = Cardinality(S)
BY DEF Stack!Cardinality, Cardinality

--------------------------------------------------------------------------------
(* Values and wake-ups.                                                    *)

(* Values and length of a sequence with an element more.                   *)
LEMMA AppendValues ==
  ASSUME NEW S, NEW s \in Seq(S), NEW v \in S
  PROVE  /\ Append(s, v) \in Seq(S)
         /\ Len(Append(s, v)) = Len(s) + 1 /\ Len(s) \in Nat
         /\ Stack!Values(Append(s, v)) = Stack!Values(s) \cup {v}
<1>1. /\ Append(s, v) \in Seq(S) /\ Len(Append(s, v)) = Len(s) + 1 /\ Len(s) \in Nat
      /\ DOMAIN s = 1 .. Len(s) /\ DOMAIN Append(s, v) = 1 .. Len(s) + 1
      /\ \A i \in 1 .. Len(s) : Append(s, v)[i] = s[i]
      /\ Append(s, v)[Len(s) + 1] = v
  OBVIOUS
<1>2. Stack!Values(Append(s, v)) \subseteq Stack!Values(s) \cup {v}
  BY <1>1 DEF Stack!Values
<1>3. Stack!Values(s) \cup {v} \subseteq Stack!Values(Append(s, v))
  <2>1. Len(s) + 1 \in 1 .. Len(s) + 1 /\ \A i \in 1 .. Len(s) : i \in 1 .. Len(s) + 1
    BY <1>1
  <2> QED
    BY <1>1, <2>1 DEF Stack!Values
<1> QED
  BY <1>1, <1>2, <1>3

(* A sequence has finitely many values.                                    *)
LEMMA ValuesFinite ==
  ASSUME NEW S, NEW s \in Seq(S)
  PROVE  IsFiniteSet(Stack!Values(s))
<1>1. Len(s) \in Nat /\ DOMAIN s = 1 .. Len(s) /\ s \in [1 .. Len(s) -> Stack!Values(s)]
  BY DEF Stack!Values
<1>2. s \in Surjection(1 .. Len(s), Stack!Values(s))
  <2>1. \A v \in Stack!Values(s) : \E i \in 1 .. Len(s) : s[i] = v
    BY <1>1 DEF Stack!Values
  <2> QED
    BY <1>1, <2>1, Fun_IsSurj
<1>3. IsFiniteSet(1 .. Len(s))
  BY <1>1, FS_Interval
<1> QED
  BY <1>2, <1>3, FS_Surjection

(* Taking the last element off: what is left and what was taken are what   *)
(* there was.                                                              *)
LEMMA TopAndRest ==
  ASSUME NEW S, NEW s \in Seq(S), s # <<>>
  PROVE  /\ s[Len(s)] \in S
         /\ SubSeq(s, 1, Len(s) - 1) \in Seq(S)
         /\ Len(SubSeq(s, 1, Len(s) - 1)) = Len(s) - 1 /\ Len(s) \in Nat \ {0}
         /\ Stack!Values(s) = Stack!Values(SubSeq(s, 1, Len(s) - 1)) \cup {s[Len(s)]}
<1> DEFINE rest == SubSeq(s, 1, Len(s) - 1)
<1>1. Len(s) \in Nat \ {0} /\ DOMAIN s = 1 .. Len(s) /\ s[Len(s)] \in S
  OBVIOUS
<1>2. /\ rest \in Seq(S) /\ Len(rest) = Len(s) - 1
      /\ DOMAIN rest = 1 .. Len(s) - 1
      /\ \A i \in 1 .. Len(s) - 1 : rest[i] = s[i]
  BY <1>1
<1> HIDE DEF rest
<1>3. Stack!Values(s) \subseteq Stack!Values(rest) \cup {s[Len(s)]}
  <2>1. \A n \in Nat \ {0} : \A i \in 1 .. n : i = n \/ i \in 1 .. n - 1
    OBVIOUS
  <2> QED
    BY <1>1, <1>2, <2>1 DEF Stack!Values
<1>4. Stack!Values(rest) \cup {s[Len(s)]} \subseteq Stack!Values(s)
  <2>1. Len(s) \in 1 .. Len(s) /\ \A i \in 1 .. Len(s) - 1 : i \in 1 .. Len(s)
    BY <1>1
  <2> QED
    BY <1>1, <1>2, <2>1 DEF Stack!Values
<1> QED
  BY <1>1, <1>2, <1>3, <1>4 DEF rest

(* The consumers that are awake can be counted, before a step and after.   *)
LEMMA WokenCounted == /\ IsFiniteSet(Stack!Woken) /\ Cardinality(Stack!Woken) \in Nat
         /\ IsFiniteSet(Stack!Woken') /\ Cardinality(Stack!Woken') \in Nat
<1>1. Stack!Woken \subseteq Consumers /\ Stack!Woken' \subseteq Consumers
  BY DEF Stack!Woken
<1>2. IsFiniteSet(Stack!Woken) /\ IsFiniteSet(Stack!Woken')
  BY <1>1, FS_Subset, ThreadSafeQueueAssumption
<1> QED
  BY <1>2, FS_CardinalityType

(* A step that wakes x and puts nobody else to sleep adds one.             *)
LEMMA OneMoreWoken ==
  ASSUME NEW x, x \in Stack!Woken', x \notin Stack!Woken, Stack!Woken \subseteq Stack!Woken'
  PROVE  Cardinality(Stack!Woken') >= Cardinality(Stack!Woken) + 1
<1>1. Stack!Woken \cup {x} \subseteq Stack!Woken'
  OBVIOUS
<1>2. Cardinality(Stack!Woken \cup {x}) = Cardinality(Stack!Woken) + 1
  BY WokenCounted, FS_AddElement
<1>3. Cardinality(Stack!Woken \cup {x}) <= Cardinality(Stack!Woken')
  BY <1>1, WokenCounted, FS_Subset
<1> QED
  BY <1>2, <1>3, WokenCounted

(* A step after which at most x is awake no more loses one at most.        *)
LEMMA OneLessWoken ==
  ASSUME NEW x, Stack!Woken \ {x} \subseteq Stack!Woken'
  PROVE  Cardinality(Stack!Woken') >= Cardinality(Stack!Woken) - 1
<1>1. /\ IsFiniteSet(Stack!Woken \ {x})
      /\ Cardinality(Stack!Woken \ {x}) = IF x \in Stack!Woken THEN Cardinality(Stack!Woken) - 1 ELSE Cardinality(Stack!Woken)
  BY WokenCounted, FS_RemoveElement
<1>2. Cardinality(Stack!Woken \ {x}) <= Cardinality(Stack!Woken')
  BY WokenCounted, FS_Subset
<1> QED
  BY <1>1, <1>2, WokenCounted

--------------------------------------------------------------------------------

(* The invariant holds at the start.                                       *)
LEMMA StackInitIInv ==
  ASSUME Stack!Init
  PROVE  StackIInv
<1> USE ThreadSafeQueueAssumption DEF Stack!Init
<1>1. /\ \A p \in Producers : stackPc[p] = "push" /\ stackCalls[p] = 0
      /\ \A c \in Consumers : stackPc[c] = "wait"
      /\ \A r \in Pollers : stackPc[r] = "poll" /\ stackCalls[r] = 0
      /\ stackPc \in [Stack!Threads -> {"push", "wait", "poll"}]
      /\ stackCalls \in [Producers \cup Pollers -> Nat]
  BY DEF Stack!Threads
<1>2. <<>> \in Seq(Stack!Messages) /\ Len(<<>>) = 0 /\ DOMAIN <<>> = {}
  OBVIOUS
<1>3. Stack!TypeOK
  BY <1>1, <1>2 DEF Stack!TypeOK
<1>4. StackRoles /\ StackNumbered
  BY <1>1, <1>2 DEF StackRoles, StackNumbered
<1>5. Stack!NothingLostOrTwice
  <2>1. Stack!Values(<<>>) = {} /\ Cardinality({}) = 0
    BY <1>2, FS_EmptySet DEF Stack!Values
  <2>2. stack = <<>> /\ stackPushed = <<>> /\ stackPopped = <<>>
    OBVIOUS
  <2> HIDE DEF Stack!Init
  <2>3. Stack!Values(stack) = {} /\ Stack!Values(stackPushed) = {} /\ Stack!Values(stackPopped) = {}
    BY <2>1, <2>2
  <2>4. Len(stack) = 0 /\ Len(stackPushed) = 0 /\ Len(stackPopped) = 0
    BY <1>2, <2>2
  <2> QED
    BY <2>1, <2>3, <2>4, SameCount DEF Stack!NothingLostOrTwice
<1>6. Stack!StackNoLostWakeup
  BY <1>1, SameCount DEF Stack!StackNoLostWakeup, Stack!Blocked
<1> QED
  BY <1>1, <1>3, <1>4, <1>5, <1>6 DEF StackIInv

(* A push adds a value nobody has seen and, if a consumer sleeps, wakes    *)
(* one.                                                                    *)
LEMMA StackStepPush ==
  ASSUME StackIInv, NEW p \in Producers, Stack!Push(p)
  PROVE  StackIInv'
<1> DEFINE v == <<p, stackCalls[p] + 1>>
<1> USE ThreadSafeQueueAssumption
<1>1. /\ stackPc[p] = "push" /\ stackCalls[p] \in Nat /\ stackCalls[p] < MsgCount
      /\ stack' = Append(stack, v) /\ stackPushed' = Append(stackPushed, v) /\ stackPopped' = stackPopped
      /\ stackCalls' = [stackCalls EXCEPT ![p] = stackCalls[p] + 1]
  BY DEF Stack!Push, StackIInv, StackRoles
<1>2. PICK f \in Stack!Notify : stackPc' = [f EXCEPT ![p] = IF stackCalls[p] + 1 < MsgCount THEN "push" ELSE "done"]
  BY DEF Stack!Push
<1>3. \/ Stack!Blocked = {} /\ f = stackPc
      \/ \E c \in Stack!Blocked : f = [stackPc EXCEPT ![c] = "woken"]
  BY <1>2 DEF Stack!Notify
<1>4. v \in Stack!Messages
  BY <1>1 DEF Stack!Messages
<1>5. /\ stack \in Seq(Stack!Messages) /\ stackPushed \in Seq(Stack!Messages) /\ stackPopped \in Seq(Stack!Messages)
      /\ stackPc \in [Stack!Threads -> {"push", "wait", "blocked", "woken", "ask", "poll", "done"}]
      /\ stackCalls \in [Producers \cup Pollers -> Nat]
  BY DEF StackIInv, Stack!TypeOK
<1>6. /\ f \in [Stack!Threads -> {"push", "wait", "blocked", "woken", "ask", "poll", "done"}]
      /\ \A t \in Producers \cup Pollers : f[t] = stackPc[t]
      /\ \A c \in Consumers : f[c] = stackPc[c] \/ f[c] = "woken"
  BY <1>3, <1>5 DEF Stack!Blocked, Stack!Threads
<1>7. /\ stackPc' \in [Stack!Threads -> {"push", "wait", "blocked", "woken", "ask", "poll", "done"}]
      /\ stackPc'[p] = IF stackCalls[p] + 1 < MsgCount THEN "push" ELSE "done"
      /\ \A t \in Stack!Threads \ {p} : stackPc'[t] = f[t]
  BY <1>2, <1>6 DEF Stack!Threads
<1>8. /\ stackCalls' \in [Producers \cup Pollers -> Nat]
      /\ stackCalls'[p] = stackCalls[p] + 1
      /\ \A t \in (Producers \cup Pollers) \ {p} : stackCalls'[t] = stackCalls[t]
  BY <1>1, <1>5
<1>9. /\ stack' \in Seq(Stack!Messages) /\ Len(stack') = Len(stack) + 1 /\ Len(stack) \in Nat
      /\ Stack!Values(stack') = Stack!Values(stack) \cup {v}
      /\ stackPushed' \in Seq(Stack!Messages) /\ Len(stackPushed') = Len(stackPushed) + 1 /\ Len(stackPushed) \in Nat
      /\ Stack!Values(stackPushed') = Stack!Values(stackPushed) \cup {v}
      /\ Stack!Values(stackPopped') = Stack!Values(stackPopped)
  <2>1. /\ Append(stack, v) \in Seq(Stack!Messages)
        /\ Len(Append(stack, v)) = Len(stack) + 1 /\ Len(stack) \in Nat
        /\ Stack!Values(Append(stack, v)) = Stack!Values(stack) \cup {v}
    BY <1>4, <1>5, AppendValues
  <2>2. /\ Append(stackPushed, v) \in Seq(Stack!Messages)
        /\ Len(Append(stackPushed, v)) = Len(stackPushed) + 1 /\ Len(stackPushed) \in Nat
        /\ Stack!Values(Append(stackPushed, v)) = Stack!Values(stackPushed) \cup {v}
    BY <1>4, <1>5, AppendValues
  <2> QED
    BY <1>1, <2>1, <2>2
<1>10. Stack!TypeOK'
  <2>1. \A q \in Producers : stackCalls'[q] \in 0 .. MsgCount
    <3>1. \A q \in Producers : stackCalls[q] \in 0 .. MsgCount
      BY DEF StackIInv, Stack!TypeOK
    <3>2. stackCalls[p] + 1 \in 0 .. MsgCount
      BY <1>1
    <3> QED
      BY <1>8, <3>1, <3>2
  <2>2. \A r \in Pollers : stackCalls'[r] \in 0 .. PollCount
    <3>1. \A r \in Pollers : stackCalls[r] \in 0 .. PollCount
      BY DEF StackIInv, Stack!TypeOK
    <3> QED
      BY <1>8, <3>1
  <2> QED
    BY <1>1, <1>5, <1>7, <1>9, <2>1, <2>2 DEF Stack!TypeOK
<1>11. StackRoles'
  BY <1>1, <1>6, <1>7, <1>8, SMTT(30) DEF StackIInv, StackRoles, Stack!Threads
<1>12. StackNumbered'
  <2>1. SUFFICES ASSUME NEW i \in DOMAIN stackPushed'
                 PROVE  stackPushed'[i][2] <= stackCalls'[stackPushed'[i][1]]
    BY DEF StackNumbered
  <2>2. i \in 1 .. Len(stackPushed) \/ i = Len(stackPushed) + 1
    BY <1>5, <1>9
  <2>3. CASE i \in 1 .. Len(stackPushed)
    <3>1. stackPushed'[i] = stackPushed[i] /\ i \in DOMAIN stackPushed
      BY <1>1, <1>4, <1>5, <2>3
    <3>2. stackPushed[i] \in Stack!Messages
      BY <1>5, <3>1
    <3>3. stackPushed[i][1] \in Producers /\ stackPushed[i][2] \in Nat /\ stackPushed[i][2] <= stackCalls[stackPushed[i][1]]
      BY <3>1, <3>2 DEF StackIInv, StackNumbered, Stack!Messages
    <3>4. stackCalls[stackPushed[i][1]] \in Nat /\ stackCalls'[stackPushed[i][1]] >= stackCalls[stackPushed[i][1]] /\ stackCalls'[stackPushed[i][1]] \in Nat
      BY <3>3, <1>1, <1>5, <1>8
    <3> QED
      BY <3>1, <3>3, <3>4
  <2>4. CASE i = Len(stackPushed) + 1
    <3>1. stackPushed'[i] = v
      BY <1>1, <1>4, <1>5, <2>4
    <3> QED
      BY <3>1, <1>1, <1>8
  <2> QED
    BY <2>2, <2>3, <2>4
<1>13. v \notin Stack!Values(stackPushed)
  <2>1. SUFFICES ASSUME NEW i \in DOMAIN stackPushed, stackPushed[i] = v PROVE FALSE
    BY DEF Stack!Values
  <2>2. stackCalls[p] + 1 <= stackCalls[p]
    BY <2>1 DEF StackIInv, StackNumbered
  <2> QED
    BY <2>2, <1>1
<1>14. Stack!NothingLostOrTwice'
  <2>1. Stack!Values(stackPushed) = Stack!Values(stack) \cup Stack!Values(stackPopped) /\ Len(stack) + Len(stackPopped) = Len(stackPushed)
        /\ Cardinality(Stack!Values(stackPushed)) = Len(stackPushed)
    BY SameCount DEF StackIInv, Stack!NothingLostOrTwice
  <2>2. Cardinality(Stack!Values(stackPushed) \cup {v}) = Len(stackPushed) + 1
    <3>1. IsFiniteSet(Stack!Values(stackPushed))
      BY <1>5, ValuesFinite
    <3> QED
      BY <3>1, <2>1, <1>13, FS_AddElement
  <2>3. Len(stackPopped) \in Nat
    BY <1>5
  <2> QED
    <3>1. Stack!Values(stack') \cup Stack!Values(stackPopped') = Stack!Values(stackPushed')
      BY <2>1, <1>9
    <3>2. Len(stack)' + Len(stackPopped)' = Len(stackPushed)'
      <4>1. /\ Len(stack)' = Len(stack) + 1 /\ Len(stackPushed)' = Len(stackPushed) + 1
            /\ Len(stackPopped)' = Len(stackPopped) /\ Len(stack) \in Nat /\ Len(stackPushed) \in Nat
        BY <1>1, <1>5, <1>9
      <4> QED
        BY <4>1, <2>1, <2>3
    <3>3. Cardinality(Stack!Values(stackPushed')) = Len(stackPushed)'
      BY <2>2, <1>9
    <3> QED
      BY <3>1, <3>2, <3>3, SameCount DEF Stack!NothingLostOrTwice
<1>15. Stack!StackNoLostWakeup'
  <2>1. CASE Stack!Blocked = {}
    <3>1. Stack!Blocked' = {}
      BY <2>1, <1>3, <1>7 DEF Stack!Blocked, Stack!Threads
    <3> QED
      BY <3>1, SameCount DEF Stack!StackNoLostWakeup
  <2>2. CASE Stack!Blocked # {}
    <3>1. PICK c \in Stack!Blocked : f = [stackPc EXCEPT ![c] = "woken"]
      BY <2>2, <1>3
    <3>2. Stack!Woken \subseteq Stack!Woken' /\ c \in Stack!Woken' /\ c \notin Stack!Woken
      BY <3>1, <1>5, <1>7 DEF Stack!Blocked, Stack!Woken, Stack!Threads
    <3>3. Cardinality(Stack!Woken') >= Cardinality(Stack!Woken) + 1
      BY <3>2, OneMoreWoken
    <3>4. Cardinality(Stack!Woken) >= Len(stack)
      BY <2>2, SameCount DEF StackIInv, Stack!StackNoLostWakeup
    <3> QED
      BY <3>3, <3>4, <1>9, WokenCounted, SameCount DEF Stack!StackNoLostWakeup
  <2> QED
    BY <2>1, <2>2
<1> QED
  BY <1>8, <1>10, <1>11, <1>12, <1>14, <1>15 DEF StackIInv

(* Taking the top off leaves every value in one place.                     *)
LEMMA TakeTopEffect ==
  ASSUME StackIInv, Stack!TakeTop
  PROVE  /\ stack' \in Seq(Stack!Messages) /\ stackPopped' \in Seq(Stack!Messages) /\ stackPushed' = stackPushed
         /\ Len(stack) \in Nat \ {0} /\ Len(stack') = Len(stack) - 1
         /\ Stack!NothingLostOrTwice'
<1> DEFINE top == stack[Len(stack)]
<1>1. stack \in Seq(Stack!Messages) /\ stackPopped \in Seq(Stack!Messages) /\ stackPushed \in Seq(Stack!Messages) /\ stack # <<>>
  BY DEF StackIInv, Stack!TypeOK, Stack!TakeTop
<1>2. stack' = SubSeq(stack, 1, Len(stack) - 1) /\ stackPopped' = Append(stackPopped, top) /\ stackPushed' = stackPushed
  BY DEF Stack!TakeTop
<1>3. /\ top \in Stack!Messages /\ stack' \in Seq(Stack!Messages)
      /\ Len(stack') = Len(stack) - 1 /\ Len(stack) \in Nat \ {0}
      /\ Stack!Values(stack) = Stack!Values(stack') \cup {top}
  <2>1. /\ top \in Stack!Messages /\ SubSeq(stack, 1, Len(stack) - 1) \in Seq(Stack!Messages)
        /\ Len(SubSeq(stack, 1, Len(stack) - 1)) = Len(stack) - 1 /\ Len(stack) \in Nat \ {0}
        /\ Stack!Values(stack) = Stack!Values(SubSeq(stack, 1, Len(stack) - 1)) \cup {top}
    BY <1>1, TopAndRest
  <2> QED
    BY <1>2, <2>1
<1>4. /\ stackPopped' \in Seq(Stack!Messages) /\ Len(stackPopped') = Len(stackPopped) + 1 /\ Len(stackPopped) \in Nat
      /\ Stack!Values(stackPopped') = Stack!Values(stackPopped) \cup {top}
  <2>1. top \in Stack!Messages
    BY <1>3
  <2> HIDE DEF top
  <2>2. /\ Append(stackPopped, top) \in Seq(Stack!Messages)
        /\ Len(Append(stackPopped, top)) = Len(stackPopped) + 1 /\ Len(stackPopped) \in Nat
        /\ Stack!Values(Append(stackPopped, top)) = Stack!Values(stackPopped) \cup {top}
    BY <1>1, <2>1, AppendValues
  <2> QED
    BY <1>2, <2>2
<1>5. Stack!Values(stack') \cup Stack!Values(stackPopped') = Stack!Values(stackPushed')
  <2>1. Stack!Values(stack) \cup Stack!Values(stackPopped) = Stack!Values(stackPushed)
    BY SameCount DEF StackIInv, Stack!NothingLostOrTwice
  <2> QED
    BY <1>2, <1>3, <1>4, <2>1
<1>6. Len(stack') + Len(stackPopped') = Len(stackPushed')
  <2>1. Len(stack) + Len(stackPopped) = Len(stackPushed)
    BY SameCount DEF StackIInv, Stack!NothingLostOrTwice
  <2>2. Len(stack') = Len(stack) - 1 /\ Len(stackPopped') = Len(stackPopped) + 1 /\ stackPushed' = stackPushed
    BY <1>2, <1>3, <1>4
  <2>3. Len(stack) \in Nat /\ Len(stackPopped) \in Nat
    BY <1>3, <1>4
  <2> HIDE DEF top
  <2> QED
    BY <2>1, <2>2, <2>3
<1>7. Cardinality(Stack!Values(stackPushed')) = Len(stackPushed')
  BY <1>2, SameCount DEF StackIInv, Stack!NothingLostOrTwice
<1> QED
  BY <1>2, <1>3, <1>4, <1>5, <1>6, <1>7, SameCount DEF Stack!NothingLostOrTwice

(* A step that only moves one thread: what does not depend on its place.   *)
LEMMA SameStack ==
  ASSUME StackIInv, UNCHANGED <<stack, stackCalls, stackPushed, stackPopped>>
  PROVE  /\ Stack!NothingLostOrTwice' /\ StackNumbered'
         /\ Len(stack) \in Nat
<1>1. Stack!Values(stack') = Stack!Values(stack) /\ Stack!Values(stackPushed') = Stack!Values(stackPushed)
      /\ Stack!Values(stackPopped') = Stack!Values(stackPopped)
  OBVIOUS
<1>2. Stack!NothingLostOrTwice'
  BY <1>1, SameCount DEF StackIInv, Stack!NothingLostOrTwice
<1>3. StackNumbered' /\ Len(stack) \in Nat
  BY DEF StackIInv, Stack!TypeOK, StackNumbered
<1> QED
  BY <1>2, <1>3

(* A consumer goes to sleep: it has seen the stack empty.                  *)
LEMMA StackStepWaitSleep ==
  ASSUME StackIInv, NEW c \in Consumers, Stack!WaitSleep(c)
  PROVE  StackIInv'
<1> USE ThreadSafeQueueAssumption DEF Stack!WaitSleep
<1>1. Stack!TypeOK' /\ stackCalls' \in [Producers \cup Pollers -> Nat]
  BY DEF StackIInv, Stack!TypeOK, Stack!Threads
<1>2. StackRoles'
  BY DEF StackIInv, Stack!TypeOK, StackRoles, Stack!Threads
<1>3. Stack!StackNoLostWakeup'
  BY WokenCounted, SameCount DEF Stack!StackNoLostWakeup
<1> QED
  BY <1>1, <1>2, <1>3, SameStack DEF StackIInv

(* A consumer takes a value, with or without having slept.                 *)
LEMMA StackStepWaitPop ==
  ASSUME StackIInv, NEW c \in Consumers, Stack!WaitPop(c)
  PROVE  StackIInv'
<1> USE ThreadSafeQueueAssumption
<1>1. Stack!TakeTop /\ stackPc' = [stackPc EXCEPT ![c] = "ask"] /\ stackCalls' = stackCalls
  BY DEF Stack!WaitPop
<1>2. /\ stack' \in Seq(Stack!Messages) /\ stackPopped' \in Seq(Stack!Messages) /\ stackPushed' = stackPushed
      /\ Len(stack) \in Nat \ {0} /\ Len(stack') = Len(stack) - 1
      /\ Stack!NothingLostOrTwice'
  BY <1>1, TakeTopEffect
<1>3. Stack!TypeOK' /\ stackCalls' \in [Producers \cup Pollers -> Nat]
  BY <1>1, <1>2 DEF StackIInv, Stack!TypeOK, Stack!Threads
<1>4. StackRoles' /\ StackNumbered'
  BY <1>1, <1>2 DEF StackIInv, Stack!TypeOK, StackRoles, StackNumbered, Stack!Threads
<1>5. Stack!StackNoLostWakeup'
  <2>1. Stack!Blocked' \subseteq Stack!Blocked /\ Stack!Woken \ {c} \subseteq Stack!Woken'
    BY <1>1 DEF Stack!Blocked, Stack!Woken, StackIInv, Stack!TypeOK, Stack!Threads
  <2>2. Cardinality(Stack!Woken') >= Cardinality(Stack!Woken) - 1
    BY <2>1, OneLessWoken
  <2> QED
    BY <1>2, <2>1, <2>2, WokenCounted, SameCount DEF StackIInv, Stack!StackNoLostWakeup
<1> QED
  BY <1>2, <1>3, <1>4, <1>5 DEF StackIInv

(* A wake-up nobody asked for makes one more awake.                        *)
LEMMA StackStepSpuriousWakeup ==
  ASSUME StackIInv, NEW c \in Consumers, Stack!SpuriousWakeup(c)
  PROVE  StackIInv'
<1> USE ThreadSafeQueueAssumption DEF Stack!SpuriousWakeup
<1>1. Stack!TypeOK' /\ stackCalls' \in [Producers \cup Pollers -> Nat]
  BY DEF StackIInv, Stack!TypeOK, Stack!Threads
<1>2. StackRoles'
  BY DEF StackIInv, Stack!TypeOK, StackRoles, Stack!Threads
<1>3. Stack!StackNoLostWakeup'
  <2>1. Stack!Woken \subseteq Stack!Woken' /\ c \in Stack!Woken' /\ c \notin Stack!Woken /\ c \in Stack!Blocked
    BY DEF Stack!Woken, Stack!Blocked, StackIInv, Stack!TypeOK, Stack!Threads
  <2>2. Cardinality(Stack!Woken') >= Cardinality(Stack!Woken) + 1
    BY <2>1, OneMoreWoken
  <2> QED
    BY <2>1, <2>2, WokenCounted, SameStack, SameCount DEF StackIInv, Stack!StackNoLostWakeup
<1> QED
  BY <1>1, <1>2, <1>3, SameStack DEF StackIInv

(* A consumer asks whether to go on.                                       *)
LEMMA StackStepEmpty ==
  ASSUME StackIInv, NEW c \in Consumers, Stack!Empty(c)
  PROVE  StackIInv'
<1> USE ThreadSafeQueueAssumption DEF Stack!Empty
<1>1. Stack!TypeOK' /\ stackCalls' \in [Producers \cup Pollers -> Nat]
  BY DEF StackIInv, Stack!TypeOK, Stack!Threads
<1>2. StackRoles'
  BY DEF StackIInv, Stack!TypeOK, StackRoles, Stack!Threads
<1>3. Stack!StackNoLostWakeup'
  <2>1. Stack!Blocked' = Stack!Blocked /\ Stack!Woken' = Stack!Woken
    BY DEF Stack!Woken, Stack!Blocked, StackIInv, Stack!TypeOK, Stack!Threads
  <2> QED
    BY <2>1, SameCount DEF StackIInv, Stack!StackNoLostWakeup
<1> QED
  BY <1>1, <1>2, <1>3, SameStack DEF StackIInv

(* A poll takes a value, which only makes the sleepers' debt smaller, or   *)
(* finds none.                                                             *)
LEMMA StackStepPoll ==
  ASSUME StackIInv, NEW r \in Pollers, Stack!Poll(r)
  PROVE  StackIInv'
<1> USE ThreadSafeQueueAssumption
<1>1. /\ stackPc[r] = "poll" /\ stackCalls[r] \in Nat /\ stackCalls[r] < PollCount
      /\ stackCalls' = [stackCalls EXCEPT ![r] = stackCalls[r] + 1]
      /\ stackPc' = [stackPc EXCEPT ![r] = IF stackCalls[r] + 1 < PollCount THEN "poll" ELSE "done"]
  BY DEF Stack!Poll, StackIInv, StackRoles
<1>2. /\ stack' \in Seq(Stack!Messages) /\ stackPopped' \in Seq(Stack!Messages) /\ stackPushed' = stackPushed
      /\ Len(stack) \in Nat /\ Len(stack') \in Nat /\ Len(stack') <= Len(stack)
      /\ Stack!NothingLostOrTwice'
  <2>1. CASE Stack!TakeTop
    BY <2>1, TakeTopEffect
  <2>2. CASE UNCHANGED <<stack, stackPushed, stackPopped>>
    <3>1. Stack!NothingLostOrTwice'
      BY <2>2, SameCount DEF StackIInv, Stack!NothingLostOrTwice
    <3>2. stack \in Seq(Stack!Messages) /\ stackPopped \in Seq(Stack!Messages)
      BY DEF StackIInv, Stack!TypeOK
    <3>3. Len(stack) \in Nat
      BY <3>2
    <3> QED
      BY <2>2, <3>1, <3>2, <3>3
  <2> QED
    BY <2>1, <2>2 DEF Stack!Poll
<1>3. stackCalls' \in [Producers \cup Pollers -> Nat] /\ stackCalls'[r] = stackCalls[r] + 1
      /\ \A t \in (Producers \cup Pollers) \ {r} : stackCalls'[t] = stackCalls[t]
  BY <1>1 DEF StackIInv
<1>4. Stack!TypeOK'
  BY <1>1, <1>2, <1>3 DEF StackIInv, Stack!TypeOK, Stack!Threads
<1>5. StackRoles'
  BY <1>1, <1>3 DEF StackIInv, Stack!TypeOK, StackRoles, Stack!Threads
<1>6. StackNumbered'
  <2>1. \A i \in DOMAIN stackPushed : stackPushed[i][1] \in Producers
    BY DEF StackIInv, Stack!TypeOK, Stack!Messages
  <2> QED
    BY <2>1, <1>2, <1>3 DEF StackIInv, StackNumbered
<1>7. Stack!StackNoLostWakeup'
  <2>1. Stack!Blocked' = Stack!Blocked /\ Stack!Woken' = Stack!Woken
    BY <1>1 DEF Stack!Woken, Stack!Blocked, StackIInv, Stack!TypeOK, Stack!Threads
  <2> QED
    BY <1>2, <2>1, WokenCounted, SameCount DEF StackIInv, Stack!StackNoLostWakeup
<1> QED
  BY <1>2, <1>3, <1>4, <1>5, <1>6, <1>7 DEF StackIInv

(* Every step keeps the invariant.                                         *)
LEMMA StackNextIInv ==
  ASSUME StackIInv, [Stack!Next]_(Stack!vars)
  PROVE  StackIInv'
<1>1. CASE UNCHANGED Stack!vars
  <2>1. Stack!Blocked' = Stack!Blocked /\ Stack!Woken' = Stack!Woken
    BY <1>1 DEF Stack!vars, Stack!Blocked, Stack!Woken
  <2> QED
    BY <1>1, <2>1, SameStack, SameCount
       DEF Stack!vars, StackIInv, Stack!TypeOK, StackRoles, Stack!StackNoLostWakeup
<1>2. CASE Stack!Next
  BY <1>2, StackStepPush, StackStepWaitSleep, StackStepWaitPop, StackStepSpuriousWakeup, StackStepEmpty, StackStepPoll
     DEF Stack!Next, Stack!Consumer
<1> QED
  BY <1>1, <1>2

--------------------------------------------------------------------------------

(* The inductive invariant holds in every reachable state.                 *)
LEMMA StackInvariance == Stack!Spec => []StackIInv
BY StackInitIInv, StackNextIInv, PTL DEF Stack!Spec

(* Whoever pops, by whichever call and however the calls interleave, every *)
(* value pushed is on the stack or was handed out, never both, never       *)
(* twice.                                                                  *)
THEOREM StackConsistentHolds == Stack!Spec => []StackConsistent
<1>1. StackIInv => StackConsistent
  BY DEF StackIInv, StackConsistent, Stack!StackConsistent
<1> QED
  BY <1>1, StackInvariance, PTL

(* No wake-up is lost, however many consumers sleep: at least as many are  *)
(* awake and yet to look as there are values.                              *)
THEOREM StackNoLostWakeupHolds == Stack!Spec => []StackNoLostWakeup
<1>1. StackIInv => StackNoLostWakeup
  BY DEF StackIInv, StackNoLostWakeup
<1> QED
  BY <1>1, StackInvariance, PTL

--------------------------------------------------------------------------------

(* A behaviour in which one of the two is used is one of each, so that     *)
(* what was proved of each holds of it.                                    *)
THEOREM OneOfTwo == ContainersSpec => Spec /\ Stack!Spec
<1>1. ContainersInit => Init /\ Stack!Init
  BY DEF ContainersInit
<1>2. [ContainersNext]_<<container, vars, stackVars>> => [Next]_vars
  BY DEF ContainersNext
<1>3. [ContainersNext]_<<container, vars, stackVars>> => [Stack!Next]_(Stack!vars)
  <2>1. stackVars' = stackVars => Stack!vars' = Stack!vars
    BY DEF stackVars, Stack!vars
  <2> QED
    BY <2>1 DEF ContainersNext
<1>4. ContainersSpec => ContainersInit /\ [][ContainersNext]_<<container, vars, stackVars>>
  BY PTL DEF ContainersSpec
<1> QED
  BY <1>1, <1>2, <1>3, <1>4, PTL DEF Spec, Stack!Spec

================================================================================

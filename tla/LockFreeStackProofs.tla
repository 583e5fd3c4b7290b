--------------------------- MODULE LockFreeStackProofs ---------------------------
(***************************************************************************)
(* Proofs about LockFreeStack for any finite sets of pushers, poppers and  *)
(* nodes, and any number of rounds.                                        *)
(***************************************************************************)
EXTENDS LockFreeStack, TLAPS, FunctionTheorems, FiniteSetTheorems

PusherPlaces == {"new", "load", "cas", "done"}
PopperPlaces == {"enter", "load", "next", "cas", "data", "check", "delete", "loadlist", "leave1",
                 "append", "append1", "leave", "return", "done"}

(* Who may be where, and what a popper brings back.                        *)
Roles ==
  /\ \A p \in Pushers : pc[p] \in PusherPlaces
  /\ \A u \in Poppers : pc[u] \in PopperPlaces
  /\ \A t \in Threads : pc[t] # "done" => rounds[t] < Count
  /\ res \in [Threads -> Nat \cup {Null}]

(* A node is a thread's own before it is pushed and after it is popped: it *)
(* exists, and no other thread's own.                                      *)
Owns(t) == IF t \in Pushers THEN pc[t] \in {"load", "cas"} ELSE pc[t] \in {"data", "check", "delete"}

OwnNodes ==
  /\ \A t \in Threads : Owns(t) => node[t] \in allocated
  /\ \A t, u \in Threads : Owns(t) /\ Owns(u) /\ t # u => node[t] # node[u]

(* The node a popper has its eye on exists, is no pusher's, and is about   *)
(* to be deleted by nobody; its next is still what was read.               *)
Eyes(u) == pc[u] \in {"next", "cas"}

EyedNodes ==
  \A u \in Poppers : Eyes(u) =>
    /\ node[u] \in allocated
    /\ \A p \in Pushers : Owns(p) => node[u] # node[p]
    /\ \A t \in Poppers : pc[t] = "delete" => node[u] # node[t]
    /\ pc[u] = "cas" => next[u] = next_node[node[u]]

(* s is the stack; its nodes exist and are nobody's own.                   *)
SharedList(s) ==
  /\ IsStack(s)
  /\ \A k \in DOMAIN s : s[k] \in allocated
  /\ \A k \in DOMAIN s, t \in Threads : Owns(t) => node[t] # s[k]

(* The inductive invariant.                                                *)
IInv ==
  /\ TypeOK
  /\ Roles
  /\ DelayListStaysEmpty
  /\ CounterAgrees
  /\ OwnNodes
  /\ EyedNodes
  /\ \E s \in Lists : SharedList(s)

--------------------------------------------------------------------------------
(* Lists, and the threads inside pop.                                      *)

(* A list is a sequence.                                                   *)
LEMMA ListType ==
  ASSUME NEW s \in Lists
  PROVE  /\ s \in Seq(Nodes) /\ Len(s) \in Nat /\ DOMAIN s = 1 .. Len(s)
         /\ \A k \in DOMAIN s : s[k] \in Nodes
         /\ \A j, k \in DOMAIN s : s[j] = s[k] => j = k
<1>1. PICK m \in 0 .. Cardinality(Nodes) : s \in [1 .. m -> Nodes]
  BY DEF Lists
<1>2. \A j, k \in DOMAIN s : s[j] = s[k] => j = k
  BY DEF Lists
<1>3. m \in Nat
  BY <1>1, FS_CardinalityType, LockFreeStackAssumption DEF LockFreeStackAssumption
<1> QED
  BY <1>1, <1>2, <1>3

(* A sequence of nodes without repetition is a list.                       *)
LEMMA IsList ==
  ASSUME NEW m \in Nat, NEW s \in [1 .. m -> Nodes],
         \A j, k \in 1 .. m : s[j] = s[k] => j = k
  PROVE  s \in Lists
<1>1. IsFiniteSet(Nodes) /\ Cardinality(Nodes) \in Nat
  BY FS_CardinalityType, LockFreeStackAssumption DEF LockFreeStackAssumption
<1>2. s \in Injection(1 .. m, Nodes)
  BY Fun_IsInj
<1>3. Cardinality(1 .. m) <= Cardinality(Nodes)
  BY <1>1, <1>2, FS_Injection
<1>4. Cardinality(1 .. m) = m
  <2>1. Cardinality(1 .. m) = IF 1 > m THEN 0 ELSE m - 1 + 1
    BY FS_Interval
  <2> QED
    BY <2>1
<1>5. m \in 0 .. Cardinality(Nodes)
  BY <1>1, <1>3, <1>4
<1> QED
  BY <1>5 DEF Lists

(* A node that is not on a list may be put in front of it.                 *)
LEMMA InFront ==
  ASSUME NEW s \in Lists, NEW n \in Nodes, \A k \in DOMAIN s : s[k] # n
  PROVE  \E t \in Lists :
           /\ t # <<>> /\ s = Tail(t) /\ t[1] = n
           /\ DOMAIN t = 1 .. Len(s) + 1
           /\ \A k \in DOMAIN s : t[k + 1] = s[k]
           /\ \A k \in DOMAIN t : k = 1 \/ k - 1 \in DOMAIN s
<1> DEFINE t == [k \in 1 .. Len(s) + 1 |-> IF k = 1 THEN n ELSE s[k - 1]]
<1>1. /\ s \in Seq(Nodes) /\ Len(s) \in Nat /\ DOMAIN s = 1 .. Len(s)
      /\ \A k \in DOMAIN s : s[k] \in Nodes
      /\ \A j, k \in DOMAIN s : s[j] = s[k] => j = k
  BY ListType
<1>2. \A k \in 1 .. Len(s) + 1 : k = 1 \/ k - 1 \in DOMAIN s
  BY <1>1
<1>3. t \in [1 .. Len(s) + 1 -> Nodes]
  BY <1>1, <1>2
<1>4. \A j, k \in 1 .. Len(s) + 1 : t[j] = t[k] => j = k
  BY <1>1, <1>2
<1>5. t \in Lists
  <2> HIDE DEF t
  <2> QED
    BY <1>1, <1>3, <1>4, IsList
<1>6. t \in Seq(Nodes) /\ Len(t) = Len(s) + 1 /\ t # <<>>
  BY <1>1, <1>3
<1>7. /\ t[1] = n /\ DOMAIN t = 1 .. Len(s) + 1
      /\ \A k \in DOMAIN s : t[k + 1] = s[k]
  BY <1>1
<1> HIDE DEF t
<1>8. Tail(t) = s
  <2>1. /\ Tail(t) \in Seq(Nodes) /\ Len(Tail(t)) = Len(s)
        /\ \A k \in 1 .. Len(s) : Tail(t)[k] = t[k + 1]
    BY <1>1, <1>6
  <2> QED
    BY <2>1, <1>1, <1>7
<1> QED
  BY <1>2, <1>5, <1>6, <1>7, <1>8

(* What is left of a list without its front is one.                        *)
LEMMA WithoutFront ==
  ASSUME NEW s \in Lists, s # <<>>
  PROVE  /\ 1 \in DOMAIN s
         /\ Tail(s) \in Lists
         /\ \A k \in DOMAIN Tail(s) : k + 1 \in DOMAIN s /\ Tail(s)[k] = s[k + 1] /\ s[k + 1] # s[1]
         /\ \A k \in Nat \ {0} : k \in DOMAIN Tail(s) <=> k + 1 \in DOMAIN s
<1>1. /\ s \in Seq(Nodes) /\ Len(s) \in Nat /\ DOMAIN s = 1 .. Len(s)
      /\ \A k \in DOMAIN s : s[k] \in Nodes
      /\ \A j, k \in DOMAIN s : s[j] = s[k] => j = k
  BY ListType
<1>2. Len(s) \in Nat \ {0} /\ Len(s) - 1 \in Nat /\ 1 \in DOMAIN s
  BY <1>1
<1>3. /\ Tail(s) \in Seq(Nodes) /\ Len(Tail(s)) = Len(s) - 1 /\ DOMAIN Tail(s) = 1 .. Len(s) - 1
      /\ \A k \in 1 .. Len(s) - 1 : Tail(s)[k] = s[k + 1]
  BY <1>1, <1>2
<1>4. \A k \in 1 .. Len(s) - 1 : k + 1 \in 1 .. Len(s) /\ k + 1 # 1
  BY <1>2
<1>5. Tail(s) \in [1 .. Len(s) - 1 -> Nodes]
  <2>1. \A q \in Seq(Nodes) : q \in [1 .. Len(q) -> Nodes]
    OBVIOUS
  <2> QED
    BY <1>3, <2>1
<1>6. \A j, k \in 1 .. Len(s) - 1 : Tail(s)[j] = Tail(s)[k] => j = k
  <2>1. \A j, k \in 1 .. Len(s) - 1 : Tail(s)[j] = Tail(s)[k] => j + 1 = k + 1
    BY <1>1, <1>3, <1>4
  <2> QED
    BY <2>1
<1>7. Tail(s) \in Lists
  BY <1>2, <1>5, <1>6, IsList
<1>8. \A k \in Nat \ {0} : k \in 1 .. Len(s) - 1 <=> k + 1 \in 1 .. Len(s)
  BY <1>2
<1> QED
  BY <1>1, <1>2, <1>3, <1>4, <1>7, <1>8

(* The threads inside pop can be counted, before a step and after.         *)
LEMMA InsideCounted ==
  /\ IsFiniteSet(Inside) /\ Cardinality(Inside) \in Nat
  /\ IsFiniteSet(Inside') /\ Cardinality(Inside') \in Nat
<1>1. Inside \subseteq Poppers /\ Inside' \subseteq Poppers
  BY DEF Inside
<1>2. IsFiniteSet(Inside) /\ IsFiniteSet(Inside')
  BY <1>1, FS_Subset, LockFreeStackAssumption DEF LockFreeStackAssumption
<1> QED
  BY <1>2, FS_CardinalityType

(* One that comes in is one more.                                          *)
LEMMA OneMore ==
  ASSUME NEW u, u \notin Inside, Inside' = Inside \cup {u}
  PROVE  Cardinality(Inside') = Cardinality(Inside) + 1
  BY InsideCounted, FS_AddElement

(* One that goes out is one less.                                          *)
LEMMA OneLess ==
  ASSUME NEW u \in Inside, Inside' = Inside \ {u}
  PROVE  Cardinality(Inside') = Cardinality(Inside) - 1
  BY InsideCounted, FS_RemoveElement

(* One that counts one is alone.                                           *)
LEMMA Alone ==
  ASSUME NEW u \in Inside, Cardinality(Inside) = 1
  PROVE  Inside = {u}
<1>1. PICK x : Inside = {x}
  BY InsideCounted, FS_Singleton
<1> QED
  BY <1>1

--------------------------------------------------------------------------------
(* The steps.                                                              *)

Places == PusherPlaces \cup PopperPlaces

(* The stack before a step, and after it.                                  *)
ListsFollow == \E s, t \in Lists : SharedList(s) /\ SharedList(t)' /\ Follows(t, s)

(* A thread pushes or pops.                                                *)
LEMMA Kinds ==
  /\ Poppers \subseteq Threads /\ Pushers \subseteq Threads
  /\ \A t \in Threads : t \in Pushers <=> t \notin Poppers
BY LockFreeStackAssumption DEF LockFreeStackAssumption, Threads

(* One thread goes somewhere, the others stay.                             *)
LEMMA Goes ==
  ASSUME IInv, NEW t \in Threads, NEW to, Goto(t, to),
         t \in Pushers => to \in PusherPlaces, t \in Poppers => to \in PopperPlaces
  PROVE  /\ pc' \in [Threads -> Places]
         /\ pc'[t] = to /\ \A u \in Threads : u # t => pc'[u] = pc[u]
         /\ \A p \in Pushers : pc'[p] \in PusherPlaces
         /\ \A u \in Poppers : pc'[u] \in PopperPlaces
<1>1. pc \in [Threads -> Places] /\ to \in Places
  BY Kinds DEF IInv, TypeOK, Places, PusherPlaces, PopperPlaces
<1>2. pc' = [pc EXCEPT ![t] = to]
  BY DEF Goto
<1>3. pc'[t] = to /\ \A u \in Threads : u # t => pc'[u] = pc[u]
  BY <1>1, <1>2
<1>4. pc' \in [Threads -> Places]
  BY <1>1, <1>2
<1> QED
  BY <1>3, <1>4, Kinds DEF IInv, Roles

(* A step that leaves the nodes on the stack alone leaves the stack as it  *)
(* is.                                                                     *)
LEMMA SameList ==
  ASSUME IInv, head_node_' = head_node_,
         \A n \in allocated : (\A t \in Threads : Owns(t) => node[t] # n) =>
           /\ n \in allocated' /\ next_node'[n] = next_node[n]
           /\ \A t \in Threads : Owns(t)' => node'[t] # n
  PROVE  ListsFollow
<1>1. PICK s \in Lists : SharedList(s)
  BY DEF IInv
<1>2. \A k \in DOMAIN s : s[k] \in allocated' /\ next_node'[s[k]] = next_node[s[k]]
                          /\ \A t \in Threads : Owns(t)' => node'[t] # s[k]
  BY <1>1 DEF SharedList
<1>3. SharedList(s)'
  BY <1>1, <1>2 DEF SharedList, IsStack, At
<1> QED
  BY <1>1, <1>3 DEF ListsFollow, Follows

(* The parts of the invariant, and the stack after the step, make it hold  *)
(* after the step.                                                         *)
LEMMA Together ==
  ASSUME TypeOK', Roles', DelayListStaysEmpty', CounterAgrees', OwnNodes', EyedNodes', ListsFollow
  PROVE  IInv' /\ ListsFollow
<1>1. \E t \in Lists : SharedList(t)'
  BY DEF ListsFollow
<1> QED
  BY <1>1 DEF IInv

(* A new node is nobody else's.                                            *)
LEMMA StepPushNew ==
  ASSUME IInv, NEW p \in Threads, PushNew(p)
  PROVE  IInv' /\ ListsFollow
<1>1. p \in Pushers /\ pc[p] = "new" /\ Goto(p, "load")
  BY DEF PushNew
<1>2. PICK n \in Nodes \ allocated :
        /\ allocated' = allocated \cup {n}
        /\ data' = [data EXCEPT ![n] = 0]
        /\ next_node' = [next_node EXCEPT ![n] = Null]
        /\ node' = [node EXCEPT ![p] = n]
  BY DEF PushNew
<1>3. UNCHANGED <<head_node_, delay_delete_node_list_, threads_which_poping_, next, res, rounds, rmv_set, outcome>>
  BY DEF PushNew, atomics, test
<1>4. /\ pc' \in [Threads -> Places]
      /\ pc'[p] = "load" /\ \A u \in Threads : u # p => pc'[u] = pc[u]
      /\ \A q \in Pushers : pc'[q] \in PusherPlaces
      /\ \A u \in Poppers : pc'[u] \in PopperPlaces
  BY <1>1, Goes, Kinds DEF PusherPlaces
<1>5. node'[p] = n /\ \A u \in Threads : u # p => node'[u] = node[u]
  BY <1>2 DEF IInv, TypeOK
<1>6. \A m \in allocated : next_node'[m] = next_node[m] /\ m # n
  BY <1>2 DEF IInv, TypeOK
<1>7. TypeOK'
  BY <1>2, <1>3, <1>4 DEF IInv, TypeOK, Places, PusherPlaces, PopperPlaces
<1>8. Roles' /\ DelayListStaysEmpty'
  BY <1>1, <1>3, <1>4 DEF IInv, Roles, DelayListStaysEmpty
<1>9. CounterAgrees'
  <2>1. Inside' = Inside
    BY <1>1, <1>4, Kinds DEF Inside
  <2> QED
    BY <2>1, <1>3 DEF IInv, CounterAgrees
<1>10. \A u \in Threads : u # p => Owns(u)' = Owns(u)
  BY <1>4 DEF Owns
<1>11. OwnNodes'
  BY <1>2, <1>5, <1>6, <1>10 DEF IInv, OwnNodes
<1>12. EyedNodes'
  BY <1>1, <1>2, <1>3, <1>4, <1>5, <1>6, <1>10, Kinds DEF IInv, EyedNodes, Eyes
<1>13. ListsFollow
  BY <1>2, <1>3, <1>5, <1>6, <1>10, SameList
<1> QED
  BY <1>7, <1>8, <1>9, <1>11, <1>12, <1>13, Together

(* A pusher writes the next of its own node only.                          *)
LEMMA OwnNextWritten ==
  ASSUME IInv, NEW p \in Pushers, Owns(p), NEW h \in Nodes \cup {Null},
         next_node' = [next_node EXCEPT ![node[p]] = h]
  PROVE  /\ next_node' \in [Nodes -> Nodes \cup {Null}]
         /\ \A n \in Nodes : n # node[p] => next_node'[n] = next_node[n]
         /\ \A u \in Poppers : Eyes(u) => next_node'[node[u]] = next_node[node[u]]
<1>1. node[p] \in Nodes /\ next_node \in [Nodes -> Nodes \cup {Null}]
  BY Kinds DEF IInv, TypeOK, OwnNodes
<1>2. \A n \in Nodes : n # node[p] => next_node'[n] = next_node[n]
  BY <1>1
<1>3. \A u \in Poppers : Eyes(u) => node[u] \in Nodes /\ node[u] # node[p]
  BY DEF IInv, TypeOK, EyedNodes
<1> QED
  BY <1>1, <1>2, <1>3

(* A pusher that goes on owning its node leaves everything as it is.       *)
LEMMA StepPushAgain ==
  ASSUME IInv, NEW p \in Pushers, Owns(p), NEW to \in {"load", "cas"}, Goto(p, to),
         next_node' = [next_node EXCEPT ![node[p]] = head_node_],
         UNCHANGED <<atomics, allocated, data, locals, test>>
  PROVE  IInv' /\ ListsFollow
<1>1. UNCHANGED <<head_node_, delay_delete_node_list_, threads_which_poping_, allocated, data, node, next,
                  res, rounds, rmv_set, outcome>>
  BY DEF atomics, locals, test
<1>2. /\ pc' \in [Threads -> Places]
      /\ pc'[p] = to /\ \A u \in Threads : u # p => pc'[u] = pc[u]
      /\ \A q \in Pushers : pc'[q] \in PusherPlaces
      /\ \A u \in Poppers : pc'[u] \in PopperPlaces
  BY Goes, Kinds DEF PusherPlaces
<1>3. /\ next_node' \in [Nodes -> Nodes \cup {Null}]
      /\ \A n \in Nodes : n # node[p] => next_node'[n] = next_node[n]
      /\ \A u \in Poppers : Eyes(u) => next_node'[node[u]] = next_node[node[u]]
  <2>1. head_node_ \in Nodes \cup {Null}
    BY DEF IInv, TypeOK
  <2> QED
    BY <2>1, OwnNextWritten
<1>4. TypeOK'
  <2>1. TypeOK
    BY DEF IInv
  <2>2. pc' \in [Threads -> {"new", "load", "cas", "enter", "next", "data", "check", "delete",
                            "loadlist", "leave1", "append", "append1", "leave", "return", "done"}]
    BY <1>2 DEF Places, PusherPlaces, PopperPlaces
  <2> QED
    BY <1>1, <1>3, <2>1, <2>2 DEF TypeOK
<1>5. pc[p] # "done"
  BY DEF Owns
<1>6. Roles' /\ DelayListStaysEmpty'
  BY <1>1, <1>2, <1>5 DEF IInv, Roles, DelayListStaysEmpty
<1>7. CounterAgrees'
  <2>1. Inside' = Inside
    BY <1>2, Kinds DEF Inside
  <2> QED
    BY <2>1, <1>1 DEF IInv, CounterAgrees
<1>8. \A u \in Threads : Owns(u)' = Owns(u)
  BY <1>2 DEF Owns
<1>9. OwnNodes'
  BY <1>1, <1>8 DEF IInv, OwnNodes
<1>10. EyedNodes'
  BY <1>1, <1>2, <1>3, <1>8, Kinds DEF IInv, EyedNodes, Eyes
<1>11. ListsFollow
  <2>1. \A n \in allocated : n \in Nodes
    BY DEF IInv, TypeOK
  <2> QED
    BY <2>1, <1>1, <1>3, <1>8, SameList, Kinds
<1> QED
  BY <1>4, <1>6, <1>7, <1>9, <1>10, <1>11, Together

(* The next of the new node is the head as it is seen.                     *)
LEMMA StepPushLoad ==
  ASSUME IInv, NEW p \in Threads, PushLoad(p)
  PROVE  IInv' /\ ListsFollow
<1>1. p \in Pushers /\ Owns(p) /\ Goto(p, "cas")
  BY DEF PushLoad, Owns
<1> QED
  BY <1>1, StepPushAgain DEF PushLoad

(* A round ends.                                                           *)
LEMMA RoundEnds ==
  ASSUME IInv, NEW t \in Threads, pc[t] # "done", NEW label, Again(t, label)
  PROVE  /\ rounds' \in [Threads -> 0 .. Count]
         /\ \E to \in {label, "done"} : Goto(t, to) /\ (to # "done" => rounds'[t] < Count)
         /\ \A u \in Threads : u # t => rounds'[u] = rounds[u]
<1>1. rounds[t] < Count /\ rounds \in [Threads -> 0 .. Count] /\ Count \in Nat
  BY LockFreeStackAssumption DEF IInv, TypeOK, Roles, LockFreeStackAssumption
<1>2. rounds' = [rounds EXCEPT ![t] = @ + 1]
  BY DEF Again
<1>3. rounds[t] + 1 \in 0 .. Count
  BY <1>1
<1>4. CASE rounds[t] + 1 < Count
  BY <1>1, <1>2, <1>3, <1>4 DEF Again
<1>5. CASE ~ (rounds[t] + 1 < Count)
  BY <1>1, <1>2, <1>3, <1>5 DEF Again
<1> QED
  BY <1>4, <1>5

(* A node whose next is the head becomes the head, and nobody's own.       *)
LEMMA StepPushed ==
  ASSUME IInv, NEW p \in Pushers, pc[p] = "cas", head_node_ = next_node[node[p]],
         head_node_' = node[p], Again(p, "new"),
         UNCHANGED <<delay_delete_node_list_, threads_which_poping_, allocated, data, next_node, locals,
                     rmv_set, outcome>>
  PROVE  IInv' /\ ListsFollow
<1>1. UNCHANGED <<node, next, res>>
  BY DEF locals
<1>2. PICK to \in {"new", "done"} : Goto(p, to) /\ (to # "done" => rounds'[p] < Count)
  BY Kinds, RoundEnds
<1>3. rounds' \in [Threads -> 0 .. Count] /\ \A u \in Threads : u # p => rounds'[u] = rounds[u]
  BY Kinds, RoundEnds
<1>4. /\ pc' \in [Threads -> Places]
      /\ pc'[p] = to /\ \A u \in Threads : u # p => pc'[u] = pc[u]
      /\ \A q \in Pushers : pc'[q] \in PusherPlaces
      /\ \A u \in Poppers : pc'[u] \in PopperPlaces
  BY <1>2, Goes, Kinds DEF PusherPlaces
<1>5. Owns(p) /\ node[p] \in allocated /\ node[p] \in Nodes
  BY Kinds DEF Owns, IInv, TypeOK, OwnNodes
<1>6. TypeOK'
  BY <1>1, <1>3, <1>4, <1>5 DEF IInv, TypeOK, Places, PusherPlaces, PopperPlaces
<1>7. Roles' /\ DelayListStaysEmpty'
  BY <1>1, <1>2, <1>3, <1>4 DEF IInv, Roles, DelayListStaysEmpty
<1>8. CounterAgrees'
  <2>1. Inside' = Inside
    BY <1>4, Kinds DEF Inside
  <2> QED
    BY <2>1 DEF IInv, CounterAgrees
<1>9. ~ Owns(p)' /\ \A u \in Threads : u # p => Owns(u)' = Owns(u)
  BY <1>4 DEF Owns
<1>10. OwnNodes'
  BY <1>1, <1>9 DEF IInv, OwnNodes
<1>11. EyedNodes'
  BY <1>1, <1>4, <1>9, Kinds DEF IInv, EyedNodes, Eyes
<1>12. ListsFollow
  <2>1. PICK s \in Lists : SharedList(s)
    BY DEF IInv
  <2>2. \A k \in DOMAIN s : s[k] # node[p]
    BY <2>1, <1>5, Kinds DEF SharedList
  <2>3. PICK t \in Lists :
          /\ t # <<>> /\ s = Tail(t) /\ t[1] = node[p]
          /\ DOMAIN t = 1 .. Len(s) + 1
          /\ \A k \in DOMAIN s : t[k + 1] = s[k]
          /\ \A k \in DOMAIN t : k = 1 \/ k - 1 \in DOMAIN s
    BY <1>5, <2>2, InFront
  <2>4. Len(s) \in Nat /\ DOMAIN s = 1 .. Len(s)
    BY ListType
  <2>5. \A k \in Nat : At(t, k + 2) = At(s, k + 1)
    <3>1. \A k \in Nat : k + 2 \in 1 .. Len(s) + 1 <=> k + 1 \in 1 .. Len(s)
      BY <2>4
    <3>2. \A k \in Nat : k + 1 \in DOMAIN s => t[k + 1 + 1] = s[k + 1]
      BY <2>3
    <3>3. \A k \in Nat : k + 1 + 1 = k + 2
      OBVIOUS
    <3> QED
      BY <3>1, <3>2, <3>3, <2>3, <2>4 DEF At
  <2>6. At(t, 1) = node[p] /\ At(t, 2) = head_node_
    <3>1. 1 \in DOMAIN t
      BY <2>3, <2>4
    <3>2. At(t, 2) = At(s, 1)
      BY <2>5
    <3> QED
      BY <3>1, <3>2, <2>1, <2>3 DEF At, SharedList, IsStack
  <2>7. ASSUME NEW k \in DOMAIN t
        PROVE  /\ next_node[t[k]] = At(t, k + 1)
               /\ t[k] \in allocated /\ \A u \in Threads : Owns(u)' => node[u] # t[k]
    <3>1. CASE k = 1
      <4>1. \A u \in Threads : Owns(u)' => node[u] # node[p]
        BY <1>5, <1>9, Kinds DEF IInv, OwnNodes
      <4> QED
        BY <3>1, <4>1, <2>3, <2>6, <1>5
    <3>2. CASE k # 1
      <4>1. k - 1 \in DOMAIN s /\ k \in Nat /\ k = (k - 2) + 2 /\ k - 1 = (k - 2) + 1 /\ k - 2 \in Nat
        BY <3>2, <2>3, <2>4
      <4>2. t[k] = s[k - 1]
        BY <4>1, <2>3
      <4>3. At(t, k + 1) = At(s, k)
        <5>1. k - 1 \in Nat /\ k - 1 + 2 = k + 1 /\ k - 1 + 1 = k
          BY <4>1
        <5> QED
          BY <5>1, <2>5
      <4>4. next_node[s[k - 1]] = At(s, k)
        <5>1. next_node[s[k - 1]] = At(s, k - 1 + 1)
          BY <4>1, <2>1 DEF SharedList, IsStack
        <5> QED
          BY <5>1, <4>1
      <4>5. s[k - 1] \in allocated /\ \A u \in Threads : Owns(u) => node[u] # s[k - 1]
        BY <4>1, <2>1 DEF SharedList
      <4> QED
        BY <4>2, <4>3, <4>4, <4>5, <1>9
    <3> QED
      BY <3>1, <3>2
  <2>8. SharedList(t)'
    <3>1. head_node_' = At(t, 1)
      BY <2>6
    <3> QED
      BY <3>1, <2>7, <1>1 DEF SharedList, IsStack, At
  <2> QED
    BY <2>1, <2>3, <2>8 DEF ListsFollow, Follows
<1> QED
  BY <1>6, <1>7, <1>8, <1>10, <1>11, <1>12, Together

(* The CAS of push succeeds, or stores what it has found.                  *)
LEMMA StepPushCas ==
  ASSUME IInv, NEW p \in Threads, PushCas(p)
  PROVE  IInv' /\ ListsFollow
<1>1. p \in Pushers /\ pc[p] = "cas" /\ Owns(p)
  BY DEF PushCas, Owns
<1>2. CASE head_node_ = next_node[node[p]] /\ head_node_' = node[p] /\ Again(p, "new") /\ UNCHANGED next_node
  BY <1>1, <1>2, StepPushed DEF PushCas
<1>3. CASE /\ next_node' = [next_node EXCEPT ![node[p]] = head_node_] /\ Goto(p, "load")
           /\ UNCHANGED <<head_node_, rounds>>
  BY <1>1, <1>3, StepPushAgain DEF PushCas, atomics, test
<1> QED
  BY <1>2, <1>3 DEF PushCas

(* A popper that neither takes a node nor writes to one leaves everything  *)
(* as it is but the counter, and what it has its eye on itself.            *)
LEMMA PopperMoves ==
  ASSUME IInv, NEW u \in Poppers, NEW to \in PopperPlaces, Goto(u, to),
         to \in {"data", "check", "delete"} => Owns(u),
         UNCHANGED <<head_node_, delay_delete_node_list_, allocated, next_node>>,
         \A t \in Threads : (t # u \/ Owns(u)) => node'[t] = node[t]
  PROVE  /\ pc' \in [Threads -> Places]
         /\ pc'[u] = to /\ \A t \in Threads : t # u => pc'[t] = pc[t]
         /\ \A q \in Pushers : pc'[q] \in PusherPlaces
         /\ \A t \in Poppers : pc'[t] \in PopperPlaces
         /\ \A t \in Threads : Owns(t)' => Owns(t) /\ node'[t] = node[t]
         /\ DelayListStaysEmpty' /\ OwnNodes' /\ ListsFollow
<1>1. /\ pc' \in [Threads -> Places]
      /\ pc'[u] = to /\ \A t \in Threads : t # u => pc'[t] = pc[t]
      /\ \A q \in Pushers : pc'[q] \in PusherPlaces
      /\ \A t \in Poppers : pc'[t] \in PopperPlaces
  BY Goes, Kinds
<1>2. \A t \in Threads : Owns(t)' => Owns(t) /\ node'[t] = node[t]
  BY <1>1, Kinds DEF Owns
<1>3. OwnNodes'
  BY <1>2 DEF IInv, OwnNodes
<1>4. ListsFollow
  BY <1>2, SameList
<1> QED
  BY <1>1, <1>2, <1>3, <1>4 DEF IInv, DelayListStaysEmpty

(* What a popper that is not at "next" or "cas" does, and does not lead to *)
(* a deletion, disturbs nobody.                                            *)
LEMMA OthersEyes ==
  ASSUME IInv, NEW u \in Poppers, pc' \in [Threads -> Places],
         \A t \in Threads : t # u => pc'[t] = pc[t],
         pc'[u] = "delete" => pc[u] = "delete",
         UNCHANGED <<allocated, next_node>>,
         \A t \in Threads : t # u => node'[t] = node[t] /\ next'[t] = next[t],
         pc'[u] = "delete" => node'[u] = node[u],
         ~ Eyes(u)'
  PROVE  EyedNodes'
<1>1. \A p \in Pushers : p # u /\ Owns(p)' = Owns(p)
  BY Kinds DEF Owns
<1> QED
  BY <1>1, Kinds DEF IInv, EyedNodes, Eyes

(* Coming in.                                                              *)
LEMMA StepEnter ==
  ASSUME IInv, NEW u \in Threads, Enter(u)
  PROVE  IInv' /\ ListsFollow
<1>1. u \in Poppers /\ pc[u] = "enter"
  BY Kinds DEF Enter, IInv, Roles, PusherPlaces
<1>2. /\ Goto(u, "load") /\ threads_which_poping_' = threads_which_poping_ + 1
      /\ UNCHANGED <<head_node_, delay_delete_node_list_, allocated, data, next_node, node, next, res, rounds, rmv_set,
                     outcome>>
  BY DEF Enter, nodes, locals, test
<1>3. /\ pc' \in [Threads -> Places]
      /\ pc'[u] = "load" /\ \A t \in Threads : t # u => pc'[t] = pc[t]
      /\ \A q \in Pushers : pc'[q] \in PusherPlaces
      /\ \A t \in Poppers : pc'[t] \in PopperPlaces
      /\ DelayListStaysEmpty' /\ OwnNodes' /\ ListsFollow
  BY <1>1, <1>2, PopperMoves DEF PopperPlaces
<1>4. TypeOK'
  <2>1. threads_which_poping_' \in Nat
    <3>1. threads_which_poping_ \in Nat
      BY DEF IInv, TypeOK
    <3> QED
      BY <3>1, <1>2
  <2> QED
    BY <2>1, <1>2, <1>3 DEF IInv, TypeOK, Places, PusherPlaces, PopperPlaces
<1>5. Roles'
  BY <1>1, <1>2, <1>3, Kinds DEF IInv, Roles
<1>6. CounterAgrees'
  <2>1. u \notin Inside /\ Inside' = Inside \cup {u}
    BY <1>1, <1>3, Kinds DEF Inside
  <2> QED
    BY <2>1, <1>2, OneMore DEF IInv, CounterAgrees
<1>7. EyedNodes'
  BY <1>1, <1>2, <1>3, OthersEyes DEF Eyes
<1> QED
  BY <1>3, <1>4, <1>5, <1>6, <1>7, Together

(* The head that is seen is no pusher's, and nobody deletes it.            *)
LEMMA StepPopLoad ==
  ASSUME IInv, NEW u \in Threads, PopLoad(u)
  PROVE  IInv' /\ ListsFollow
<1> DEFINE to == IF head_node_ = Null THEN "leave" ELSE "next"
<1>1. u \in Poppers /\ pc[u] = "load" /\ Goto(u, to)
  BY DEF PopLoad
<1>2. /\ node' = [node EXCEPT ![u] = head_node_] /\ res' = [res EXCEPT ![u] = Null]
      /\ UNCHANGED <<head_node_, delay_delete_node_list_, threads_which_poping_, allocated, data, next_node, next,
                     rounds, rmv_set, outcome>>
  BY DEF PopLoad, atomics, nodes, test, Nothing
<1>3. node'[u] = head_node_ /\ \A t \in Threads : t # u => node'[t] = node[t]
  BY <1>2, Kinds DEF IInv, TypeOK
<1>4. ~ Owns(u)
  BY <1>1, Kinds DEF Owns
<1>5. /\ pc' \in [Threads -> Places]
      /\ pc'[u] = to /\ \A t \in Threads : t # u => pc'[t] = pc[t]
      /\ \A q \in Pushers : pc'[q] \in PusherPlaces
      /\ \A t \in Poppers : pc'[t] \in PopperPlaces
      /\ \A t \in Threads : Owns(t)' => Owns(t) /\ node'[t] = node[t]
      /\ DelayListStaysEmpty' /\ OwnNodes' /\ ListsFollow
  <2>1. to \in PopperPlaces /\ to \notin {"data", "check", "delete"}
    BY DEF PopperPlaces
  <2> HIDE DEF to
  <2> QED
    BY <2>1, <1>1, <1>2, <1>3, <1>4, PopperMoves
<1>6. TypeOK'
  BY <1>2, <1>5 DEF IInv, TypeOK, Places, PusherPlaces, PopperPlaces
<1>7. Roles'
  BY <1>1, <1>2, <1>5, Kinds DEF IInv, Roles
<1>8. CounterAgrees'
  <2>1. Inside' = Inside
    BY <1>1, <1>5, Kinds DEF Inside
  <2> QED
    BY <2>1, <1>2 DEF IInv, CounterAgrees
<1>9. head_node_ # Null => /\ head_node_ \in allocated
                           /\ \A t \in Threads : Owns(t) => node[t] # head_node_
  <2>1. PICK s \in Lists : SharedList(s)
    BY DEF IInv
  <2>2. head_node_ # Null => 1 \in DOMAIN s /\ head_node_ = s[1]
    BY <2>1 DEF SharedList, IsStack, At
  <2> QED
    BY <2>1, <2>2 DEF SharedList
<1>10. EyedNodes'
  <2> SUFFICES ASSUME NEW v \in Poppers, Eyes(v)'
               PROVE  /\ node'[v] \in allocated
                      /\ \A p \in Pushers : Owns(p)' => node'[v] # node'[p]
                      /\ \A t \in Poppers : pc'[t] = "delete" => node'[v] # node'[t]
                      /\ pc'[v] = "cas" => next'[v] = next_node'[node'[v]]
    BY <1>2 DEF EyedNodes
  <2>1. \A t \in Poppers : pc'[t] = "delete" => pc[t] = "delete" /\ Owns(t) /\ node'[t] = node[t]
    BY <1>1, <1>3, <1>5, Kinds DEF Owns
  <2>2. CASE v = u
    <3>1. head_node_ # Null /\ pc'[v] = "next" /\ node'[v] = head_node_
      BY <2>2, <1>3, <1>5 DEF Eyes
    <3> QED
      BY <3>1, <2>1, <1>5, <1>9, Kinds
  <2>3. CASE v # u
    BY <2>1, <2>3, <1>2, <1>3, <1>5, Kinds DEF IInv, EyedNodes, Eyes
  <2> QED
    BY <2>2, <2>3
<1> QED
  BY <1>5, <1>6, <1>7, <1>8, <1>10, Together

(* The next that is read is the one the node has.                          *)
LEMMA StepPopNext ==
  ASSUME IInv, NEW u \in Threads, PopNext(u)
  PROVE  IInv' /\ ListsFollow
<1>1. u \in Poppers /\ pc[u] = "next"
  BY Kinds DEF PopNext, IInv, Roles, PusherPlaces
<1>2. /\ Goto(u, "cas") /\ next' = [next EXCEPT ![u] = next_node[node[u]]]
      /\ UNCHANGED <<head_node_, delay_delete_node_list_, threads_which_poping_, allocated, data, next_node, node, res,
                     rounds, rmv_set, outcome>>
  BY DEF PopNext, atomics, nodes, test
<1>3. /\ pc' \in [Threads -> Places]
      /\ pc'[u] = "cas" /\ \A t \in Threads : t # u => pc'[t] = pc[t]
      /\ \A q \in Pushers : pc'[q] \in PusherPlaces
      /\ \A t \in Poppers : pc'[t] \in PopperPlaces
      /\ \A t \in Threads : Owns(t)' => Owns(t) /\ node'[t] = node[t]
      /\ DelayListStaysEmpty' /\ OwnNodes' /\ ListsFollow
  BY <1>1, <1>2, PopperMoves DEF PopperPlaces
<1>4. Eyes(u) /\ node[u] \in Nodes /\ next_node[node[u]] \in Nodes \cup {Null}
  BY <1>1 DEF IInv, TypeOK, EyedNodes, Eyes
<1>5. next'[u] = next_node[node[u]] /\ \A t \in Threads : t # u => next'[t] = next[t]
  BY <1>1, <1>2, Kinds DEF IInv, TypeOK
<1>6. TypeOK'
  BY <1>2, <1>3, <1>4 DEF IInv, TypeOK, Places, PusherPlaces, PopperPlaces
<1>7. Roles'
  BY <1>1, <1>2, <1>3, Kinds DEF IInv, Roles
<1>8. CounterAgrees'
  <2>1. Inside' = Inside
    BY <1>1, <1>3, Kinds DEF Inside
  <2> QED
    BY <2>1, <1>2 DEF IInv, CounterAgrees
<1>9. EyedNodes'
  BY <1>1, <1>2, <1>3, <1>4, <1>5, Kinds DEF IInv, EyedNodes, Eyes
<1> QED
  BY <1>3, <1>6, <1>7, <1>8, <1>9, Together

(* The front is taken off, and is the popper's own.                        *)
LEMMA StepPopped ==
  ASSUME IInv, NEW u \in Poppers, pc[u] = "cas", head_node_ = node[u], head_node_' = next[u], Goto(u, "data"),
         UNCHANGED <<delay_delete_node_list_, threads_which_poping_, nodes, locals, test>>
  PROVE  IInv' /\ ListsFollow
<1>1. UNCHANGED <<delay_delete_node_list_, threads_which_poping_, allocated, data, next_node, node, next, res,
                  rounds, rmv_set, outcome>>
  BY DEF nodes, locals, test
<1>2. /\ pc' \in [Threads -> Places]
      /\ pc'[u] = "data" /\ \A t \in Threads : t # u => pc'[t] = pc[t]
      /\ \A q \in Pushers : pc'[q] \in PusherPlaces
      /\ \A t \in Poppers : pc'[t] \in PopperPlaces
  BY Goes, Kinds DEF PopperPlaces
<1>3. /\ node[u] \in allocated /\ node[u] \in Nodes /\ node[u] # Null /\ next[u] = next_node[node[u]]
      /\ next[u] \in Nodes \cup {Null}
  BY Kinds, LockFreeStackAssumption DEF IInv, TypeOK, EyedNodes, Eyes, LockFreeStackAssumption
<1>4. PICK s \in Lists : SharedList(s)
  BY DEF IInv
<1>5. 1 \in DOMAIN s /\ s[1] = node[u] /\ s # <<>>
  <2>1. 1 \in DOMAIN s /\ s[1] = node[u]
    BY <1>3, <1>4 DEF SharedList, IsStack, At
  <2> QED
    BY <2>1
<1>6. /\ Tail(s) \in Lists
      /\ \A k \in DOMAIN Tail(s) : k + 1 \in DOMAIN s /\ Tail(s)[k] = s[k + 1] /\ s[k + 1] # s[1]
      /\ \A k \in Nat \ {0} : k \in DOMAIN Tail(s) <=> k + 1 \in DOMAIN s
  BY <1>5, WithoutFront
<1>7. TypeOK'
  <2>1. TypeOK
    BY DEF IInv
  <2>2. pc' \in [Threads -> {"new", "load", "cas", "enter", "next", "data", "check", "delete",
                            "loadlist", "leave1", "append", "append1", "leave", "return", "done"}]
    BY <1>2 DEF Places, PusherPlaces, PopperPlaces
  <2> QED
    BY <1>1, <1>3, <2>1, <2>2 DEF TypeOK
<1>8. Roles' /\ DelayListStaysEmpty'
  BY <1>1, <1>2, Kinds DEF IInv, Roles, DelayListStaysEmpty
<1>9. CounterAgrees'
  <2>1. Inside' = Inside
    BY <1>2, Kinds DEF Inside
  <2> QED
    BY <2>1, <1>1 DEF IInv, CounterAgrees
<1>10. \A t \in Threads : t # u => Owns(t)' = Owns(t)
  BY <1>2 DEF Owns
<1>11. OwnNodes'
  <2>1. \A t \in Threads : Owns(t) => node[t] # node[u]
    BY <1>4, <1>5 DEF SharedList
  <2> QED
    BY <2>1, <1>1, <1>3, <1>10 DEF IInv, OwnNodes
<1>12. EyedNodes'
  BY <1>1, <1>2, <1>10, Kinds DEF IInv, EyedNodes, Eyes
<1>13. ListsFollow
  <2>1. \A k \in Nat \ {0} : At(Tail(s), k) = At(s, k + 1)
    BY <1>6 DEF At
  <2>2. head_node_' = At(Tail(s), 1)
    <3>1. At(Tail(s), 1) = At(s, 2)
      BY <2>1
    <3>2. next_node[s[1]] = At(s, 1 + 1)
      BY <1>4, <1>5 DEF SharedList, IsStack
    <3> QED
      BY <3>1, <3>2, <1>3, <1>5
  <2>3. ASSUME NEW k \in DOMAIN Tail(s)
        PROVE  /\ next_node[Tail(s)[k]] = At(Tail(s), k + 1)
               /\ Tail(s)[k] \in allocated /\ \A t \in Threads : Owns(t)' => node[t] # Tail(s)[k]
    <3>1. k + 1 \in DOMAIN s /\ Tail(s)[k] = s[k + 1] /\ s[k + 1] # node[u]
      BY <1>5, <1>6
    <3>2. k \in Nat \ {0}
      BY <1>6, ListType
    <3>3. next_node[s[k + 1]] = At(s, k + 1 + 1)
      BY <3>1, <1>4 DEF SharedList, IsStack
    <3>4. At(Tail(s), k + 1) = At(s, k + 1 + 1)
      BY <2>1, <3>2
    <3>5. s[k + 1] \in allocated /\ \A t \in Threads : Owns(t) => node[t] # s[k + 1]
      BY <3>1, <1>4 DEF SharedList
    <3> QED
      BY <3>1, <3>3, <3>4, <3>5, <1>10
  <2>4. SharedList(Tail(s))'
    BY <2>2, <2>3, <1>1 DEF SharedList, IsStack, At
  <2> QED
    BY <2>4, <1>4, <1>5, <1>6 DEF ListsFollow, Follows
<1> QED
  BY <1>7, <1>8, <1>9, <1>11, <1>12, <1>13, Together

(* The CAS of pop succeeds, or everything is to be read anew.              *)
LEMMA StepPopCas ==
  ASSUME IInv, NEW u \in Threads, PopCas(u)
  PROVE  IInv' /\ ListsFollow
<1>1. u \in Poppers /\ pc[u] = "cas"
  BY DEF PopCas
<1>2. CASE head_node_ = node[u] /\ head_node_' = next[u] /\ Goto(u, "data")
  BY <1>1, <1>2, StepPopped DEF PopCas
<1>3. CASE Goto(u, "load") /\ UNCHANGED head_node_
  <2>1. UNCHANGED <<head_node_, delay_delete_node_list_, threads_which_poping_, allocated, data, next_node, node, next,
                    res, rounds, rmv_set, outcome>>
    BY <1>3 DEF PopCas, nodes, locals, test
  <2>2. /\ pc' \in [Threads -> Places]
        /\ pc'[u] = "load" /\ \A t \in Threads : t # u => pc'[t] = pc[t]
        /\ \A q \in Pushers : pc'[q] \in PusherPlaces
        /\ \A t \in Poppers : pc'[t] \in PopperPlaces
        /\ DelayListStaysEmpty' /\ OwnNodes' /\ ListsFollow
    BY <1>1, <1>3, <2>1, PopperMoves DEF PopperPlaces
  <2>3. TypeOK'
    BY <2>1, <2>2 DEF IInv, TypeOK, Places, PusherPlaces, PopperPlaces
  <2>4. Roles'
    BY <1>1, <2>1, <2>2, Kinds DEF IInv, Roles
  <2>5. CounterAgrees'
    <3>1. Inside' = Inside
      BY <1>1, <2>2, Kinds DEF Inside
    <3> QED
      BY <3>1, <2>1 DEF IInv, CounterAgrees
  <2>6. EyedNodes'
    BY <1>1, <2>1, <2>2, OthersEyes DEF Eyes
  <2> QED
    BY <2>2, <2>3, <2>4, <2>5, <2>6, Together
<1> QED
  BY <1>2, <1>3 DEF PopCas

(* The value is read from a node that is the popper's own.                 *)
LEMMA StepPopData ==
  ASSUME IInv, NEW u \in Threads, PopData(u)
  PROVE  IInv' /\ ListsFollow
<1>1. u \in Poppers /\ pc[u] = "data" /\ Owns(u) /\ node[u] \in Nodes
  BY Kinds DEF PopData, IInv, TypeOK, Roles, PusherPlaces, Owns, OwnNodes
<1>2. /\ Goto(u, "check") /\ res' = [res EXCEPT ![u] = data[node[u]]]
      /\ UNCHANGED <<head_node_, delay_delete_node_list_, threads_which_poping_, allocated, data, next_node, node, next,
                     rounds, rmv_set, outcome>>
  BY DEF PopData, atomics, nodes, test
<1>3. /\ pc' \in [Threads -> Places]
      /\ pc'[u] = "check" /\ \A t \in Threads : t # u => pc'[t] = pc[t]
      /\ \A q \in Pushers : pc'[q] \in PusherPlaces
      /\ \A t \in Poppers : pc'[t] \in PopperPlaces
      /\ DelayListStaysEmpty' /\ OwnNodes' /\ ListsFollow
  BY <1>1, <1>2, PopperMoves DEF PopperPlaces
<1>4. TypeOK'
  BY <1>2, <1>3 DEF IInv, TypeOK, Places, PusherPlaces, PopperPlaces
<1>5. Roles'
  <2>1. data[node[u]] \in Nat
    BY <1>1 DEF IInv, TypeOK
  <2>2. res' \in [Threads -> Nat \cup {Null}]
    BY <2>1, <1>2 DEF IInv, Roles
  <2> QED
    BY <1>1, <1>2, <1>3, <2>2, Kinds DEF IInv, Roles
<1>6. CounterAgrees'
  <2>1. Inside' = Inside
    BY <1>1, <1>3, Kinds DEF Inside
  <2> QED
    BY <2>1, <1>2 DEF IInv, CounterAgrees
<1>7. EyedNodes'
  BY <1>1, <1>2, <1>3, OthersEyes DEF Eyes
<1> QED
  BY <1>3, <1>4, <1>5, <1>6, <1>7, Together

(* Who counts one is alone in pop: nobody else has its eye on a node.      *)
LEMMA StepCheck ==
  ASSUME IInv, NEW u \in Threads, Check(u)
  PROVE  IInv' /\ ListsFollow
<1> DEFINE to == IF threads_which_poping_ = 1 THEN "delete" ELSE "append"
<1>1. u \in Poppers /\ pc[u] = "check" /\ Owns(u)
  BY Kinds DEF Check, IInv, Roles, PusherPlaces, Owns
<1>2. /\ Goto(u, to)
      /\ UNCHANGED <<head_node_, delay_delete_node_list_, threads_which_poping_, allocated, data, next_node, node, next,
                     res, rounds, rmv_set, outcome>>
  BY DEF Check, atomics, nodes, locals, test
<1>3. /\ pc' \in [Threads -> Places]
      /\ pc'[u] = to /\ \A t \in Threads : t # u => pc'[t] = pc[t]
      /\ \A q \in Pushers : pc'[q] \in PusherPlaces
      /\ \A t \in Poppers : pc'[t] \in PopperPlaces
      /\ DelayListStaysEmpty' /\ OwnNodes' /\ ListsFollow
  <2>1. to \in PopperPlaces
    BY DEF PopperPlaces
  <2> HIDE DEF to
  <2> QED
    BY <2>1, <1>1, <1>2, PopperMoves
<1>4. TypeOK'
  BY <1>2, <1>3 DEF IInv, TypeOK, Places, PusherPlaces, PopperPlaces
<1>5. Roles'
  BY <1>1, <1>2, <1>3, Kinds DEF IInv, Roles
<1>6. u \in Inside
  BY <1>1 DEF Inside
<1>7. CounterAgrees'
  <2>1. Inside' = Inside
    BY <1>1, <1>3, Kinds DEF Inside
  <2> QED
    BY <2>1, <1>2 DEF IInv, CounterAgrees
<1>8. EyedNodes'
  <2>1. CASE threads_which_poping_ = 1
    <3>1. Inside = {u}
      BY <1>6, <2>1, Alone DEF IInv, CounterAgrees
    <3>2. \A v \in Poppers : ~ Eyes(v)'
      BY <3>1, <1>3, Kinds DEF Inside, Eyes
    <3> QED
      BY <3>2 DEF EyedNodes
  <2>2. CASE threads_which_poping_ # 1
    BY <2>2, <1>1, <1>2, <1>3, OthersEyes DEF Eyes
  <2> QED
    BY <2>1, <2>2
<1> QED
  BY <1>3, <1>4, <1>5, <1>7, <1>8, Together

(* The node that is deleted is no other thread's, not on the stack, and    *)
(* nobody has its eye on it.                                               *)
LEMMA StepDelete ==
  ASSUME IInv, NEW u \in Threads, Delete(u)
  PROVE  IInv' /\ ListsFollow
<1>1. u \in Poppers /\ pc[u] = "delete" /\ Owns(u)
  BY Kinds DEF Delete, IInv, Roles, PusherPlaces, Owns
<1>2. /\ Goto(u, "loadlist") /\ allocated' = allocated \ {node[u]}
      /\ UNCHANGED <<head_node_, delay_delete_node_list_, threads_which_poping_, data, next_node, node, next, res,
                     rounds, rmv_set, outcome>>
  BY DEF Delete, atomics, locals, test
<1>3. /\ pc' \in [Threads -> Places]
      /\ pc'[u] = "loadlist" /\ \A t \in Threads : t # u => pc'[t] = pc[t]
      /\ \A q \in Pushers : pc'[q] \in PusherPlaces
      /\ \A t \in Poppers : pc'[t] \in PopperPlaces
  BY <1>1, <1>2, Goes, Kinds DEF PopperPlaces
<1>4. TypeOK'
  BY <1>2, <1>3 DEF IInv, TypeOK, Places, PusherPlaces, PopperPlaces
<1>5. Roles' /\ DelayListStaysEmpty'
  BY <1>1, <1>2, <1>3, Kinds DEF IInv, Roles, DelayListStaysEmpty
<1>6. CounterAgrees'
  <2>1. Inside' = Inside
    BY <1>1, <1>3, Kinds DEF Inside
  <2> QED
    BY <2>1, <1>2 DEF IInv, CounterAgrees
<1>7. ~ Owns(u)' /\ \A t \in Threads : t # u => Owns(t)' = Owns(t)
  BY <1>1, <1>3, Kinds DEF Owns
<1>8. OwnNodes'
  BY <1>1, <1>2, <1>7, Kinds DEF IInv, OwnNodes
<1>9. EyedNodes'
  BY <1>1, <1>2, <1>3, <1>7, Kinds DEF IInv, EyedNodes, Eyes
<1>10. ListsFollow
  BY <1>1, <1>2, <1>7, SameList
<1> QED
  BY <1>4, <1>5, <1>6, <1>8, <1>9, <1>10, Together

(* The list of nodes to be deleted is looked at.                           *)
LEMMA StepLoadList ==
  ASSUME IInv, NEW u \in Threads, LoadList(u)
  PROVE  IInv' /\ ListsFollow
<1>1. u \in Poppers /\ pc[u] = "loadlist"
  BY Kinds DEF LoadList, IInv, Roles, PusherPlaces
<1>2. /\ Goto(u, "leave1") /\ next' = [next EXCEPT ![u] = delay_delete_node_list_]
      /\ UNCHANGED <<head_node_, delay_delete_node_list_, threads_which_poping_, allocated, data, next_node, node, res,
                     rounds, rmv_set, outcome>>
  BY DEF LoadList, atomics, nodes, test
<1>3. /\ pc' \in [Threads -> Places]
      /\ pc'[u] = "leave1" /\ \A t \in Threads : t # u => pc'[t] = pc[t]
      /\ \A q \in Pushers : pc'[q] \in PusherPlaces
      /\ \A t \in Poppers : pc'[t] \in PopperPlaces
      /\ DelayListStaysEmpty' /\ OwnNodes' /\ ListsFollow
  BY <1>1, <1>2, PopperMoves DEF PopperPlaces
<1>4. TypeOK'
  BY <1>2, <1>3 DEF IInv, TypeOK, Places, PusherPlaces, PopperPlaces
<1>5. Roles'
  BY <1>1, <1>2, <1>3, Kinds DEF IInv, Roles
<1>6. CounterAgrees'
  <2>1. Inside' = Inside
    BY <1>1, <1>3, Kinds DEF Inside
  <2> QED
    BY <2>1, <1>2 DEF IInv, CounterAgrees
<1>7. EyedNodes'
  <2>1. \A t \in Threads : t # u => next'[t] = next[t]
    BY <1>2 DEF IInv, TypeOK
  <2> QED
    BY <1>1, <1>2, <1>3, <2>1, OthersEyes DEF Eyes
<1> QED
  BY <1>3, <1>4, <1>5, <1>6, <1>7, Together

(* Going out, alone or not.                                                *)
LEMMA GoesOut ==
  ASSUME IInv, NEW u \in Poppers, pc[u] \in {"leave1", "leave"}, NEW to \in {"return", "append1"}, Goto(u, to),
         threads_which_poping_' = threads_which_poping_ - 1,
         UNCHANGED <<head_node_, delay_delete_node_list_, nodes, locals, test>>
  PROVE  IInv' /\ ListsFollow
<1>1. UNCHANGED <<head_node_, delay_delete_node_list_, allocated, data, next_node, node, next, res,
                  rounds, rmv_set, outcome>>
  BY DEF nodes, locals, test
<1>2. /\ pc' \in [Threads -> Places]
      /\ pc'[u] = to /\ \A t \in Threads : t # u => pc'[t] = pc[t]
      /\ \A q \in Pushers : pc'[q] \in PusherPlaces
      /\ \A t \in Poppers : pc'[t] \in PopperPlaces
      /\ DelayListStaysEmpty' /\ OwnNodes' /\ ListsFollow
  BY <1>1, PopperMoves DEF PopperPlaces
<1>3. CounterAgrees' /\ threads_which_poping_' \in Nat
  <2>1. u \in Inside /\ Inside' = Inside \ {u}
    BY <1>2, Kinds DEF Inside
  <2> QED
    BY <2>1, OneLess, InsideCounted DEF IInv, CounterAgrees
<1>4. TypeOK'
  BY <1>1, <1>2, <1>3 DEF IInv, TypeOK, Places, PusherPlaces, PopperPlaces
<1>5. Roles'
  BY <1>1, <1>2, Kinds DEF IInv, Roles
<1>6. EyedNodes'
  BY <1>1, <1>2, OthersEyes DEF Eyes
<1> QED
  BY <1>2, <1>3, <1>4, <1>5, <1>6, Together

(* The two ways out.                                                       *)
LEMMA StepLeave ==
  ASSUME IInv, NEW u \in Threads, Leave(u) \/ LeaveAlone(u)
  PROVE  IInv' /\ ListsFollow
<1>1. u \in Poppers
  BY Kinds DEF Leave, LeaveAlone, IInv, Roles, PusherPlaces
<1>2. CASE Leave(u)
  BY <1>1, <1>2, GoesOut DEF Leave
<1>3. CASE LeaveAlone(u)
  <2>1. PICK to \in {"return", "append1"} : Goto(u, to)
    BY <1>3 DEF LeaveAlone
  <2> QED
    BY <1>1, <1>3, <2>1, GoesOut DEF LeaveAlone
<1> QED
  BY <1>2, <1>3

(* Nothing that the invariant speaks of changes when the program ends.     *)
LEMMA ProgramEnds ==
  ASSUME IInv, outcome' \in {"running", "null dereference", "bad_optional_access"},
         UNCHANGED <<atomics, nodes, locals, rounds, pc, rmv_set>>
  PROVE  IInv' /\ ListsFollow
<1>1. UNCHANGED <<head_node_, delay_delete_node_list_, threads_which_poping_, allocated, data, next_node, node, next,
                  res, rounds, rmv_set, pc>>
  BY DEF atomics, nodes, locals
<1>2. \A t \in Threads : Owns(t)' = Owns(t)
  BY <1>1 DEF Owns
<1>3. ListsFollow
  BY <1>1, <1>2, SameList
<1>4. TypeOK' /\ Roles' /\ DelayListStaysEmpty'
  BY <1>1 DEF IInv, TypeOK, Roles, DelayListStaysEmpty
<1>5. CounterAgrees'
  <2>1. Inside' = Inside
    BY <1>1 DEF Inside
  <2> QED
    BY <2>1, <1>1 DEF IInv, CounterAgrees
<1>6. OwnNodes' /\ EyedNodes'
  BY <1>1, <1>2, Kinds DEF IInv, OwnNodes, EyedNodes, Eyes
<1> QED
  BY <1>3, <1>4, <1>5, <1>6, Together

(* There is never a node on the list to go on from.                        *)
LEMMA StepAppend ==
  ASSUME IInv, NEW u \in Threads, Append_(u)
  PROVE  IInv' /\ ListsFollow
<1>1. delay_delete_node_list_ = Null
  BY DEF IInv, DelayListStaysEmpty
<1>2. outcome' = "null dereference" /\ UNCHANGED <<atomics, nodes, locals, rounds, pc, rmv_set>>
  BY <1>1 DEF Append_, atomics
<1> QED
  BY <1>2, ProgramEnds

(* Back in the test.                                                       *)
LEMMA StepReturn ==
  ASSUME IInv, NEW u \in Threads, Return(u)
  PROVE  IInv' /\ ListsFollow
<1>1. u \in Poppers /\ pc[u] = "return"
  BY Kinds DEF Return, IInv, Roles, PusherPlaces
<1>2. CASE outcome' = "bad_optional_access" /\ UNCHANGED <<rounds, pc, rmv_set>>
  BY <1>2, ProgramEnds DEF Return
<1>3. CASE /\ Again(u, "enter")
           /\ rmv_set' = IF res[u] = Nothing \/ (u \in Trusting /\ res[u] # 0) THEN rmv_set
                         ELSE rmv_set \cup {res[u]}
           /\ UNCHANGED outcome
  <2>1. UNCHANGED <<head_node_, delay_delete_node_list_, threads_which_poping_, allocated, data, next_node, node, next,
                    res, outcome>>
    BY <1>3 DEF Return, atomics, nodes, locals
  <2>2. PICK to \in {"enter", "done"} : Goto(u, to) /\ (to # "done" => rounds'[u] < Count)
    BY <1>1, <1>3, RoundEnds
  <2>3. rounds' \in [Threads -> 0 .. Count] /\ \A t \in Threads : t # u => rounds'[t] = rounds[t]
    BY <1>1, <1>3, RoundEnds
  <2>4. /\ pc' \in [Threads -> Places]
        /\ pc'[u] = to /\ \A t \in Threads : t # u => pc'[t] = pc[t]
        /\ \A q \in Pushers : pc'[q] \in PusherPlaces
        /\ \A t \in Poppers : pc'[t] \in PopperPlaces
        /\ DelayListStaysEmpty' /\ OwnNodes' /\ ListsFollow
    BY <1>1, <2>1, <2>2, PopperMoves DEF PopperPlaces
  <2>5. rmv_set' \subseteq Nat
    <3>1. res[u] \in Nat \cup {Nothing} /\ rmv_set \subseteq Nat
      BY <1>1, Kinds DEF IInv, TypeOK, Roles, Nothing
    <3> QED
      BY <3>1, <1>3
  <2>6. TypeOK'
    BY <2>1, <2>3, <2>4, <2>5 DEF IInv, TypeOK, Places, PusherPlaces, PopperPlaces
  <2>7. Roles'
    BY <2>1, <2>2, <2>3, <2>4, Kinds DEF IInv, Roles
  <2>8. CounterAgrees'
    <3>1. Inside' = Inside
      BY <1>1, <2>4, Kinds DEF Inside
    <3> QED
      BY <3>1, <2>1 DEF IInv, CounterAgrees
  <2>9. EyedNodes'
    BY <1>1, <2>1, <2>4, OthersEyes DEF Eyes
  <2> QED
    BY <2>4, <2>6, <2>7, <2>8, <2>9, Together
<1> QED
  BY <1>2, <1>3 DEF Return

(* Every step keeps the invariant, and follows on the stack there was.     *)
LEMMA NextIInv ==
  ASSUME IInv, [Next]_vars
  PROVE  IInv' /\ ListsFollow
<1>1. CASE Next
  <2>1. PICK t \in Threads : Step(t)
    BY <1>1 DEF Next
  <2> QED
    BY <2>1, StepPushNew, StepPushLoad, StepPushCas, StepEnter, StepPopLoad, StepPopNext, StepPopCas, StepPopData,
       StepCheck, StepDelete, StepLoadList, StepLeave, StepAppend, StepReturn DEF Step
<1>2. CASE UNCHANGED vars
  <2>1. UNCHANGED <<atomics, nodes, locals, rounds, pc, rmv_set, outcome>>
    BY <1>2 DEF vars, atomics, nodes, locals
  <2>2. outcome' \in {"running", "null dereference", "bad_optional_access"}
    BY <2>1 DEF IInv, TypeOK
  <2> QED
    BY <2>1, <2>2, ProgramEnds
<1> QED
  BY <1>1, <1>2

(* The invariant holds at the start.                                       *)
LEMMA InitIInv ==
  ASSUME Init
  PROVE  IInv
<1> USE LockFreeStackAssumption DEF Init, LockFreeStackAssumption
<1>1. TypeOK
  BY DEF TypeOK
<1>2. Roles
  <2>1. \A p \in Pushers : pc[p] = IF Count = 0 THEN "done" ELSE "new"
    BY DEF Threads
  <2>2. \A u \in Poppers : pc[u] = IF Count = 0 THEN "done" ELSE "enter"
    BY DEF Threads
  <2>3. \A t \in Threads : pc[t] # "done" => rounds[t] < Count
    BY DEF Threads
  <2> QED
    BY <2>1, <2>2, <2>3 DEF Roles, PusherPlaces, PopperPlaces, Nothing
<1>3. \A t \in Threads : pc[t] \in {"done", "new", "enter"}
  OBVIOUS
<1>4. DelayListStaysEmpty
  BY DEF DelayListStaysEmpty
<1>5. CounterAgrees
  <2>1. Inside = {}
    BY <1>3, Kinds DEF Inside
  <2> QED
    BY <2>1, FS_EmptySet DEF CounterAgrees
<1>6. OwnNodes /\ EyedNodes
  BY <1>3, Kinds DEF OwnNodes, Owns, EyedNodes, Eyes
<1>7. <<>> \in Lists /\ SharedList(<<>>)
  <2>1. <<>> \in [1 .. 0 -> Nodes] /\ DOMAIN <<>> = {} /\ \A k \in 1 .. 0 : FALSE
    OBVIOUS
  <2>2. <<>> \in Lists
    BY <2>1, IsList
  <2> QED
    BY <2>1, <2>2 DEF SharedList, IsStack, At
<1> QED
  BY <1>1, <1>2, <1>4, <1>5, <1>6, <1>7 DEF IInv

--------------------------------------------------------------------------------

(* The inductive invariant holds in every reachable state.                 *)
LEMMA Invariance == Spec => []IInv
<1>1. Init => IInv
  BY InitIInv
<1>2. IInv /\ [Next]_vars => IInv'
  BY NextIInv
<1> QED
  BY <1>1, <1>2, PTL DEF Spec

(* The nodes from the head on are always a list that ends, of nodes that   *)
(* exist and are on it once; the counter is the number of threads inside   *)
(* pop; and the list of nodes to be deleted is empty, so that the program  *)
(* comes to its null dereference whenever two pops overlap as one of them  *)
(* takes a node.                                                           *)
THEOREM ConsistentHolds == Spec => []Consistent
<1>1. IInv => Consistent
  BY DEF IInv, SharedList, Consistent, ListIntact
<1> QED
  BY <1>1, Invariance, PTL

(* However many threads push and pop, and whichever addresses the          *)
(* allocator hands out again: no field of a deleted node is read, and a    *)
(* CAS that succeeds puts the right next in the head's place.              *)
THEOREM ReclamationSafeHolds == Spec => []ReclamationSafe
<1>1. IInv => ReclamationSafe
  BY Kinds DEF IInv, ReclamationSafe, NoUseAfterFree, NoABA, OwnNodes, Owns, EyedNodes, Eyes
<1> QED
  BY <1>1, Invariance, PTL

(* Every step of every thread pushes a node in front, takes the front off, *)
(* or leaves the stack as it is.                                           *)
THEOREM LastInFirstOutHolds == Spec => LastInFirstOut
<1> DEFINE Changes == \E s, t \in Lists : IsStack(s) /\ IsStack(t)' /\ Follows(t, s)
<1>1. IInv /\ [Next]_vars => [Changes]_vars
  BY NextIInv DEF ListsFollow, SharedList
<1>2. [][Changes]_vars <=> LastInFirstOut
  BY DEF LastInFirstOut
<1> HIDE DEF Changes
<1> QED
  BY <1>1, <1>2, Invariance, PTL DEF Spec

================================================================================

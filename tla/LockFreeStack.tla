------------------------------ MODULE LockFreeStack ------------------------------
(***************************************************************************)
(* class lock_free_stack of multithread/lock_free_stack.h and its test:    *)
(* one thread pushes, one pops and goes on when the stack is empty, one    *)
(* pops and takes for granted that it is not.                              *)
(*                                                                         *)
(* Every access to an atomic, to a field of a node another thread may see  *)
(* and to the allocator is an action.  All atomics are sequentially        *)
(* consistent, and what a node holds is written before it is published, so *)
(* the interleavings are all there is.  The allocator hands out a node     *)
(* that has been deleted again, which is what makes the CAS of pop hard.   *)
(*                                                                         *)
(* pc of a pusher: "new" "load" "cas" "done".  pc of a popper: "enter"     *)
(* "load" "next" "cas" "data" "check" "delete" "loadlist" "leave1"         *)
(* "append1" (delete_node after it was the only one), "append" and "leave" *)
(* (delete_node among others, or an empty stack), "return", "done".        *)
(* Undefined behaviour and uncaught exceptions end the program: outcome    *)
(* tells how.                                                              *)
(***************************************************************************)
EXTENDS Naturals, FiniteSets, Sequences

CONSTANTS Pushers,
          Checking,       (* poppers that ask has_value(), as t2 does      *)
          Trusting,       (* poppers that call value() outright, as t3     *)
          Nodes, Null,
          Count           (* how often each thread goes round its loop     *)

Poppers == Checking \cup Trusting
Threads == Pushers \cup Poppers

ASSUME LockFreeStackAssumption ==
  /\ Pushers \cap Poppers = {} /\ Checking \cap Trusting = {}
  /\ IsFiniteSet(Poppers) /\ IsFiniteSet(Nodes) /\ Null \notin Nodes
  /\ Count \in Nat

VARIABLES head_node_, delay_delete_node_list_, threads_which_poping_,
          allocated, data, next_node,     (* the nodes                     *)
          pc, node, next, res,            (* locals: new_node or old_head, *)
                                          (* what was read of next_node or *)
                                          (* the list, and the result      *)
          rounds, rmv_set,
          outcome                         (* "running" or what ended it    *)

vars == <<head_node_, delay_delete_node_list_, threads_which_poping_, allocated, data, next_node,
          pc, node, next, res, rounds, rmv_set, outcome>>

atomics == <<head_node_, delay_delete_node_list_, threads_which_poping_>>
nodes == <<allocated, data, next_node>>
locals == <<node, next, res>>
test == <<rounds, rmv_set, outcome>>

Nothing == Null    (* std::nullopt *)

Init ==
  /\ head_node_ = Null /\ delay_delete_node_list_ = Null /\ threads_which_poping_ = 0
  /\ allocated = {}
  /\ data = [n \in Nodes |-> 0] /\ next_node = [n \in Nodes |-> Null]
  /\ pc = [t \in Threads |-> IF Count = 0 THEN "done" ELSE IF t \in Pushers THEN "new" ELSE "enter"]
  /\ node = [t \in Threads |-> Null] /\ next = [t \in Threads |-> Null]
  /\ res = [t \in Threads |-> Nothing]
  /\ rounds = [t \in Threads |-> 0]
  /\ rmv_set = {}
  /\ outcome = "running"

Goto(t, label) == pc' = [pc EXCEPT ![t] = label]

(* Round the loop of the test again, or out of it.                         *)
Again(t, label) ==
  /\ rounds' = [rounds EXCEPT ![t] = @ + 1]
  /\ Goto(t, IF rounds[t] + 1 < Count THEN label ELSE "done")

--------------------------------------------------------------------------------
(* push.  The value is not stored: a new node holds T{}.                   *)

PushNew(t) ==
  /\ t \in Pushers /\ pc[t] = "new"
  /\ \E n \in Nodes \ allocated :
       /\ allocated' = allocated \cup {n}
       /\ data' = [data EXCEPT ![n] = 0]
       /\ next_node' = [next_node EXCEPT ![n] = Null]
       /\ node' = [node EXCEPT ![t] = n]
  /\ Goto(t, "load")
  /\ UNCHANGED <<atomics, next, res, test>>

PushLoad(t) ==
  /\ t \in Pushers /\ pc[t] = "load"
  /\ next_node' = [next_node EXCEPT ![node[t]] = head_node_]
  /\ Goto(t, "cas")
  /\ UNCHANGED <<atomics, allocated, data, locals, test>>

(* compare_exchange_weak, which may fail for no reason; next_node is then  *)
(* the head it has found, and is loaded anew.                              *)
PushCas(t) ==
  /\ t \in Pushers /\ pc[t] = "cas"
  /\ \/ /\ head_node_ = next_node[node[t]]
        /\ head_node_' = node[t]
        /\ Again(t, "new")
        /\ UNCHANGED next_node
     \/ /\ next_node' = [next_node EXCEPT ![node[t]] = head_node_]
        /\ Goto(t, "load")
        /\ UNCHANGED <<head_node_, rounds>>
  /\ UNCHANGED <<delay_delete_node_list_, threads_which_poping_, allocated, data, locals, rmv_set,
                 outcome>>

--------------------------------------------------------------------------------
(* pop.                                                                    *)

Enter(t) ==
  /\ pc[t] = "enter"
  /\ threads_which_poping_' = threads_which_poping_ + 1
  /\ Goto(t, "load")
  /\ UNCHANGED <<head_node_, delay_delete_node_list_, nodes, locals, test>>

PopLoad(t) ==
  /\ t \in Poppers /\ pc[t] = "load"
  /\ node' = [node EXCEPT ![t] = head_node_]
  /\ res' = [res EXCEPT ![t] = Nothing]
  /\ Goto(t, IF head_node_ = Null THEN "leave" ELSE "next")
  /\ UNCHANGED <<atomics, nodes, next, test>>

PopNext(t) ==
  /\ pc[t] = "next"
  /\ next' = [next EXCEPT ![t] = next_node[node[t]]]
  /\ Goto(t, "cas")
  /\ UNCHANGED <<atomics, nodes, node, res, test>>

(* Fault: the head is exchanged though it may no longer be old_head.       *)
PopCas_Store(t) ==
  /\ t \in Poppers /\ pc[t] = "cas"
  /\ head_node_' = next[t] /\ Goto(t, "data")
  /\ UNCHANGED <<delay_delete_node_list_, threads_which_poping_, nodes, locals, test>>

PopCas(t) ==
  /\ t \in Poppers /\ pc[t] = "cas"
  /\ \/ /\ head_node_ = node[t]
        /\ head_node_' = next[t]
        /\ Goto(t, "data")
     \/ Goto(t, "load") /\ UNCHANGED head_node_
  /\ UNCHANGED <<delay_delete_node_list_, threads_which_poping_, nodes, locals, test>>

PopData(t) ==
  /\ pc[t] = "data"
  /\ res' = [res EXCEPT ![t] = data[node[t]]]
  /\ Goto(t, "check")
  /\ UNCHANGED <<atomics, nodes, node, next, test>>

(* Fault: a node is deleted with others inside pop.                        *)
Check_Unguarded(t) ==
  /\ pc[t] = "check"
  /\ Goto(t, "delete")
  /\ UNCHANGED <<atomics, nodes, locals, test>>

(* try_recycle: is anybody else inside pop?                                *)
Check(t) ==
  /\ pc[t] = "check"
  /\ Goto(t, IF threads_which_poping_ = 1 THEN "delete" ELSE "append")
  /\ UNCHANGED <<atomics, nodes, locals, test>>

Delete(t) ==
  /\ pc[t] = "delete"
  /\ allocated' = allocated \ {node[t]}
  /\ Goto(t, "loadlist")
  /\ UNCHANGED <<atomics, data, next_node, locals, test>>

LoadList(t) ==
  /\ pc[t] = "loadlist"
  /\ next' = [next EXCEPT ![t] = delay_delete_node_list_]
  /\ Goto(t, "leave1")
  /\ UNCHANGED <<atomics, nodes, node, res, test>>

(* Nobody has come in meanwhile: delete_delay_nodes, which finds its list  *)
(* empty (see DelayListStaysEmpty).  Somebody has: append_to_delay_...     *)
LeaveAlone(t) ==
  /\ pc[t] = "leave1"
  /\ threads_which_poping_' = threads_which_poping_ - 1
  /\ Goto(t, IF threads_which_poping_ = 1 THEN "return" ELSE "append1")
  /\ UNCHANGED <<head_node_, delay_delete_node_list_, nodes, locals, test>>

(* append_to_delay_node_list: takes the list's head to be a node, and      *)
(* takes it off the list.                                                  *)
Append_(t) ==
  /\ pc[t] \in {"append", "append1"}
  /\ IF delay_delete_node_list_ = Null
     THEN /\ outcome' = "null dereference"
          /\ UNCHANGED <<delay_delete_node_list_, pc>>
     ELSE /\ delay_delete_node_list_' = next_node[delay_delete_node_list_]
          /\ Goto(t, IF pc[t] = "append" THEN "leave" ELSE "return")
          /\ UNCHANGED outcome
  /\ UNCHANGED <<head_node_, threads_which_poping_, nodes, locals, rounds, rmv_set>>

(* Fault: a thread that finds the stack empty is counted for ever.         *)
Leave_NotWhenEmpty(t) ==
  /\ pc[t] = "leave"
  /\ threads_which_poping_' = threads_which_poping_ - (IF res[t] = Nothing THEN 0 ELSE 1)
  /\ Goto(t, "return")
  /\ UNCHANGED <<head_node_, delay_delete_node_list_, nodes, locals, test>>

Leave(t) ==
  /\ pc[t] = "leave"
  /\ threads_which_poping_' = threads_which_poping_ - 1
  /\ Goto(t, "return")
  /\ UNCHANGED <<head_node_, delay_delete_node_list_, nodes, locals, test>>

(* Back in the test.  Trusting calls value() and skips what is not 0.      *)
Return(t) ==
  /\ pc[t] = "return"
  /\ IF t \in Trusting /\ res[t] = Nothing
     THEN outcome' = "bad_optional_access" /\ UNCHANGED <<rounds, pc, rmv_set>>
     ELSE /\ Again(t, "enter")
          /\ rmv_set' = IF res[t] = Nothing \/ (t \in Trusting /\ res[t] # 0) THEN rmv_set
                        ELSE rmv_set \cup {res[t]}
          /\ UNCHANGED outcome
  /\ UNCHANGED <<atomics, nodes, locals>>

--------------------------------------------------------------------------------

Step(t) ==
  \/ PushNew(t) \/ PushLoad(t) \/ PushCas(t)
  \/ Enter(t) \/ PopLoad(t) \/ PopNext(t) \/ PopCas(t) \/ PopData(t)
  \/ Check(t) \/ Delete(t) \/ LoadList(t) \/ LeaveAlone(t) \/ Append_(t) \/ Leave(t)
  \/ Return(t)

Next == outcome = "running" /\ \E t \in Threads : Step(t)

Spec == Init /\ [][Next]_vars

--------------------------------------------------------------------------------
(* Properties.                                                             *)

TypeOK ==
  /\ {head_node_, delay_delete_node_list_} \subseteq Nodes \cup {Null}
  /\ threads_which_poping_ \in Nat
  /\ allocated \subseteq Nodes
  /\ data \in [Nodes -> Nat] /\ next_node \in [Nodes -> Nodes \cup {Null}]
  /\ pc \in [Threads -> {"new", "load", "cas", "enter", "next", "data", "check", "delete",
                         "loadlist", "leave1", "append", "append1", "leave", "return", "done"}]
  /\ node \in [Threads -> Nodes \cup {Null}] /\ next \in [Threads -> Nodes \cup {Null}]
  /\ rounds \in [Threads -> 0 .. Count]
  /\ rmv_set \subseteq Nat
  /\ outcome \in {"running", "null dereference", "bad_optional_access"}

(* No thread reads a field of a node that has been deleted, though pop     *)
(* reads next_node of a node that is any other popper's to take, and nodes *)
(* are deleted while others are inside pop.                                *)
NoUseAfterFree ==
  \A t \in Poppers : pc[t] \in {"next", "data", "check", "delete"} => node[t] \in allocated

Inside == {t \in Poppers : pc[t] \in {"load", "next", "cas", "data", "check", "delete",
                                     "loadlist", "leave1", "append", "leave"}}

(* The counter is the number of threads inside pop; the decision to delete *)
(* rests on it.                                                            *)
CounterAgrees == threads_which_poping_ = Cardinality(Inside)

(* A popper that exchanges the head for the next it has read exchanges it  *)
(* for the next the node still has: no node was popped, deleted, and       *)
(* pushed again under it meanwhile.                                        *)
NoABA ==
  \A t \in Poppers : pc[t] = "cas" /\ head_node_ = node[t] => next[t] = next_node[node[t]]

(* Deletion is safe: what a popper still reads is there, and a node it is  *)
(* about to unlink is the one it has read.                                 *)
ReclamationSafe == NoUseAfterFree /\ NoABA

(* Nobody puts a node on the list of those whose deletion is delayed, so   *)
(* append_to_delay_node_list can only dereference null: two threads that   *)
(* are inside pop when one of them has taken a node end the program.       *)
DelayListStaysEmpty == delay_delete_node_list_ = Null

(* The lists that can be made of the nodes, each of them used once.        *)
Lists == {s \in UNION {[1 .. m -> Nodes] : m \in 0 .. Cardinality(Nodes)} :
            \A j, k \in DOMAIN s : s[j] = s[k] => j = k}

At(s, k) == IF k \in DOMAIN s THEN s[k] ELSE Null

(* s is the stack, from the head on.                                       *)
IsStack(s) ==
  /\ head_node_ = At(s, 1)
  /\ \A k \in DOMAIN s : next_node[s[k]] = At(s, k + 1)

(* The nodes from the head on are a list that ends, no node is on it twice *)
(* and none is deleted.                                                    *)
ListIntact == \E s \in Lists : IsStack(s) /\ {s[k] : k \in DOMAIN s} \subseteq allocated

(* From the stack s to the stack t: a node is pushed in front, the front   *)
(* is taken off, or nothing is changed.                                    *)
Follows(t, s) == t = s \/ (t # <<>> /\ s = Tail(t)) \/ (s # <<>> /\ t = Tail(s))

(* Whatever the threads do, it is a stack: nodes come and go at the front  *)
(* only, one at a time.                                                    *)
LastInFirstOut == [][\E s, t \in Lists : IsStack(s) /\ IsStack(t)' /\ Follows(t, s)]_vars

(* The types, the counter that decides on deletion, and the two lists.     *)
Consistent == TypeOK /\ CounterAgrees /\ ListIntact /\ DelayListStaysEmpty

================================================================================

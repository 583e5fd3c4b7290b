----------------------------- MODULE ParallelBlocks -----------------------------
(***************************************************************************)
(* paraller_find and paraller_traversal: the range is divided into blocks  *)
(* of equal length, one std::async each, and what is left to the caller.   *)
(* Iterators are positions from 0, last is length.  Calls are made for any *)
(* range and on any machine: length, hardware and matches are chosen at    *)
(* the beginning and never change.                                         *)
(*                                                                         *)
(* The caller waits for a block before it starts the next one, but nothing *)
(* in the blocks does: each is a thread of its own, whose steps are the    *)
(* visit of an element, set_value and the store to has_found.              *)
(***************************************************************************)
EXTENDS Naturals, Sequences

CONSTANTS kMinPerThreadCount,
          Lengths,          \* of the range that is searched or traversed
          HardwareCounts    \* what hardware_concurrency() may return

ASSUME BlocksAssumption ==
  /\ kMinPerThreadCount \in Nat \ {0}
  /\ Lengths \subseteq Nat /\ HardwareCounts \subseteq Nat

VARIABLES
  program,             \* "find" or "traversal"
  length, hardware,
  matches,             \* find: the positions of the elements equal to type
  main,                \* the caller: "begin", "loop", "get", "own", "done", "crashed"
  i, thread_start_itor, thread_end_itor,
  pc,                  \* a block's thread: "none", "called", "scan", "found", "store", "done"
  it, last,            \* its iterators
  has_found, result,   \* shared by the blocks; result is what the promise holds
  sets,                \* history: the calls of set_value
  visited,             \* history: the elements visited, in order
  returned             \* find: what it returns

call == <<program, length, hardware, matches>>
caller == <<main, i, thread_start_itor, thread_end_itor, returned>>
blocks == <<pc, it, last>>
promise == <<has_found, result, sets>>
vars == <<call, caller, blocks, promise, visited>>

need_thread_num == (length - 1) \div kMinPerThreadCount + 1
real_thread_num == IF hardware <= need_thread_num THEN hardware ELSE need_thread_num
each_thread_task_num == length \div real_thread_num
no_main_thread_num == real_thread_num - 1
Block == 0 .. length

Init ==
  /\ program \in {"find", "traversal"}
  /\ length \in Lengths /\ hardware \in HardwareCounts
  /\ matches \in SUBSET (0 .. length - 1)
  /\ main = "begin" /\ i = 0 /\ thread_start_itor = 0 /\ thread_end_itor = 0
  /\ pc = [b \in Block |-> "none"]
  /\ it = [b \in Block |-> 0] /\ last = [b \in Block |-> 0]
  /\ has_found = FALSE /\ result = 0 /\ sets = 0
  /\ visited = <<>> /\ returned = 0

--------------------------------------------------------------------------------
(* The caller.                                                             *)

(* A machine that does not tell its number of threads makes this divide by *)
(* zero.                                                                   *)
Begin ==
  /\ main = "begin"
  /\ main' = IF length = 0 THEN "done" ELSE IF hardware = 0 THEN "crashed" ELSE "loop"
  /\ returned' = length
  /\ UNCHANGED <<call, i, thread_start_itor, thread_end_itor, blocks, promise, visited>>

StartBlock ==
  /\ main = "loop" /\ i < no_main_thread_num
  /\ thread_end_itor' = thread_start_itor + each_thread_task_num
  /\ pc' = [pc EXCEPT ![i] = "called"]
  /\ main' = "get"
  /\ UNCHANGED <<call, i, thread_start_itor, returned, it, last, promise, visited>>

get_NotWaiting ==
  /\ main = "get"
  /\ thread_start_itor' = thread_end_itor /\ i' = i + 1
  /\ main' = "loop"
  /\ UNCHANGED <<call, thread_end_itor, returned, blocks, promise, visited>>

get ==
  /\ main = "get" /\ pc[i] = "done"
  /\ thread_start_itor' = thread_end_itor /\ i' = i + 1
  /\ main' = "loop"
  /\ UNCHANGED <<call, thread_end_itor, returned, blocks, promise, visited>>

OwnBlock ==
  /\ main = "loop" /\ i = no_main_thread_num
  /\ it' = [it EXCEPT ![i] = thread_start_itor]
  /\ last' = [last EXCEPT ![i] = length]
  /\ pc' = [pc EXCEPT ![i] = "scan"]
  /\ main' = "own"
  /\ UNCHANGED <<call, i, thread_start_itor, thread_end_itor, returned, promise, visited>>

Return ==
  /\ main = "own" /\ pc[i] = "done"
  /\ main' = "done"
  /\ returned' = IF has_found THEN result ELSE length
  /\ UNCHANGED <<call, i, thread_start_itor, thread_end_itor, blocks, promise, visited>>

--------------------------------------------------------------------------------
(* A block.                                                                *)

(* The lambda of find captures the caller's iterators by reference and     *)
(* reads them here; that of traversal has copied them when it was made.    *)
CallBlock(b) ==
  /\ pc[b] = "called"
  /\ it' = [it EXCEPT ![b] = thread_start_itor]
  /\ last' = [last EXCEPT ![b] = thread_end_itor]
  /\ pc' = [pc EXCEPT ![b] = "scan"]
  /\ UNCHANGED <<call, caller, promise, visited>>

Visit(b) ==
  /\ pc[b] = "scan" /\ it[b] # last[b] /\ ~has_found
  /\ visited' = Append(visited, it[b])
  /\ IF program = "find" /\ it[b] \in matches
     THEN pc' = [pc EXCEPT ![b] = "found"] /\ UNCHANGED it
     ELSE it' = [it EXCEPT ![b] = @ + 1] /\ UNCHANGED pc
  /\ UNCHANGED <<call, caller, last, promise>>

set_value(b) ==
  /\ pc[b] = "found"
  /\ result' = it[b] /\ sets' = sets + 1
  /\ pc' = [pc EXCEPT ![b] = "store"]
  /\ UNCHANGED <<call, caller, it, last, has_found, visited>>

StoreHasFound(b) ==
  /\ pc[b] = "store"
  /\ has_found' = TRUE
  /\ pc' = [pc EXCEPT ![b] = "done"]
  /\ UNCHANGED <<call, caller, it, last, result, sets, visited>>

BlockEnds(b) ==
  /\ pc[b] = "scan" /\ (it[b] = last[b] \/ has_found)
  /\ pc' = [pc EXCEPT ![b] = "done"]
  /\ UNCHANGED <<call, caller, it, last, promise, visited>>

BlockStep(b) == CallBlock(b) \/ Visit(b) \/ set_value(b) \/ StoreHasFound(b) \/ BlockEnds(b)

Next ==
  \/ Begin \/ StartBlock \/ get \/ OwnBlock \/ Return
  \/ \E b \in Block : BlockStep(b)

Spec == Init /\ [][Next]_vars

--------------------------------------------------------------------------------
(* Properties.                                                             *)

(* The blocks together do what one loop over the range would: the elements *)
(* are visited from the first, in order, none twice, none beyond the last; *)
(* the promise is set once at most (a second set_value throws); traversal  *)
(* has visited all when it returns, and find returns the first match, or   *)
(* last.                                                                   *)
LikeOneLoop ==
  /\ visited = [k \in 1 .. Len(visited) |-> k - 1]
  /\ Len(visited) <= length
  /\ sets <= 1
  /\ (main = "done" /\ program = "traversal") => Len(visited) = length
  /\ (main = "done" /\ program = "find") =>
       /\ returned \in matches \cup {length}
       /\ \A m \in matches : returned <= m

================================================================================

---------------------------- MODULE TraversalsProofs ----------------------------
(***************************************************************************)
(* Proofs about ParallelBlocks, for every range, every set of matches,     *)
(* every number of hardware threads and every minimum for a block, and     *)
(* about SequenceGenerator, for chains and sources of any length.  The     *)
(* generators are those of MCTraversals, with variables of their own.      *)
(***************************************************************************)
EXTENDS MCTraversals, TLAPS, FiniteSetTheorems

--------------------------------------------------------------------------------
(* The blocks: the inductive invariant.                                    *)

TypeOK ==
  /\ program \in {"find", "traversal"}
  /\ length \in Nat /\ hardware \in Nat /\ matches \in SUBSET (0 .. length - 1)
  /\ main \in {"begin", "loop", "get", "own", "done", "crashed"}
  /\ i \in Nat /\ thread_start_itor \in Nat /\ thread_end_itor \in Nat
  /\ pc \in [Block -> {"none", "called", "scan", "found", "store", "done"}]
  /\ it \in [Block -> Nat] /\ last \in [Block -> Nat]
  /\ has_found \in BOOLEAN /\ result \in Nat /\ sets \in Nat
  /\ visited \in Seq(Nat) /\ returned \in Nat

Active(b) == pc[b] \in {"called", "scan", "found", "store"}

(* Nobody runs but the block the caller waits for, or its own.             *)
Alone == \A b \in Block : Active(b) => b = i /\ main \in {"get", "own"}

(* Where the blocks lie: start and end are those of block i, which ends    *)
(* within the range.                                                       *)
Division ==
  main \in {"loop", "get", "own"} =>
    /\ length > 0 /\ hardware > 0
    /\ i <= no_main_thread_num
    /\ thread_start_itor = i * each_thread_task_num
    /\ main = "get" =>
         /\ i < no_main_thread_num
         /\ thread_end_itor = thread_start_itor + each_thread_task_num
         /\ pc[i] # "none"
         /\ pc[i] \in {"scan", "found", "store", "done"} => last[i] = thread_end_itor
    /\ main = "own" => pc[i] \in {"scan", "found", "store", "done"} /\ last[i] = length

(* How far the visits have got: the block that runs goes on where those    *)
(* before it stopped.                                                      *)
Frontier ==
  LET Seen == Len(visited)
  IN
  /\ main = "begin" => visited = <<>> /\ sets = 0 /\ i = 0 /\ thread_start_itor = 0
  /\ main \in {"loop", "get", "own"} => Seen <= length
  /\ (main = "loop" /\ ~has_found) => Seen = thread_start_itor
  /\ (main \in {"get", "own"} /\ ~has_found) =>
       /\ pc[i] = "called" => Seen = thread_start_itor
       /\ pc[i] = "scan" => Seen = it[i] /\ it[i] <= last[i]
       /\ pc[i] \in {"found", "store"} => Seen = it[i] + 1 /\ it[i] < last[i]
       /\ pc[i] = "done" => Seen = last[i]

(* What has been found: while nothing is, no match has been seen but the   *)
(* one a block stands at; afterwards the promise holds the last element    *)
(* visited, the first match.                                               *)
Findings ==
  LET Seen == Len(visited)
      Standing == \E b \in Block : pc[b] \in {"found", "store"}
  IN
  /\ \A b \in Block : pc[b] \in {"found", "store"} => program = "find" /\ it[b] \in matches /\ ~has_found
  /\ \A b \in Block : pc[b] = "store" => sets = 1 /\ result = it[b]
  /\ has_found => program = "find" /\ sets = 1 /\ result \in matches /\ Seen = result + 1
  /\ ~has_found /\ (\A b \in Block : pc[b] # "store") => sets = 0
  /\ (program = "find" /\ ~has_found /\ ~Standing) => \A m \in matches : Seen <= m
  /\ (program = "find" /\ (has_found \/ Standing)) => \A m \in matches : Seen <= m + 1

IInv ==
  /\ TypeOK /\ Alone /\ Division /\ Frontier /\ Findings
  /\ LikeOneLoop

--------------------------------------------------------------------------------
(* Arithmetic.                                                             *)

(* The whole blocks fit into the range.                                    *)
LEMMA QuotientFits ==
  ASSUME NEW n \in Nat, NEW r \in Nat \ {0}
  PROVE  n \div r \in Nat /\ r * (n \div r) <= n
BY SMTT(30)

(* Multiplication is monotonic.                                            *)
LEMMA TimesMonotonic ==
  ASSUME NEW a \in Nat, NEW b \in Nat, NEW c \in Nat, a <= b
  PROVE  a * c <= b * c
BY SMTT(30)

(* A quotient does not exceed what is divided.                             *)
LEMMA QuotientBelow ==
  ASSUME NEW n \in Nat, NEW r \in Nat \ {0}
  PROVE  n \div r \in Nat /\ n \div r <= n
<1> DEFINE q == n \div r
<1>1. q \in Nat /\ r * q <= n BY QuotientFits
<1> HIDE DEF q
<1>2. 1 * q <= r * q BY <1>1, TimesMonotonic
<1> QED BY <1>1, <1>2 DEF q

(* The numbers every call divides the range by.                            *)
LEMMA Numbers ==
  ASSUME length \in Nat, hardware \in Nat, length > 0, hardware > 0
  PROVE  /\ real_thread_num \in Nat \ {0}
         /\ no_main_thread_num \in Block
         /\ each_thread_task_num \in Nat
<1>1. (length - 1) \div kMinPerThreadCount \in Nat /\ (length - 1) \div kMinPerThreadCount <= length - 1
  BY QuotientBelow, BlocksAssumption DEF BlocksAssumption
<1>2. need_thread_num \in Nat \ {0} /\ need_thread_num <= length
  BY <1>1 DEF need_thread_num
<1>3. real_thread_num \in Nat \ {0} /\ real_thread_num <= length
  BY <1>2 DEF real_thread_num
<1>4. each_thread_task_num \in Nat
  BY <1>3, QuotientFits DEF each_thread_task_num
<1> QED BY <1>3, <1>4 DEF no_main_thread_num, Block

(* The blocks up to one that is not the caller's lie within the range, and *)
(* the caller's begins within it.                                          *)
LEMMA BlocksFit ==
  ASSUME length \in Nat, hardware \in Nat, length > 0, hardware > 0,
         NEW n \in Nat, n <= no_main_thread_num
  PROVE  /\ n * each_thread_task_num \in Nat /\ n * each_thread_task_num <= length
         /\ (n + 1) * each_thread_task_num = n * each_thread_task_num + each_thread_task_num
         /\ n < no_main_thread_num => n * each_thread_task_num + each_thread_task_num <= length
<1>1. real_thread_num \in Nat \ {0} /\ each_thread_task_num \in Nat
  BY Numbers
<1>2. real_thread_num * each_thread_task_num <= length
  BY <1>1, QuotientFits DEF each_thread_task_num
<1> DEFINE e == each_thread_task_num
           r == real_thread_num
<1>3. n <= r - 1
  BY DEF no_main_thread_num
<1> HIDE DEF e, r
<1>4. e \in Nat /\ r \in Nat \ {0} /\ r * e <= length
  BY <1>1, <1>2 DEF e, r
<1>5. n * e \in Nat /\ (n + 1) * e = n * e + e /\ r * e \in Nat
  BY <1>4, SMTT(30)
<1>6. n * e <= r * e
  BY <1>3, <1>4, TimesMonotonic
<1>7. n + 1 <= r => n * e + e <= r * e
  BY <1>4, <1>5, TimesMonotonic
<1> QED BY <1>3, <1>4, <1>5, <1>6, <1>7 DEF e

--------------------------------------------------------------------------------
(* The invariant is inductive.                                             *)

(* What no step changes: the numbers the range is divided by.              *)
LEMMA NumbersKept ==
  ASSUME UNCHANGED call
  PROVE  /\ Block' = Block
         /\ no_main_thread_num' = no_main_thread_num
         /\ each_thread_task_num' = each_thread_task_num
BY DEF call, Block, no_main_thread_num, each_thread_task_num, real_thread_num, need_thread_num

(* The invariant holds at the beginning.                                   *)
LEMMA InitIInv == Init => IInv
<1> SUFFICES ASSUME Init PROVE IInv
  OBVIOUS
<1>1. length \in Nat /\ hardware \in Nat
  BY BlocksAssumption DEF Init, BlocksAssumption
<1>2. TypeOK
  <2>1. pc \in [Block -> {"none", "called", "scan", "found", "store", "done"}]
    BY DEF Init
  <2>2. it \in [Block -> Nat] /\ last \in [Block -> Nat]
    BY DEF Init
  <2>3. visited \in Seq(Nat)
    BY DEF Init
  <2>4. matches \in SUBSET (0 .. length - 1)
    BY DEF Init
  <2> QED BY <1>1, <2>1, <2>2, <2>3, <2>4 DEF Init, TypeOK
<1>3. Alone /\ Division /\ Frontier /\ Findings
  BY <1>1 DEF Init, Alone, Active, Division, Frontier, Findings
<1>4. LikeOneLoop
  BY <1>1 DEF Init, LikeOneLoop
<1> QED BY <1>2, <1>3, <1>4 DEF IInv

(* The division starts with an empty first block.                          *)
LEMMA StepBegin == ASSUME IInv, Begin PROVE IInv'
<1> USE DEF IInv, Begin, caller, blocks, promise, call
<1>0. Block' = Block /\ no_main_thread_num' = no_main_thread_num /\ each_thread_task_num' = each_thread_task_num
  BY NumbersKept
<1>1. TypeOK'
  BY <1>0 DEF TypeOK
<1>2. Alone'
  BY <1>0 DEF Alone, Active
<1>3. Division'
  <2>1. CASE main' = "loop"
    <3>1. length \in Nat /\ hardware \in Nat /\ length > 0 /\ hardware > 0
      BY <2>1 DEF TypeOK
    <3>2. no_main_thread_num \in Nat /\ each_thread_task_num \in Nat
      BY <3>1, Numbers DEF Block
    <3>3. 0 * each_thread_task_num = 0
      BY <3>2
    <3>4. i' = 0 /\ thread_start_itor' = 0 /\ length' = length /\ hardware' = hardware
      BY DEF Frontier
    <3> QED BY <1>0, <2>1, <3>1, <3>2, <3>3, <3>4 DEF Division
  <2>2. CASE main' # "loop"
    BY <2>2 DEF Division
  <2> QED BY <2>1, <2>2
<1>4. visited' = <<>> /\ Len(visited') = 0 /\ i' = 0 /\ thread_start_itor' = 0 /\ length' = length /\ length \in Nat
  BY DEF TypeOK, Frontier
<1>5. Frontier'
  BY <1>4 DEF Frontier
<1>6. Findings'
  BY <1>0 DEF Findings
<1>7. LikeOneLoop'
  <2>1. main' = "done" => length = 0 /\ returned' = length
    OBVIOUS
  <2>2. length = 0 => matches = {}
    BY DEF TypeOK
  <2> QED BY <1>4, <2>1, <2>2 DEF LikeOneLoop, TypeOK
<1> QED BY <1>1, <1>2, <1>3, <1>5, <1>6, <1>7

(* What the steps of the loop rely on: the numbers and where block i lies. *)
LEMMA InTheLoop ==
  ASSUME IInv, main \in {"loop", "get", "own"}
  PROVE  /\ length \in Nat /\ i \in Block /\ i \in Nat
         /\ no_main_thread_num \in Nat /\ each_thread_task_num \in Nat
         /\ thread_start_itor = i * each_thread_task_num /\ thread_start_itor <= length
         /\ (i + 1) * each_thread_task_num = thread_start_itor + each_thread_task_num
         /\ i < no_main_thread_num => thread_start_itor + each_thread_task_num <= length
         /\ i < no_main_thread_num => i + 1 \in Block /\ i + 1 <= no_main_thread_num
<1>1. /\ length \in Nat /\ hardware \in Nat /\ length > 0 /\ hardware > 0 /\ i \in Nat
      /\ i <= no_main_thread_num /\ thread_start_itor = i * each_thread_task_num
  BY DEF IInv, TypeOK, Division
<1>2. no_main_thread_num \in Block /\ each_thread_task_num \in Nat
  BY <1>1, Numbers
<1>3. no_main_thread_num \in Nat /\ i \in Block
  BY <1>1, <1>2 DEF Block
<1>4. i < no_main_thread_num => i + 1 \in Block /\ i + 1 <= no_main_thread_num
  BY <1>1, <1>2 DEF Block
<1> QED BY <1>1, <1>2, <1>3, <1>4, BlocksFit

(* A block is started where the last one ended; it lies in the range.      *)
LEMMA StepStartBlock == ASSUME IInv, StartBlock PROVE IInv'
<1> USE DEF IInv, StartBlock, caller, blocks, promise, call
<1>0. Block' = Block /\ no_main_thread_num' = no_main_thread_num /\ each_thread_task_num' = each_thread_task_num
  BY NumbersKept
<1>1. /\ length \in Nat /\ i \in Block /\ each_thread_task_num \in Nat
      /\ thread_start_itor = i * each_thread_task_num
  BY InTheLoop
<1>2. TypeOK'
  BY <1>0, <1>1 DEF TypeOK
<1>3. pc' = [pc EXCEPT ![i] = "called"] /\ pc \in [Block -> {"none", "called", "scan", "found", "store", "done"}]
  BY DEF TypeOK
<1>4. Alone'
  BY <1>0, <1>1, <1>3 DEF Alone, Active
<1>5. Division'
  BY <1>0, <1>1, <1>3 DEF Division, TypeOK
<1>6. Frontier'
  BY <1>1, <1>3 DEF Frontier
<1>7. Findings'
  <2>1. \A b \in Block : pc[b] \notin {"found", "store"} /\ pc'[b] \notin {"found", "store"}
    BY <1>1, <1>3 DEF Alone, Active
  <2> QED BY <1>0, <2>1 DEF Findings
<1>8. LikeOneLoop'
  BY DEF LikeOneLoop
<1> QED BY <1>2, <1>4, <1>5, <1>6, <1>7, <1>8

(* The next block starts where the one waited for ended.                   *)
LEMMA Step_get == ASSUME IInv, get PROVE IInv'
<1> USE DEF IInv, get, caller, blocks, promise, call
<1>0. Block' = Block /\ no_main_thread_num' = no_main_thread_num /\ each_thread_task_num' = each_thread_task_num
  BY NumbersKept
<1>1. i < no_main_thread_num /\ thread_end_itor = thread_start_itor + each_thread_task_num /\ last[i] = thread_end_itor
  BY DEF Division
<1>2. /\ length \in Nat /\ i \in Nat /\ no_main_thread_num \in Nat /\ each_thread_task_num \in Nat
      /\ (i + 1) * each_thread_task_num = thread_end_itor /\ i + 1 <= no_main_thread_num
  BY <1>1, InTheLoop
<1>3. TypeOK'
  BY <1>0, <1>2 DEF TypeOK
<1>4. Alone'
  BY <1>0 DEF Alone, Active
<1>5. Division'
  <2>1. main' = "loop" /\ i' = i + 1 /\ thread_start_itor' = i' * each_thread_task_num
    BY <1>2
  <2> QED BY <1>0, <1>2, <2>1 DEF Division
<1>6. Frontier'
  BY <1>1 DEF Frontier
<1>7. Findings'
  BY <1>0 DEF Findings
<1>8. LikeOneLoop'
  BY DEF LikeOneLoop
<1> QED BY <1>3, <1>4, <1>5, <1>6, <1>7, <1>8

(* The caller's own block reaches to the end of the range.                 *)
LEMMA StepOwnBlock == ASSUME IInv, OwnBlock PROVE IInv'
<1> USE DEF IInv, OwnBlock, caller, blocks, promise, call
<1>0. Block' = Block /\ no_main_thread_num' = no_main_thread_num /\ each_thread_task_num' = each_thread_task_num
  BY NumbersKept
<1>1. length \in Nat /\ i \in Block /\ thread_start_itor <= length
  BY InTheLoop
<1>2. /\ pc' = [pc EXCEPT ![i] = "scan"] /\ pc \in [Block -> {"none", "called", "scan", "found", "store", "done"}]
      /\ it' = [it EXCEPT ![i] = thread_start_itor] /\ it \in [Block -> Nat]
      /\ last' = [last EXCEPT ![i] = length] /\ last \in [Block -> Nat]
      /\ thread_start_itor \in Nat
  BY DEF TypeOK
<1>3. TypeOK'
  BY <1>0, <1>1, <1>2 DEF TypeOK
<1>4. Alone'
  BY <1>0, <1>1, <1>2 DEF Alone, Active
<1>5. Division'
  BY <1>0, <1>1, <1>2 DEF Division
<1>6. Frontier'
  BY <1>1, <1>2 DEF Frontier
<1>7. Findings'
  <2>1. \A b \in Block : pc[b] \notin {"found", "store"} /\ pc'[b] \notin {"found", "store"}
    BY <1>1, <1>2 DEF Alone, Active
  <2> QED BY <1>0, <2>1 DEF Findings
<1>8. LikeOneLoop'
  BY DEF LikeOneLoop
<1> QED BY <1>3, <1>4, <1>5, <1>6, <1>7, <1>8

(* With the last block ended, the visits have reached a match or the end.  *)
LEMMA StepReturn == ASSUME IInv, Return PROVE IInv'
<1> USE DEF IInv, Return, caller, blocks, promise, call
<1>0. Block' = Block
  BY NumbersKept
<1>1. length \in Nat /\ i \in Block
  BY InTheLoop
<1>2. \A b \in Block : ~Active(b)
  BY DEF Alone, Active
<1>3. TypeOK'
  BY <1>0, <1>1 DEF TypeOK
<1>4. Alone'
  BY <1>0, <1>2 DEF Alone, Active
<1>5. Division' /\ Frontier'
  BY DEF Division, Frontier
<1>6. Findings'
  BY <1>0 DEF Findings
<1>7. LikeOneLoop'
  <2>1. ~has_found => Len(visited) = length
    BY DEF Frontier, Division
  <2>2. CASE has_found
    <3>1. /\ program = "find" /\ result \in matches /\ Len(visited) = result + 1
          /\ \A m \in matches : Len(visited) <= m + 1
      BY <2>2 DEF Findings
    <3>2. \A m \in matches : m \in Nat
      BY <1>1 DEF TypeOK
    <3>3. \A m \in matches : result <= m
      BY <3>1, <3>2 DEF TypeOK
    <3> QED BY <2>2, <3>1, <3>3 DEF LikeOneLoop
  <2>3. CASE ~has_found
    <3>1. program = "find" => \A m \in matches : length <= m
      BY <1>2, <2>1, <2>3 DEF Findings, Active
    <3> QED BY <2>1, <2>3, <3>1 DEF LikeOneLoop
  <2> QED BY <2>2, <2>3
<1> QED BY <1>3, <1>4, <1>5, <1>6, <1>7

(* A block begins its scan at the first element not visited yet.           *)
LEMMA StepCallBlock == ASSUME IInv, NEW b \in Block, CallBlock(b) PROVE IInv'
<1> USE DEF IInv, caller, blocks, promise, call
<1>0. Block' = Block /\ no_main_thread_num' = no_main_thread_num /\ each_thread_task_num' = each_thread_task_num
  BY NumbersKept DEF CallBlock
<1>1. /\ b = i /\ main \in {"get", "own"} /\ UNCHANGED <<call, caller>>
      /\ pc \in [Block -> {"none", "called", "scan", "found", "store", "done"}]
      /\ it \in [Block -> Nat] /\ last \in [Block -> Nat]
      /\ \A c \in Block \ {i} : pc[c] \in {"none", "done"}
  BY DEF CallBlock, Alone, Active, TypeOK
<1>2. length \in Nat
  BY DEF TypeOK
<1>3. TypeOK'
  BY <1>0, <1>1 DEF CallBlock, TypeOK
<1>4. Alone'
  BY <1>0, <1>1 DEF CallBlock, Alone, Active
<1>5. Division'
  BY <1>0, <1>1 DEF CallBlock, Division
<1>6. Frontier'
  <2>1. main = "get" /\ thread_end_itor = thread_start_itor + each_thread_task_num
    BY <1>1 DEF CallBlock, Division
  <2>2. each_thread_task_num \in Nat /\ thread_start_itor \in Nat
    BY <1>1, InTheLoop DEF TypeOK
  <2>3. it'[i] = thread_start_itor /\ last'[i] = thread_end_itor /\ pc'[i] = "scan"
    BY <1>1 DEF CallBlock
  <2> QED BY <1>1, <2>1, <2>2, <2>3 DEF CallBlock, Frontier
<1>7. Findings'
  <2>1. \A c \in Block : pc[c] \notin {"found", "store"} /\ pc'[c] \notin {"found", "store"}
    BY <1>1 DEF CallBlock
  <2> QED BY <1>0, <1>1, <2>1 DEF CallBlock, Findings
<1>8. LikeOneLoop'
  BY <1>1 DEF CallBlock, LikeOneLoop
<1> QED BY <1>3, <1>4, <1>5, <1>6, <1>7, <1>8

(* The promise has not been set before.                                    *)
LEMMA StepSetValue == ASSUME IInv, NEW b \in Block, set_value(b) PROVE IInv'
<1> USE DEF IInv, caller, blocks, promise, call
<1>0. Block' = Block /\ no_main_thread_num' = no_main_thread_num /\ each_thread_task_num' = each_thread_task_num
  BY NumbersKept DEF set_value
<1>1. /\ b = i /\ main \in {"get", "own"} /\ UNCHANGED <<call, caller>>
      /\ pc \in [Block -> {"none", "called", "scan", "found", "store", "done"}]
      /\ it \in [Block -> Nat] /\ last \in [Block -> Nat]
      /\ \A c \in Block \ {i} : pc[c] \in {"none", "done"}
  BY DEF set_value, Alone, Active, TypeOK
<1>2. length \in Nat
  BY DEF TypeOK
<1>3. TypeOK'
  BY <1>0, <1>1 DEF set_value, TypeOK
<1>4. Alone'
  BY <1>0, <1>1 DEF set_value, Alone, Active
<1>5. Division'
  BY <1>0, <1>1 DEF set_value, Division
<1>6. Frontier'
  BY <1>1 DEF set_value, Frontier
<1>7. Findings'
  <2>1. \A c \in Block : pc[c] # "store"
    BY <1>1 DEF set_value
  <2>2. sets = 0 /\ ~has_found /\ it[i] \in matches /\ program = "find"
    BY <1>1, <2>1 DEF set_value, Findings
  <2>3. sets' = 1 /\ result' = it'[i] /\ it' = it /\ pc'[i] = "store"
    BY <1>1, <2>2 DEF set_value
  <2>4. \A c \in Block : c # i => pc'[c] = pc[c]
    BY <1>1 DEF set_value
  <2>5. \A m \in matches : Len(visited) <= m + 1
    BY <1>1, <2>2 DEF set_value, Findings
  <2> QED BY <1>0, <1>1, <2>2, <2>3, <2>4, <2>5 DEF set_value, Findings
<1>8. LikeOneLoop'
  <2>1. \A c \in Block : pc[c] # "store"
    BY <1>1 DEF set_value
  <2>2. sets = 0
    BY <1>1, <2>1 DEF set_value, Findings
  <2> QED BY <1>1, <2>2 DEF set_value, LikeOneLoop
<1> QED BY <1>3, <1>4, <1>5, <1>6, <1>7, <1>8

(* What the promise holds is the match the block stands at.                *)
LEMMA StepStoreHasFound == ASSUME IInv, NEW b \in Block, StoreHasFound(b) PROVE IInv'
<1> USE DEF IInv, caller, blocks, promise, call
<1>0. Block' = Block /\ no_main_thread_num' = no_main_thread_num /\ each_thread_task_num' = each_thread_task_num
  BY NumbersKept DEF StoreHasFound
<1>1. /\ b = i /\ main \in {"get", "own"} /\ UNCHANGED <<call, caller>>
      /\ pc \in [Block -> {"none", "called", "scan", "found", "store", "done"}]
      /\ it \in [Block -> Nat] /\ last \in [Block -> Nat]
      /\ \A c \in Block \ {i} : pc[c] \in {"none", "done"}
  BY DEF StoreHasFound, Alone, Active, TypeOK
<1>2. length \in Nat
  BY DEF TypeOK
<1>3. TypeOK'
  BY <1>0, <1>1 DEF StoreHasFound, TypeOK
<1>4. Alone'
  BY <1>0, <1>1 DEF StoreHasFound, Alone, Active
<1>5. Division'
  BY <1>0, <1>1 DEF StoreHasFound, Division
<1>6. Frontier'
  BY <1>1 DEF StoreHasFound, Frontier
<1>7. Findings'
  <2>1. /\ sets = 1 /\ result = it[i] /\ it[i] \in matches /\ program = "find" /\ ~has_found
        /\ \A m \in matches : Len(visited) <= m + 1
    BY <1>1 DEF StoreHasFound, Findings
  <2>2. Len(visited) = it[i] + 1
    BY <1>1, <2>1 DEF StoreHasFound, Frontier
  <2>3. \A c \in Block : pc'[c] \notin {"found", "store"}
    BY <1>1 DEF StoreHasFound
  <2> QED BY <1>0, <1>1, <2>1, <2>2, <2>3 DEF StoreHasFound, Findings
<1>8. LikeOneLoop'
  BY <1>1 DEF StoreHasFound, LikeOneLoop
<1> QED BY <1>3, <1>4, <1>5, <1>6, <1>7, <1>8

(* A block ends at its last element or after a match.                      *)
LEMMA StepBlockEnds == ASSUME IInv, NEW b \in Block, BlockEnds(b) PROVE IInv'
<1> USE DEF IInv, caller, blocks, promise, call
<1>0. Block' = Block /\ no_main_thread_num' = no_main_thread_num /\ each_thread_task_num' = each_thread_task_num
  BY NumbersKept DEF BlockEnds
<1>1. /\ b = i /\ main \in {"get", "own"} /\ UNCHANGED <<call, caller>>
      /\ pc \in [Block -> {"none", "called", "scan", "found", "store", "done"}]
      /\ it \in [Block -> Nat] /\ last \in [Block -> Nat]
      /\ \A c \in Block \ {i} : pc[c] \in {"none", "done"}
  BY DEF BlockEnds, Alone, Active, TypeOK
<1>2. length \in Nat
  BY DEF TypeOK
<1>3. TypeOK'
  BY <1>0, <1>1 DEF BlockEnds, TypeOK
<1>4. Alone'
  BY <1>0, <1>1 DEF BlockEnds, Alone, Active
<1>5. Division'
  BY <1>0, <1>1 DEF BlockEnds, Division
<1>6. Frontier'
  BY <1>1 DEF BlockEnds, Frontier
<1>7. Findings'
  <2>1. \A c \in Block : pc[c] \notin {"found", "store"} /\ pc'[c] \notin {"found", "store"}
    BY <1>1 DEF BlockEnds
  <2> QED BY <1>0, <1>1, <2>1 DEF BlockEnds, Findings
<1>8. LikeOneLoop'
  BY <1>1 DEF BlockEnds, LikeOneLoop
<1> QED BY <1>3, <1>4, <1>5, <1>6, <1>7, <1>8

(* A visit moves the frontier by one, inside the range.                    *)
LEMMA StepVisit == ASSUME IInv, NEW b \in Block, Visit(b) PROVE IInv'
<1> USE DEF IInv, caller, blocks, promise, call
<1>0. Block' = Block /\ no_main_thread_num' = no_main_thread_num /\ each_thread_task_num' = each_thread_task_num
  BY NumbersKept DEF Visit
<1>1. /\ b = i /\ main \in {"get", "own"} /\ UNCHANGED <<call, caller>>
      /\ pc \in [Block -> {"none", "called", "scan", "found", "store", "done"}]
      /\ it \in [Block -> Nat] /\ last \in [Block -> Nat]
      /\ \A c \in Block \ {i} : pc[c] \in {"none", "done"}
  BY DEF Visit, Alone, Active, TypeOK
<1>2. length \in Nat
  BY DEF TypeOK
<1>3. /\ pc[i] = "scan" /\ Len(visited) = it[i] /\ it[i] < last[i] /\ ~has_found
      /\ visited' = Append(visited, it[i]) /\ visited \in Seq(Nat) /\ it[i] \in Nat /\ last[i] \in Nat
  BY <1>1 DEF Visit, Frontier, TypeOK
<1>4. Len(visited') = it[i] + 1 /\ visited' \in Seq(Nat)
  BY <1>3
<1>5. last[i] <= length
  <2>1. main = "get" => thread_end_itor <= length /\ last[i] = thread_end_itor
    BY <1>1, <1>3, InTheLoop DEF Division
  <2> QED BY <1>1, <1>2, <2>1 DEF Division
<1>6. TypeOK'
  <2>1. pc' \in [Block -> {"none", "called", "scan", "found", "store", "done"}] /\ it' \in [Block -> Nat]
    <3>1. CASE program = "find" /\ it[i] \in matches
      BY <1>1, <3>1 DEF Visit
    <3>2. CASE ~(program = "find" /\ it[i] \in matches)
      BY <1>1, <3>2 DEF Visit
    <3> QED BY <3>1, <3>2
  <2>2. UNCHANGED <<last, has_found, result, sets>>
    BY DEF Visit
  <2> QED BY <1>0, <1>1, <1>4, <2>1, <2>2 DEF TypeOK
<1>7. Alone'
  BY <1>0, <1>1, <1>3 DEF Visit, Alone, Active
<1>8. Division'
  BY <1>0, <1>1, <1>3 DEF Visit, Division
<1>9. Frontier'
  BY <1>1, <1>2, <1>3, <1>4, <1>5 DEF Visit, Frontier
<1>10. Findings'
  <2>1. \A c \in Block : pc[c] \notin {"found", "store"}
    BY <1>1, <1>3
  <2>2. sets = 0 /\ (program = "find" => \A m \in matches : it[i] <= m) /\ \A m \in matches : m \in Nat
    BY <1>2, <1>3, <2>1 DEF Findings, TypeOK
  <2>3. CASE program = "find" /\ it[i] \in matches
    <3>1. pc' = [pc EXCEPT ![i] = "found"] /\ it' = it
      BY <1>1, <2>3 DEF Visit
    <3>2. \A m \in matches : Len(visited') <= m + 1
      BY <1>3, <1>4, <2>2, <2>3
    <3>3. \A c \in Block : pc'[c] # "store" /\ (pc'[c] = "found" => c = i)
      BY <1>1, <2>1, <3>1
    <3> QED BY <1>0, <1>1, <1>3, <2>2, <2>3, <3>1, <3>2, <3>3 DEF Visit, Findings
  <2>4. CASE ~(program = "find" /\ it[i] \in matches)
    <3>1. pc' = pc
      BY <1>1, <2>4 DEF Visit
    <3>2. program = "find" => \A m \in matches : Len(visited') <= m
      BY <1>3, <1>4, <2>2, <2>4
    <3> QED BY <1>0, <1>1, <1>3, <2>1, <2>2, <3>1, <3>2 DEF Visit, Findings
  <2> QED BY <2>3, <2>4
<1>11. LikeOneLoop'
  <2>1. visited' = [k \in 1 .. Len(visited') |-> k - 1]
    BY <1>3, <1>4 DEF LikeOneLoop
  <2>2. Len(visited') <= length'
    BY <1>1, <1>2, <1>3, <1>4, <1>5
  <2> QED BY <1>1, <2>1, <2>2 DEF Visit, LikeOneLoop
<1> QED BY <1>6, <1>7, <1>8, <1>9, <1>10, <1>11

(* A stuttering step changes nothing the invariant speaks of.              *)
LEMMA StepStutters == ASSUME IInv, UNCHANGED vars PROVE IInv'
<1> USE DEF IInv, vars, call, caller, blocks, promise
<1>0. Block' = Block /\ no_main_thread_num' = no_main_thread_num /\ each_thread_task_num' = each_thread_task_num
  BY NumbersKept
<1>1. TypeOK' /\ Alone'
  BY <1>0 DEF TypeOK, Alone, Active
<1>2. Division' /\ Frontier'
  BY <1>0 DEF Division, Frontier
<1>3. Findings' /\ LikeOneLoop'
  BY <1>0 DEF Findings, LikeOneLoop
<1> QED BY <1>1, <1>2, <1>3

(* The invariant holds in every reachable state.                           *)
LEMMA Invariance == Spec => []IInv
<1>1. Init => IInv
  BY InitIInv
<1>2. IInv /\ [Next]_vars => IInv'
  <2> SUFFICES ASSUME IInv, [Next]_vars PROVE IInv'
    OBVIOUS
  <2>1. CASE Begin BY <2>1, StepBegin
  <2>2. CASE StartBlock BY <2>2, StepStartBlock
  <2>3. CASE get BY <2>3, Step_get
  <2>4. CASE OwnBlock BY <2>4, StepOwnBlock
  <2>5. CASE Return BY <2>5, StepReturn
  <2>6. CASE \E b \in Block : BlockStep(b)
    <3> PICK b \in Block : BlockStep(b)
      BY <2>6
    <3> QED BY StepCallBlock, StepVisit, StepSetValue, StepStoreHasFound, StepBlockEnds DEF BlockStep
  <2>7. CASE UNCHANGED vars BY <2>7, StepStutters
  <2> QED BY <2>1, <2>2, <2>3, <2>4, <2>5, <2>6, <2>7 DEF Next
<1> QED BY <1>1, <1>2, PTL DEF Spec

(* However long the range, wherever the matches lie and however many       *)
(* blocks there are, find returns what std::find would and traversal       *)
(* visits what std::for_each would, in the same order.                     *)
THEOREM LikeOneLoopHolds == Spec => []LikeOneLoop
<1>1. IInv => LikeOneLoop
  BY DEF IInv
<1> QED BY <1>1, Invariance, PTL

(* No block is given an iterator beyond the end of the range, and while    *)
(* one runs nobody else does, which is what keeps the sum of traversal's   *)
(* func and the promise of find free of races.                             *)
THEOREM AloneWithinRange ==
  Spec => [](/\ \A b, c \in Block : Active(b) /\ Active(c) => b = c
             /\ main = "get" => thread_end_itor <= length)
<1>1. IInv => /\ \A b, c \in Block : Active(b) /\ Active(c) => b = c
              /\ main = "get" => thread_end_itor <= length
  BY InTheLoop DEF IInv, Alone, Division
<1> QED BY <1>1, Invariance, PTL

--------------------------------------------------------------------------------
(* The chain of generators: the inductive invariant.                       *)

ChainTypeOK ==
  /\ endless \in BOOLEAN /\ sourceLength \in Nat
  /\ frame \in [Gen!Stage -> {"none", "alive", "destroyed"}]
  /\ is_ready \in [Gen!Stage -> BOOLEAN]
  /\ value \in [Gen!Stage -> Nat \X Nat]
  /\ produced \in Nat
  /\ handles \in SUBSET Gen!Stage
  /\ operation \in {"none", "hasNext", "next", "map", "destructor"}
  /\ received \in Seq(Nat \X Nat)
  /\ outcome \in {"running", "done", "undefined"}

(* The stages that exist are the first ones, and there is a source.        *)
Contiguous == \E top \in Gen!Stage : \A k \in Gen!Stage : frame[k] # "none" <=> k <= top

(* Where the call in progress stands: idle between calls, otherwise at a   *)
(* stage that exists.                                                      *)
ControlInChain ==
  /\ control = <<control[1], control[2]>>
  /\ \/ control = Gen!Idle
     \/ control[1] \in 1 .. Gen!Top /\ control[2] \in {"enter", "true"}
  /\ outcome = "running" => (control = Gen!Idle <=> operation = "none")

(* The value nobody has taken is at one stage: the one that has just       *)
(* returned true, the last between calls, or one at or before the stage    *)
(* that is asked.                                                          *)
OneAhead ==
  /\ \A j, k \in Gen!Stage : is_ready[j] /\ is_ready[k] => j = k
  /\ control = Gen!Idle => \A k \in Gen!Stage : is_ready[k] => k = Gen!Top
  /\ control[2] = "enter" => \A k \in Gen!Stage : is_ready[k] => k <= control[1]
  /\ control[2] = "true" => is_ready[control[1]]

(* What was taken, what is ready and what the source has made agree.       *)
Counted ==
  /\ \A n \in DOMAIN received : received[n][1] = n
  /\ \A k \in Gen!Stage : is_ready[k] => value[k] = <<Len(received) + 1, k>>
  /\ produced = Len(received) + (IF \E k \in Gen!Stage : is_ready[k] THEN 1 ELSE 0)
  /\ ~endless => produced <= sourceLength

(* The user holds the handle of the last stage, and as long as he does     *)
(* every frame is there, but for that of a source that never had a value.  *)
Frames ==
  /\ outcome = "running" =>
       /\ handles = {Gen!Top} /\ operation # "destructor"
       /\ \A k \in Gen!Stage : frame[k] = "destroyed" => ~endless /\ sourceLength = 0
  /\ outcome = "undefined" => ~endless /\ produced = sourceLength
  /\ outcome = "done" => \A k \in Gen!Stage : frame[k] # "alive"

ChainIInv == ChainTypeOK /\ Contiguous /\ ControlInChain /\ OneAhead /\ Counted /\ Frames

--------------------------------------------------------------------------------
(* The last stage.                                                         *)

(* Max returns the element no other exceeds.                               *)
LEMMA MaxIs ==
  ASSUME NEW S \in SUBSET Nat, NEW m \in S, \A x \in S : x <= m
  PROVE  Gen!Max(S) = m
<1>1. \A x \in S : m >= x
  OBVIOUS
<1>2. \A x \in S : (\A y \in S : x >= y) => x = m
  OBVIOUS
<1> QED
  BY <1>1, <1>2 DEF Gen!Max

(* The last stage is the one up to which frames exist, before and after a  *)
(* step.                                                                   *)
LEMMA TopIs ==
  ASSUME NEW top \in Gen!Stage
  PROVE  /\ (\A k \in Gen!Stage : frame[k] # "none" <=> k <= top) => Gen!Top = top
         /\ (\A k \in Gen!Stage : frame'[k] # "none" <=> k <= top) => Gen!Top' = top
<1> USE GeneratorAssumption DEF Gen!Stage
<1>1. ASSUME \A k \in Gen!Stage : frame[k] # "none" <=> k <= top
      PROVE  Gen!Max({k \in Gen!Stage : frame[k] # "none"} \cup {0}) = top
  BY <1>1, MaxIs
<1>2. ASSUME \A k \in Gen!Stage : frame'[k] # "none" <=> k <= top
      PROVE  Gen!Max({k \in Gen!Stage : frame'[k] # "none"} \cup {0}) = top
  BY <1>2, MaxIs
<1> QED
  BY <1>1, <1>2 DEF Gen!Top

(* It is a stage, and those up to it have frames.                          *)
LEMMA TopStage ==
  ASSUME Contiguous
  PROVE  /\ Gen!Top \in Gen!Stage
         /\ \A k \in Gen!Stage : frame[k] # "none" <=> k <= Gen!Top
BY TopIs DEF Contiguous

(* A step that creates no frame and forgets none leaves it.                *)
LEMMA TopKept ==
  ASSUME Contiguous, \A k \in Gen!Stage : frame'[k] = "none" <=> frame[k] = "none"
  PROVE  Contiguous' /\ Gen!Top' = Gen!Top
<1>1. \A k \in Gen!Stage : frame'[k] # "none" <=> k <= Gen!Top
  BY TopStage
<1> QED
  BY <1>1, TopStage, TopIs DEF Contiguous, Gen!Stage

--------------------------------------------------------------------------------
(* The initial state and the user's calls.                                 *)

(* The source alone, with its first value or at its end.                   *)
LEMMA ChainInit == Gen!Init => ChainIInv
<1> SUFFICES ASSUME Gen!Init PROVE ChainIInv
  OBVIOUS
<1> USE GeneratorAssumption DEF Gen!Init, Gen!Stage
<1>1. 1 \in Gen!Stage /\ \A k \in Gen!Stage : frame[k] # "none" <=> k <= 1
  OBVIOUS
<1>2. Gen!Top = 1 /\ Contiguous
  BY <1>1, TopIs DEF Contiguous
<1>3. ChainTypeOK
  BY DEF ChainTypeOK
<1>4. ControlInChain
  BY <1>2 DEF ControlInChain, Gen!Idle
<1>5. OneAhead
  BY <1>2 DEF OneAhead, Gen!Idle
<1>6. Counted
  <2>1. received = <<>> /\ Len(received) = 0 /\ DOMAIN received = {}
    OBVIOUS
  <2>2. \A k \in Gen!Stage : is_ready[k] => k = 1 /\ value[k] = <<1, 1>>
    OBVIOUS
  <2>3. produced = IF \E k \in Gen!Stage : is_ready[k] THEN 1 ELSE 0
    BY <1>1
  <2> HIDE DEF Gen!Init
  <2>4. (~endless => produced <= sourceLength) /\ produced \in {0, 1}
    BY DEF Gen!Init
  <2> QED
    BY <2>1, <2>2, <2>3, <2>4 DEF Counted
<1>7. Frames
  BY <1>1, <1>2 DEF Frames
<1> QED
  BY <1>2, <1>3, <1>4, <1>5, <1>6, <1>7 DEF ChainIInv

(* A call is entered at the last stage.                                    *)
LEMMA ChainCallBegins ==
  ASSUME ChainIInv, Gen!hasNext \/ Gen!next
  PROVE  ChainIInv'
<1> USE DEF ChainIInv
<1>1. /\ outcome = "running" /\ operation = "none" /\ operation' \in {"hasNext", "next"}
      /\ control' = <<Gen!Top, "enter">>
      /\ UNCHANGED <<endless, sourceLength, frame, is_ready, value, produced, handles, received, outcome>>
  BY DEF Gen!hasNext, Gen!next, Gen!CallBegins, Gen!source, Gen!promises
<1>2. Contiguous' /\ Gen!Top' = Gen!Top /\ Gen!Top \in Nat \ {0}
  BY <1>1, TopKept, TopStage DEF Gen!Stage
<1>3. ChainTypeOK' /\ Counted' /\ Frames'
  BY <1>1, <1>2 DEF ChainTypeOK, Counted, Frames
<1>4. ControlInChain'
  BY <1>1, <1>2 DEF ControlInChain, Gen!Idle
<1>5. OneAhead'
  <2>1. \A k \in Gen!Stage : is_ready[k] => k = Gen!Top
    BY <1>1 DEF ControlInChain, OneAhead
  <2> QED
    BY <1>1, <1>2, <2>1 DEF OneAhead, Gen!Idle
<1> QED
  BY <1>2, <1>3, <1>4, <1>5

(* map adds a stage, takes the handle of the one before and asks at the    *)
(* new one; a value that waits does so at the stage before.                *)
LEMMA ChainMap ==
  ASSUME ChainIInv, Gen!map
  PROVE  ChainIInv'
<1> USE DEF ChainIInv
<1> DEFINE top == Gen!Top
<1>1. /\ outcome = "running" /\ operation = "none" /\ operation' = "map" /\ top < Stages
      /\ frame' = [frame EXCEPT ![top + 1] = "alive"]
      /\ handles' = (handles \ {top}) \cup {top + 1}
      /\ control' = <<top, "enter">>
      /\ UNCHANGED <<endless, sourceLength, is_ready, value, produced, received, outcome>>
  BY DEF Gen!map, Gen!CallBegins, Gen!source, Gen!promises
<1>2. /\ top \in Gen!Stage /\ top + 1 \in Gen!Stage /\ top \in Nat \ {0}
      /\ \A k \in Gen!Stage : frame[k] # "none" <=> k <= top
  BY <1>1, TopStage, GeneratorAssumption DEF Gen!Stage
<1>3. Contiguous' /\ Gen!Top' = top + 1
  <2>1. \A k \in Gen!Stage : frame'[k] # "none" <=> k <= top + 1
    BY <1>1, <1>2 DEF ChainTypeOK, Gen!Stage
  <2> QED
    BY <1>2, <2>1, TopIs DEF Contiguous
<1>4. ChainTypeOK'
  BY <1>1, <1>2 DEF ChainTypeOK
<1>5. ControlInChain'
  BY <1>1, <1>2, <1>3 DEF ControlInChain, Gen!Idle
<1>6. OneAhead'
  <2>1. \A k \in Gen!Stage : is_ready[k] => k = top
    BY <1>1 DEF ControlInChain, OneAhead
  <2> QED
    BY <1>1, <1>2, <2>1 DEF OneAhead, Gen!Idle
<1>7. Counted'
  BY <1>1 DEF Counted
<1>8. Frames'
  BY <1>1, <1>2, <1>3 DEF Frames, ChainTypeOK
<1> QED
  BY <1>3, <1>4, <1>5, <1>6, <1>7, <1>8

(* The one object the user has is destroyed, and with it every frame,      *)
(* unless that of an empty source is gone already.                         *)
LEMMA ChainDestructor ==
  ASSUME ChainIInv, Gen!destructor
  PROVE  ChainIInv'
<1> USE DEF ChainIInv
<1> DEFINE top == Gen!Top
<1>1. /\ top \in Gen!Stage /\ top \in Nat \ {0}
      /\ \A k \in Gen!Stage : frame[k] # "none" <=> k <= top
  BY TopStage DEF Gen!Stage
<1>2. outcome = "running" /\ handles = {top} /\ Gen!Max(handles) = top
  BY <1>1, MaxIs DEF Gen!destructor, Frames
<1>3. /\ handles' = {} /\ operation' = "destructor"
      /\ UNCHANGED <<endless, sourceLength, is_ready, value, produced, control, received>>
      /\ \/ outcome' = "undefined" /\ frame' = frame /\ \E k \in 1 .. top : frame[k] = "destroyed"
         \/ outcome' = "done" /\ frame' = [k \in Gen!Stage |-> IF k <= top THEN "destroyed" ELSE frame[k]]
  BY <1>2 DEF Gen!destructor, Gen!source, Gen!promises
<1>4. Contiguous' /\ Gen!Top' = top
  <2>1. \A k \in Gen!Stage : frame'[k] = "none" <=> frame[k] = "none"
    BY <1>1, <1>3
  <2> QED
    BY <2>1, TopKept
<1>5. ChainTypeOK'
  BY <1>1, <1>3 DEF ChainTypeOK
<1>6. ControlInChain' /\ OneAhead' /\ Counted'
  BY <1>3, <1>4 DEF ControlInChain, OneAhead, Counted
<1>7. Frames'
  <2>1. CASE outcome' = "done"
    BY <1>1, <1>3, <2>1 DEF Frames, ChainTypeOK
  <2>2. CASE outcome' = "undefined"
    <3>1. \E k \in Gen!Stage : frame[k] = "destroyed"
      BY <1>1, <1>3, <2>2, GeneratorAssumption DEF Gen!Stage
    <3>2. ~endless /\ sourceLength = 0 /\ produced \in Nat /\ produced <= sourceLength
      BY <1>2, <3>1 DEF Frames, ChainTypeOK, Counted
    <3>3. produced = sourceLength
      BY <3>2
    <3> QED
      BY <1>3, <2>2, <3>2, <3>3 DEF Frames
  <2> QED
    BY <1>3, <2>1, <2>2
<1> QED
  BY <1>4, <1>5, <1>6, <1>7

--------------------------------------------------------------------------------
(* hasNext of a stage.                                                     *)

(* Who asks for a value is at a stage that exists, and a value that waits  *)
(* is not beyond it.                                                       *)
LEMMA EnteredAt ==
  ASSUME ChainIInv, NEW k \in Gen!Stage, Gen!Entered(k)
  PROVE  /\ k \in Nat \ {0} /\ k <= Gen!Top /\ operation # "none"
         /\ outcome = "running" /\ control = <<k, "enter">> /\ control # Gen!Idle
         /\ \A j \in Gen!Stage : is_ready[j] => j <= k
<1>1. outcome = "running" /\ control = <<k, "enter">> /\ control[1] = k /\ control[2] = "enter"
  BY DEF Gen!Entered
<1>2. control # Gen!Idle
  BY <1>1 DEF Gen!Idle
<1> QED
  BY <1>1, <1>2 DEF ChainIInv, ControlInChain, OneAhead, Gen!Stage

(* done() of a frame that is gone: only that of an empty source.           *)
LEMMA ChainOfDestroyed ==
  ASSUME ChainIInv, NEW k \in Gen!Stage, Gen!hasNextOfDestroyed(k)
  PROVE  ChainIInv'
<1> USE DEF ChainIInv
<1>1. /\ outcome = "running" /\ frame[k] = "destroyed" /\ outcome' = "undefined"
      /\ UNCHANGED <<endless, sourceLength, frame, is_ready, value, produced, handles, operation, control, received>>
  BY DEF Gen!hasNextOfDestroyed, Gen!Entered, Gen!source, Gen!promises
<1>2. Contiguous' /\ Gen!Top' = Gen!Top
  BY <1>1, TopKept
<1>3. ChainTypeOK' /\ ControlInChain' /\ OneAhead' /\ Counted'
  BY <1>1, <1>2 DEF ChainTypeOK, ControlInChain, OneAhead, Counted
<1>4. ~endless /\ sourceLength = 0 /\ produced \in Nat /\ produced <= sourceLength
  BY <1>1 DEF Frames, ChainTypeOK, Counted
<1>5. produced = sourceLength
  BY <1>4
<1> QED
  BY <1>1, <1>2, <1>3, <1>4, <1>5 DEF Frames

(* A value waits at the stage that is asked: it is the only one.           *)
LEMMA ChainReady ==
  ASSUME ChainIInv, NEW k \in Gen!Stage, Gen!hasNextReady(k)
  PROVE  ChainIInv'
<1> USE DEF ChainIInv
<1>1. /\ is_ready[k] /\ control' = <<k, "true">>
      /\ UNCHANGED <<endless, sourceLength, frame, is_ready, value, produced, handles, operation, received, outcome>>
  BY DEF Gen!hasNextReady, Gen!source, Gen!promises
<1>2. /\ k \in Nat \ {0} /\ k <= Gen!Top /\ operation # "none" /\ outcome = "running"
  BY EnteredAt DEF Gen!hasNextReady
<1>3. Contiguous' /\ Gen!Top' = Gen!Top /\ Gen!Top \in Nat
  BY <1>1, TopKept, TopStage DEF Gen!Stage
<1>4. ChainTypeOK' /\ Counted' /\ Frames'
  BY <1>1, <1>3 DEF ChainTypeOK, Counted, Frames
<1>5. ControlInChain' /\ OneAhead'
  BY <1>1, <1>2, <1>3 DEF ControlInChain, OneAhead, Gen!Idle
<1> QED
  BY <1>3, <1>4, <1>5

(* A map asks the stage before it; the source makes its next value, when   *)
(* nobody holds one, or ends.                                              *)
LEMMA ChainResume ==
  ASSUME ChainIInv, NEW k \in Gen!Stage, Gen!resume(k)
  PROVE  ChainIInv'
<1> USE DEF ChainIInv
<1>1. /\ ~is_ready[k] /\ k \in Nat \ {0} /\ k <= Gen!Top /\ operation # "none"
      /\ outcome = "running" /\ control = <<k, "enter">> /\ control # Gen!Idle
      /\ \A j \in Gen!Stage : is_ready[j] => j < k
      /\ UNCHANGED <<endless, sourceLength, handles, operation, received>>
  <2>1. ~is_ready[k] /\ UNCHANGED <<endless, sourceLength, handles, operation, received>>
    BY DEF Gen!resume, Gen!source
  <2>2. \A j \in Gen!Stage : j \in Nat
    BY DEF Gen!Stage
  <2> QED
    BY <2>1, <2>2, EnteredAt DEF Gen!resume
<1>2. Gen!Top \in Gen!Stage /\ Gen!Top \in Nat \ {0}
  BY TopStage DEF Gen!Stage
<1>3. CASE k > 1 /\ control' = <<k - 1, "enter">> /\ UNCHANGED <<Gen!promises, frame, outcome>>
  <2>1. UNCHANGED <<is_ready, value, produced, frame, outcome>> /\ k - 1 \in Nat \ {0} /\ k - 1 <= Gen!Top
    BY <1>1, <1>2, <1>3 DEF Gen!promises
  <2>2. Contiguous' /\ Gen!Top' = Gen!Top
    BY <2>1, TopKept
  <2>3. ChainTypeOK' /\ Counted' /\ Frames'
    BY <1>1, <2>1, <2>2 DEF ChainTypeOK, Counted, Frames
  <2>4. ControlInChain'
    BY <1>1, <1>2, <1>3, <2>1, <2>2 DEF ControlInChain, Gen!Idle
  <2>5. OneAhead'
    <3>1. \A j \in Gen!Stage : is_ready[j] => j <= k - 1
      BY <1>1 DEF Gen!Stage
    <3> QED
      BY <1>3, <2>1, <3>1 DEF OneAhead, Gen!Idle
  <2> QED
    BY <2>2, <2>3, <2>4, <2>5
<1>4. CASE /\ k = 1 /\ (endless \/ produced < sourceLength)
           /\ produced' = produced + 1 /\ Gen!yield_value(1, <<produced', 1>>)
           /\ control' = <<1, "true">> /\ UNCHANGED <<frame, outcome>>
  <2>1. 1 \in Gen!Stage /\ \A j \in Gen!Stage : ~is_ready[j]
    BY <1>1, <1>4 DEF Gen!Stage
  <2>2. Len(received) \in Nat /\ produced = Len(received) /\ produced \in Nat /\ sourceLength \in Nat
    BY <2>1 DEF Counted, ChainTypeOK
  <2>3. is_ready' = [is_ready EXCEPT ![1] = TRUE] /\ value' = [value EXCEPT ![1] = <<Len(received) + 1, 1>>]
    BY <1>4, <2>2 DEF Gen!yield_value
  <2>4. Contiguous' /\ Gen!Top' = Gen!Top
    BY <1>4, TopKept
  <2>5. \A j \in Gen!Stage : is_ready'[j] <=> j = 1
    BY <2>1, <2>3 DEF ChainTypeOK
  <2>6. ChainTypeOK'
    BY <1>1, <1>4, <2>1, <2>2, <2>3 DEF ChainTypeOK
  <2>7. Frames'
    BY <1>1, <1>4, <2>4 DEF Frames
  <2>8. Counted'
    <3>1. value'[1] = <<Len(received') + 1, 1>> /\ produced' = Len(received') + 1
      BY <1>1, <1>4, <2>1, <2>2, <2>3 DEF ChainTypeOK
    <3>2. ~endless' => produced' <= sourceLength'
      BY <1>1, <1>4, <2>2
    <3> QED
      BY <1>1, <2>1, <2>5, <3>1, <3>2 DEF Counted
  <2>9. ControlInChain' /\ OneAhead'
    BY <1>1, <1>2, <1>4, <2>1, <2>4, <2>5 DEF ControlInChain, OneAhead, Gen!Idle
  <2> QED
    BY <2>4, <2>6, <2>7, <2>8, <2>9
<1>5. CASE /\ k = 1 /\ ~endless /\ produced = sourceLength
           /\ frame' = [frame EXCEPT ![1] = "destroyed"] /\ outcome' = "undefined"
           /\ UNCHANGED <<Gen!promises, control>>
  <2>1. UNCHANGED <<is_ready, value, produced, control>>
    BY <1>5 DEF Gen!promises
  <2>2. \A j \in Gen!Stage : frame'[j] = "none" <=> frame[j] = "none"
    BY <1>1, <1>2, <1>5, TopStage DEF ChainTypeOK
  <2>3. Contiguous' /\ Gen!Top' = Gen!Top
    BY <2>2, TopKept
  <2>4. ChainTypeOK' /\ ControlInChain' /\ OneAhead' /\ Counted'
    BY <1>1, <1>5, <2>1, <2>3 DEF ChainTypeOK, ControlInChain, OneAhead, Counted
  <2>5. Frames'
    BY <1>1, <1>5, <2>1 DEF Frames
  <2> QED
    BY <2>3, <2>4, <2>5
<1> QED
  BY <1>3, <1>4, <1>5 DEF Gen!resume

(* A value that waits where true was returned is the only one.             *)
LEMMA TrueAt ==
  ASSUME ChainIInv, NEW k \in Nat, outcome = "running", control = <<k, "true">>
  PROVE  /\ k \in Gen!Stage /\ k <= Gen!Top /\ operation # "none" /\ control # Gen!Idle
         /\ is_ready[k] /\ \A j \in Gen!Stage : is_ready[j] <=> j = k
         /\ Len(received) \in Nat /\ produced = Len(received) + 1
         /\ value[k] = <<Len(received) + 1, k>>
<1> USE DEF ChainIInv
<1>1. control[1] = k /\ control[2] = "true" /\ control # Gen!Idle
  BY DEF Gen!Idle
<1>2. Gen!Top \in Gen!Stage /\ k \in 1 .. Gen!Top
  BY <1>1, TopStage DEF ControlInChain
<1>3. k \in Gen!Stage /\ k <= Gen!Top
  BY <1>2, GeneratorAssumption DEF Gen!Stage
<1>4. is_ready[k] /\ \A j \in Gen!Stage : is_ready[j] <=> j = k
  BY <1>1, <1>3 DEF OneAhead, ChainTypeOK
<1>5. Len(received) \in Nat
  BY DEF ChainTypeOK
<1> QED
  BY <1>1, <1>3, <1>4, <1>5 DEF ControlInChain, Counted

(* A value goes from one stage to the next, with one function more.        *)
LEMMA ChainLoopOfMap ==
  ASSUME ChainIInv, NEW k \in Gen!Stage, Gen!loopOfMap(k)
  PROVE  ChainIInv'
<1> USE DEF ChainIInv
<1>1. /\ outcome = "running" /\ control = <<k, "true">> /\ k < Gen!Top /\ control' = <<k + 1, "true">>
      /\ value' = [value EXCEPT ![k + 1] = <<value[k][1], value[k][2] + 1>>]
      /\ is_ready' = [is_ready EXCEPT ![k] = FALSE, ![k + 1] = TRUE]
      /\ UNCHANGED <<endless, sourceLength, frame, produced, handles, operation, received, outcome>>
  BY DEF Gen!loopOfMap, Gen!source
<1>2. k \in Nat \ {0} /\ Gen!Top \in Nat /\ k + 1 \in Gen!Stage /\ k + 1 <= Gen!Top
  BY <1>1, TopStage, GeneratorAssumption DEF Gen!Stage
<1>3. /\ operation # "none" /\ \A j \in Gen!Stage : is_ready[j] <=> j = k
      /\ Len(received) \in Nat /\ produced = Len(received) + 1
      /\ value[k] = <<Len(received) + 1, k>>
  BY <1>1, <1>2, TrueAt
<1>4. \A j \in Gen!Stage : is_ready'[j] <=> j = k + 1
  BY <1>1, <1>2, <1>3 DEF ChainTypeOK
<1>5. /\ value' \in [Gen!Stage -> Nat \X Nat] /\ value'[k + 1] = <<Len(received) + 1, k + 1>>
  <2>1. value' = [value EXCEPT ![k + 1] = <<Len(received) + 1, k + 1>>]
    BY <1>1, <1>3
  <2> QED
    BY <1>2, <1>3, <2>1 DEF ChainTypeOK
<1>6. Contiguous' /\ Gen!Top' = Gen!Top
  BY <1>1, TopKept
<1>7. ChainTypeOK'
  BY <1>1, <1>5 DEF ChainTypeOK
<1>8. control'[1] = k + 1 /\ control'[2] = "true" /\ control' # Gen!Idle
  BY <1>1 DEF Gen!Idle
<1>9. ControlInChain'
  BY <1>1, <1>2, <1>3, <1>6, <1>8 DEF ControlInChain
<1>10. OneAhead'
  BY <1>2, <1>4, <1>8 DEF OneAhead
<1>11. Counted'
  BY <1>1, <1>2, <1>3, <1>4, <1>5 DEF Counted
<1>12. Frames'
  BY <1>1, <1>6 DEF Frames
<1> QED
  BY <1>6, <1>7, <1>9, <1>10, <1>11, <1>12

(* The call returns at the last stage, and next takes the value with it.   *)
LEMMA ChainCallEnds ==
  ASSUME ChainIInv, Gen!CallEnds
  PROVE  /\ ChainIInv'
         /\ received' = received \/ received' = Append(received, <<Len(received) + 1, Gen!Top>>)
<1> USE DEF ChainIInv
<1> DEFINE top == Gen!Top
<1>1. /\ outcome = "running" /\ control = <<top, "true">>
      /\ control' = Gen!Idle /\ operation' = "none"
      /\ \/ /\ received' = Append(received, value[top])
            /\ is_ready' = [is_ready EXCEPT ![top] = FALSE]
         \/ received' = received /\ is_ready' = is_ready
      /\ UNCHANGED <<endless, sourceLength, frame, value, produced, handles, outcome>>
  BY DEF Gen!CallEnds, Gen!source
<1>2. top \in Nat \ {0} /\ top \in Gen!Stage
  BY TopStage DEF Gen!Stage
<1>3. /\ \A j \in Gen!Stage : is_ready[j] <=> j = top
      /\ Len(received) \in Nat /\ produced = Len(received) + 1
      /\ value[top] = <<Len(received) + 1, top>>
  BY <1>1, <1>2, TrueAt
<1>4. Contiguous' /\ Gen!Top' = top
  BY <1>1, TopKept
<1>5. Frames'
  BY <1>1, <1>4 DEF Frames, ChainTypeOK
<1>6. ControlInChain'
  BY <1>1 DEF ControlInChain, Gen!Idle
<1>7. CASE received' = Append(received, value[top]) /\ is_ready' = [is_ready EXCEPT ![top] = FALSE]
  <2>1. \A j \in Gen!Stage : ~is_ready'[j]
    BY <1>2, <1>3, <1>7 DEF ChainTypeOK
  <2>2. received \in Seq(Nat \X Nat) /\ <<Len(received) + 1, top>> \in Nat \X Nat
    BY <1>2, <1>3 DEF ChainTypeOK
  <2>3. /\ received' = Append(received, <<Len(received) + 1, top>>)
        /\ received' \in Seq(Nat \X Nat) /\ Len(received') = Len(received) + 1
        /\ received'[Len(received) + 1] = <<Len(received) + 1, top>>
        /\ \A n \in 1 .. Len(received) : received'[n] = received[n]
    BY <1>3, <1>7, <2>2
  <2>4. ChainTypeOK'
    BY <1>1, <1>2, <1>7, <2>3 DEF ChainTypeOK
  <2>5. OneAhead'
    BY <1>1, <2>1 DEF OneAhead, Gen!Idle
  <2>6. \A n \in DOMAIN received' : received'[n][1] = n
    <3> SUFFICES ASSUME NEW n \in 1 .. Len(received) + 1 PROVE received'[n][1] = n
      BY <2>3
    <3>1. CASE n \in 1 .. Len(received)
      BY <2>2, <2>3, <3>1 DEF Counted
    <3>2. CASE n = Len(received) + 1
      BY <2>3, <3>2
    <3> QED
      BY <1>3, <3>1, <3>2
  <2>7. Counted'
    BY <1>1, <1>3, <2>1, <2>3, <2>6 DEF Counted
  <2> QED
    BY <1>4, <1>5, <1>6, <2>3, <2>4, <2>5, <2>7
<1>8. CASE received' = received /\ is_ready' = is_ready
  <2>1. ChainTypeOK' /\ Counted'
    BY <1>1, <1>8 DEF ChainTypeOK, Counted
  <2>2. OneAhead'
    BY <1>1, <1>3, <1>4, <1>8 DEF OneAhead, Gen!Idle
  <2> QED
    BY <1>4, <1>5, <1>6, <1>8, <2>1, <2>2
<1> QED
  BY <1>1, <1>7, <1>8

(* Every step keeps the invariant, and takes at most the value that is due.*)
LEMMA ChainNext ==
  ASSUME ChainIInv, [Gen!Next]_(Gen!vars)
  PROVE  /\ ChainIInv'
         /\ received' = received \/ received' = Append(received, <<Len(received) + 1, Gen!Top>>)
<1>1. CASE UNCHANGED Gen!vars
  <2>1. UNCHANGED <<endless, sourceLength, frame, is_ready, value, produced, handles, operation, control, received, outcome>>
    BY <1>1 DEF Gen!vars, Gen!source, Gen!promises
  <2>2. Contiguous' /\ Gen!Top' = Gen!Top
    BY <2>1, TopKept DEF ChainIInv
  <2>3. ChainTypeOK' /\ ControlInChain' /\ OneAhead' /\ Counted' /\ Frames'
    BY <2>1, <2>2 DEF ChainIInv, ChainTypeOK, ControlInChain, OneAhead, Counted, Frames
  <2> QED
    BY <2>1, <2>2, <2>3 DEF ChainIInv
<1>2. CASE Gen!Next
  <2>1. CASE Gen!hasNext \/ Gen!next \/ Gen!map \/ Gen!destructor
    BY <2>1, ChainCallBegins, ChainMap, ChainDestructor DEF Gen!hasNext, Gen!next, Gen!map, Gen!destructor
  <2>2. ASSUME NEW k \in Gen!Stage,
               Gen!hasNextOfDestroyed(k) \/ Gen!hasNextReady(k) \/ Gen!resume(k) \/ Gen!loopOfMap(k)
        PROVE  ChainIInv' /\ received' = received
    <3>1. received' = received
      BY <2>2 DEF Gen!hasNextOfDestroyed, Gen!hasNextReady, Gen!resume, Gen!loopOfMap
    <3> QED
      BY <2>2, <3>1, ChainOfDestroyed, ChainReady, ChainResume, ChainLoopOfMap
  <2> QED
    BY <1>2, <2>1, <2>2, ChainCallEnds DEF Gen!Next
<1> QED
  BY <1>1, <1>2

--------------------------------------------------------------------------------

(* The inductive invariant holds in every reachable state.                 *)
LEMMA ChainInvariance == Gen!Spec => []ChainIInv
BY ChainInit, ChainNext, PTL DEF Gen!Spec

(* However long the chain and whatever is called when: no value is lost,   *)
(* repeated or taken out of order, each stage applies its function to it   *)
(* once, and the source is at most one value ahead of the user.            *)
THEOREM EachValueOnceHolds == Gen!Spec => []EachValueOnce
<1>1. ChainIInv => EachValueOnce
  <2> SUFFICES ASSUME ChainIInv PROVE EachValueOnce
    OBVIOUS
  <2> DEFINE ready == {k \in Gen!Stage : is_ready[k]}
  <2>1. \A S : Gen!Cardinality(S) = Cardinality(S)
    BY DEF Gen!Cardinality, Cardinality
  <2>2. Cardinality(ready) = IF \E k \in Gen!Stage : is_ready[k] THEN 1 ELSE 0
    <3>1. CASE \E k \in Gen!Stage : is_ready[k]
      <4>1. PICK k \in Gen!Stage : is_ready[k]
        BY <3>1
      <4>2. ready = {k}
        BY <4>1 DEF ChainIInv, OneAhead
      <4> QED
        BY <3>1, <4>2, FS_Singleton
    <3>2. CASE ~\E k \in Gen!Stage : is_ready[k]
      <4>1. ready = {}
        BY <3>2
      <4> QED
        BY <3>2, <4>1, FS_EmptySet
    <3> QED
      BY <3>1, <3>2
  <2> QED
    BY <2>1, <2>2 DEF EachValueOnce, Gen!EachValueOnce, ChainIInv, Counted
<1> QED
  BY <1>1, ChainInvariance, PTL

(* A frame is used after it is gone only at the end of a finite source,    *)
(* and no frame outlives the user's objects.                               *)
THEOREM FramesDestroyedOnceHolds == Gen!Spec => []FramesDestroyedOnce
<1>1. ChainIInv => FramesDestroyedOnce
  BY DEF ChainIInv, Frames, FramesDestroyedOnce, Gen!FramesDestroyedOnce
<1> QED
  BY <1>1, ChainInvariance, PTL

(* What next returns is decided when it returns: the next value of the     *)
(* source, with the function of every stage there is by then applied.      *)
THEOREM TakesInOrder ==
  Gen!Spec => [][received' = received \/ received' = Append(received, <<Len(received) + 1, Gen!Top>>)]_(Gen!vars)
<1>1. ChainIInv /\ [Gen!Next]_(Gen!vars)
      => [received' = received \/ received' = Append(received, <<Len(received) + 1, Gen!Top>>)]_(Gen!vars)
  BY ChainNext
<1> QED
  BY <1>1, ChainInvariance, PTL DEF Gen!Spec

--------------------------------------------------------------------------------

(* A behaviour in which one of the two is used is one of each, so that     *)
(* what was proved of each holds of it.                                    *)
THEOREM OneWay == TraversalsSpec => Spec /\ Gen!Spec
<1>1. TraversalsInit => Init /\ Gen!Init
  BY DEF TraversalsInit
<1>2. [TraversalsNext]_<<way, vars, generator>> => [Next]_vars
  BY DEF TraversalsNext
<1>3. [TraversalsNext]_<<way, vars, generator>> => [Gen!Next]_(Gen!vars)
  <2>1. generator' = generator => Gen!vars' = Gen!vars
    BY DEF generator, Gen!vars, Gen!source, Gen!promises
  <2> QED
    BY <2>1 DEF TraversalsNext
<1> QED
  BY <1>1, <1>2, <1>3, PTL DEF TraversalsSpec, Spec, Gen!Spec

================================================================================

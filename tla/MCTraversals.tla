------------------------------ MODULE MCTraversals ------------------------------
(* Two ways through a sequence: blocks of it, one after another            *)
(* (ParallelBlocks), or a chain of coroutines (SequenceGenerator).  They   *)
(* share nothing; a behaviour uses one of them, which the initial state    *)
(* picks, and leaves the other as it began.                                *)
EXTENDS ParallelBlocks

CONSTANTS Stages, Length, Calls      \* those of SequenceGenerator

ASSUME GeneratorAssumption == {Stages, Length, Calls} \subseteq Nat /\ Stages > 0

VARIABLES way,                                                   (* "blocks" or "chain" *)
          endless, sourceLength, frame, is_ready, value, produced, handles,
          operation, control, received, calls, outcome

Gen == INSTANCE SequenceGenerator WITH length <- sourceLength, call <- operation

generator == <<endless, sourceLength, frame, is_ready, value, produced, handles,
               operation, control, received, calls, outcome>>

TraversalsInit ==
  /\ way \in {"blocks", "chain"}
  /\ Init /\ Gen!Init
  /\ way = "blocks" => endless /\ sourceLength = 0
  /\ way = "chain" => program = "find" /\ length = 0 /\ hardware = 0

TraversalsNext ==
  \/ way = "blocks" /\ Next /\ UNCHANGED <<way, generator>>
  \/ way = "chain" /\ Gen!Next /\ UNCHANGED <<way, vars>>

TraversalsSpec == TraversalsInit /\ [][TraversalsNext]_<<way, vars, generator>>

(* However often hasNext is called between calls of next, and whenever map *)
(* is, next returns every value of the source once and in order with each  *)
(* stage's function applied once; the whole chain has at most one value    *)
(* that nobody has taken.                                                  *)
EachValueOnce == Gen!EachValueOnce

(* A handle is used after its frame is gone only where a finite source has *)
(* come to its end; otherwise every frame is destroyed once, with the last *)
(* of the user's objects.                                                  *)
FramesDestroyedOnce == Gen!FramesDestroyedOnce

================================================================================

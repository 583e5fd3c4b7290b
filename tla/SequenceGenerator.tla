--------------------------- MODULE SequenceGenerator ---------------------------
(***************************************************************************)
(* Generator<T>: a chain of coroutines, stage 1 a source (endless like     *)
(* those of main.cpp, or finite like from and from_list) and each later    *)
(* stage a map over the one before, whose handle it has moved into its own *)
(* frame.  hasNext of a stage resumes its frame, whose loop calls hasNext  *)
(* and next of the stage before; a step is one of these calls entered or   *)
(* returned from.  A value is a pair: which value of the source it is, and *)
(* the stage that yielded it, i.e. how many functions were applied to it.  *)
(*                                                                         *)
(* final_suspend does not suspend: a coroutine that runs off its end (or   *)
(* throws, which unhandled_exception ignores) destroys its own frame.  To  *)
(* use a handle after that is undefined, and ends the model.               *)
(***************************************************************************)
EXTENDS Naturals, FiniteSets, SequencesExt

CONSTANTS Stages,    \* bound: the stages of the chain
          Length,    \* bound: the values of a finite source
          Calls      \* bound: the calls of the user

VARIABLES
  endless,    \* the source never ends
  length,     \* how many values it has otherwise
  frame,      \* a stage's frame: "none", "alive", "destroyed"
  is_ready,   \* the promise: a value has been yielded and not taken
  value,      \* the promise: the last value yielded
  produced,   \* how many values the source has yielded
  handles,    \* the stages whose handle_ is in an object of the user's
  call,       \* what the user has called: "none", "hasNext", "next", "map", "destructor"
  control,    \* the stage whose hasNext runs, and whether it is entered or returns true
  received,   \* history: what next returned to the user
  calls,
  outcome     \* "running", "done", "undefined"

promises == <<is_ready, value, produced>>
source == <<endless, length>>
vars == <<source, frame, promises, handles, call, control, received, calls, outcome>>

Stage == 1 .. Stages
Idle == <<0, "idle">>
Top == Max({k \in Stage : frame[k] # "none"} \cup {0})

(* The source is called: initial_suspend does not suspend, so it runs to   *)
(* its first co_yield, or to its end.                                      *)
Init ==
  /\ endless \in BOOLEAN /\ length \in 0 .. Length
  /\ LET Yields == endless \/ length > 0
     IN /\ produced = IF Yields THEN 1 ELSE 0
        /\ is_ready = [k \in Stage |-> k = 1 /\ Yields]
        /\ frame = [k \in Stage |-> IF k > 1 THEN "none" ELSE IF Yields THEN "alive" ELSE "destroyed"]
  /\ value = [k \in Stage |-> <<1, 1>>]
  /\ handles = {1}
  /\ call = "none" /\ control = Idle
  /\ received = <<>> /\ calls = 0 /\ outcome = "running"

--------------------------------------------------------------------------------
(* The user.                                                               *)

CallBegins(operation) ==
  /\ outcome = "running" /\ call = "none"
  /\ call' = operation
  /\ calls < Calls /\ calls' = calls + 1

hasNext ==
  /\ CallBegins("hasNext")
  /\ control' = <<Top, "enter">>
  /\ UNCHANGED <<source, frame, promises, handles, received, outcome>>

next ==
  /\ CallBegins("next")
  /\ control' = <<Top, "enter">>
  /\ UNCHANGED <<source, frame, promises, handles, received, outcome>>

map_LeavesHandle ==
  /\ CallBegins("map") /\ Top < Stages
  /\ frame' = [frame EXCEPT ![Top + 1] = "alive"]
  /\ handles' = handles \cup {Top + 1}
  /\ control' = <<Top, "enter">>
  /\ UNCHANGED <<source, promises, received, outcome>>

(* The body of map starts at once: it takes the handle out of the object   *)
(* map was called on, while that object is there, and asks for a value.    *)
map ==
  /\ CallBegins("map") /\ Top < Stages
  /\ frame' = [frame EXCEPT ![Top + 1] = "alive"]
  /\ handles' = (handles \ {Top}) \cup {Top + 1}
  /\ control' = <<Top, "enter">>
  /\ UNCHANGED <<source, promises, received, outcome>>

(* The user's objects are destroyed, the last one first.  Destroying a     *)
(* map's frame destroys the generator in it, and so on down to the source. *)
destructor ==
  /\ outcome = "running" /\ call \in {"none", "destructor"} /\ handles # {}
  /\ call' = "destructor"
  /\ LET last == Max(handles)
     IN /\ handles' = handles \ {last}
        /\ IF \E k \in 1 .. last : frame[k] = "destroyed"
           THEN outcome' = "undefined" /\ UNCHANGED frame
           ELSE /\ frame' = [k \in Stage |-> IF k <= last THEN "destroyed" ELSE frame[k]]
                /\ outcome' = IF handles' = {} THEN "done" ELSE "running"
  /\ UNCHANGED <<source, promises, control, received, calls>>

--------------------------------------------------------------------------------
(* hasNext of a stage.                                                     *)

Entered(k) == outcome = "running" /\ control = <<k, "enter">>

(* done() is asked of a frame that is gone.                                *)
hasNextOfDestroyed(k) ==
  /\ Entered(k) /\ frame[k] = "destroyed"
  /\ outcome' = "undefined"
  /\ UNCHANGED <<source, frame, promises, handles, call, control, received, calls>>

hasNextReady_Twice(k) ==
  /\ Entered(k) /\ frame[k] = "alive" /\ is_ready[k]
  /\ is_ready' = [is_ready EXCEPT ![k] = FALSE]
  /\ UNCHANGED <<source, frame, value, produced, handles, call, control, received, calls, outcome>>

hasNextReady(k) ==
  /\ Entered(k) /\ frame[k] = "alive" /\ is_ready[k]
  /\ control' = <<k, "true">>
  /\ UNCHANGED <<source, frame, promises, handles, call, received, calls, outcome>>

yield_value(k, v) ==
  /\ value' = [value EXCEPT ![k] = v]
  /\ is_ready' = [is_ready EXCEPT ![k] = TRUE]

(* resume(): a map goes on to ask the stage before; the source yields, or  *)
(* ends, and hasNext then asks done() of the frame that is gone.           *)
resume(k) ==
  /\ Entered(k) /\ frame[k] = "alive" /\ ~is_ready[k]
  /\ \/ /\ k > 1
        /\ control' = <<k - 1, "enter">>
        /\ UNCHANGED <<promises, frame, outcome>>
     \/ /\ k = 1 /\ (endless \/ produced < length)
        /\ produced' = produced + 1
        /\ yield_value(1, <<produced', 1>>)
        /\ control' = <<1, "true">>
        /\ UNCHANGED <<frame, outcome>>
     \/ /\ k = 1 /\ ~endless /\ produced = length
        /\ frame' = [frame EXCEPT ![1] = "destroyed"]
        /\ outcome' = "undefined"
        /\ UNCHANGED <<promises, control>>
  /\ UNCHANGED <<source, handles, call, received, calls>>

(* hasNext returned true to the loop of the next stage, which calls next   *)
(* (the value is ready, so its hasNext does nothing) and yields f of it.   *)
loopOfMap(k) ==
  /\ outcome = "running" /\ control = <<k, "true">> /\ k < Top
  /\ value' = [value EXCEPT ![k + 1] = <<value[k][1], value[k][2] + 1>>]
  /\ is_ready' = [is_ready EXCEPT ![k] = FALSE, ![k + 1] = TRUE]
  /\ control' = <<k + 1, "true">>
  /\ UNCHANGED <<source, frame, produced, handles, call, received, calls, outcome>>

(* hasNext returned true to the user, or to the user's next.               *)
CallEnds ==
  /\ outcome = "running" /\ control = <<Top, "true">>
  /\ control' = Idle /\ call' = "none"
  /\ IF call = "next"
     THEN /\ received' = Append(received, value[Top])
          /\ is_ready' = [is_ready EXCEPT ![Top] = FALSE]
     ELSE UNCHANGED <<received, is_ready>>
  /\ UNCHANGED <<source, frame, value, produced, handles, calls, outcome>>

Next ==
  \/ hasNext \/ next \/ map \/ destructor
  \/ \E k \in Stage : hasNextOfDestroyed(k) \/ hasNextReady(k) \/ resume(k) \/ loopOfMap(k)
  \/ CallEnds

Spec == Init /\ [][Next]_vars

--------------------------------------------------------------------------------
(* Properties.                                                             *)

(* However often hasNext is called between calls of next, and whenever map *)
(* is, next returns every value of the source once and in order with each  *)
(* stage's function applied once; the whole chain has at most one value    *)
(* that nobody has taken.                                                  *)
EachValueOnce ==
  /\ \A i \in DOMAIN received : received[i][1] = i
  /\ \A k \in Stage : is_ready[k] => value[k] = <<Len(received) + 1, k>>
  /\ produced = Len(received) + Cardinality({k \in Stage : is_ready[k]})

(* A handle is used after its frame is gone only where a finite source has *)
(* come to its end; otherwise every frame is destroyed once, with the last *)
(* of the user's objects.                                                  *)
FramesDestroyedOnce ==
  /\ outcome = "undefined" => ~endless /\ produced = length
  /\ outcome = "done" => \A k \in Stage : frame[k] # "alive"
  /\ outcome = "running" => \A k \in Stage : frame[k] = "destroyed" => call = "destructor" \/ length = 0

================================================================================

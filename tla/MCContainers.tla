------------------------------ MODULE MCContainers ------------------------------
(* The two blocking containers, ThreadSafeQueue and ThreadSafeStack, used  *)
(* by the same few threads: a behaviour uses one of them, which the        *)
(* initial state picks.                                                    *)
EXTENDS ThreadSafeQueue

VARIABLES container,                                     (* "queue" or "stack" *)
          stack, stackPc, stackCalls, stackPushed, stackPopped

Stack == INSTANCE ThreadSafeStack WITH
  data_ <- stack, pc <- stackPc, calls <- stackCalls, pushed <- stackPushed, popped <- stackPopped

stackVars == <<stack, stackPc, stackCalls, stackPushed, stackPopped>>

ContainersInit == container \in {"queue", "stack"} /\ Init /\ Stack!Init

ContainersNext ==
  \/ container = "queue" /\ Next /\ UNCHANGED <<container, stackVars>>
  \/ container = "stack" /\ Stack!Next /\ UNCHANGED <<container, vars>>

(* The fairness of ThreadSafeQueue's FairSpec.                             *)
ContainersSpec ==
  /\ ContainersInit
  /\ [][ContainersNext]_<<container, vars, stackVars>>
  /\ container = "queue" =>
       /\ \A p \in Producers : WF_vars(Producer(p))
       /\ \A c \in Consumers : WF_vars(Consumer(c))
       /\ \A r \in Pollers : WF_vars(Poller(r))

(* However pushes, waiting pops and polling pops of the stack interleave,  *)
(* every value pushed is on it or was handed out, never both, never twice. *)
StackConsistent == Stack!StackConsistent

(* No wake-up of the stack is lost: while consumers sleep, at least as     *)
(* many are awake and yet to look as there are values to pop.              *)
StackNoLostWakeup == Stack!StackNoLostWakeup

================================================================================

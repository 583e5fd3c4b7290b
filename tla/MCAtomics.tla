-------------------------------- MODULE MCAtomics --------------------------------
(* What multithread/ does with atomics: the demos of memory orders, the    *)
(* spin lock and the singleton, each a program on a machine with stale     *)
(* reads (MemoryOrders), and the interrupt flag (InterruptFlag).  They     *)
(* share nothing; a behaviour is of one of the two, which the initial      *)
(* state picks, and leaves the other as it began.                          *)
EXTENDS MemoryOrders

AllPrograms ==
  {noAssertForever, infinityLoop, implyRiskMethod1, demo1, implyRiskMethod2("sc"),
   lookLikeDangerButSafe, ProductorCustomer, threadFence,
   testSeqCst, testRelax, testAcuqireRelease, SpinLockMain, SingletonMain}

CONSTANTS Targets, Rounds, Notifies, Free      \* those of InterruptFlag

ASSUME FlagAssumption ==
  /\ Free \notin Targets
  /\ Rounds \in Nat \ {0}
  /\ Notifies \in Nat

VARIABLES which,                                                 (* "orders" or "flag" *)
          flag_, cv_mtx_, cv_, cv_any_, lk, ready, flagPc, mode, thrown, rounds, setting, notifies

Flag == INSTANCE InterruptFlag WITH pc <- flagPc

interrupts == <<flag_, cv_mtx_, cv_, cv_any_, lk, ready, flagPc, mode, thrown, rounds, setting, notifies>>

AtomicsInit ==
  /\ which \in {"orders", "flag"}
  /\ Init /\ Flag!Init
  /\ which = "flag" => program = CHOOSE p \in Programs : TRUE

AtomicsNext ==
  \/ which = "orders" /\ Next /\ UNCHANGED <<which, interrupts>>
  \/ which = "flag" /\ Flag!Next /\ UNCHANGED <<which, vars>>

AtomicsSpec == AtomicsInit /\ [][AtomicsNext]_<<which, vars, interrupts>>

(* The threads of a program are scheduled fairly, and a store becomes      *)
(* visible after a finite time, as the standard asks of implementations.   *)
(* InterruptFlag has its own; where no target ever starts a wait, it asks  *)
(* for nothing.                                                            *)
AtomicsFairSpec ==
  /\ AtomicsSpec
  /\ \A t \in UNION {DOMAIN p.code : p \in Programs} : WF_vars(which = "orders" /\ t \in Threads /\ Step(t))
  /\ Flag!Fairness

(* Every program ends: no spin waits for a store that waits for the spin.  *)
Terminates == which = "orders" => <>Finished

(* The types, and however a wait ends, by a return or by an exception at   *)
(* any of its interruption points, the caller has its lock back, the       *)
(* flag's mutex is free again and no pointer to a condition variable is    *)
(* left behind.                                                            *)
Consistent == Flag!Consistent

(* A target asleep without a time limit although its flag is set has its   *)
(* notification still to come: no interrupt falls between its last look at *)
(* the flag and its sleep.                                                 *)
NoLostInterrupt == Flag!NoLostInterrupt

(* A target inside a wait, of any kind, when it is interrupted ends that   *)
(* wait by throwing thread_interrupted.                                    *)
InterruptThrows == Flag!InterruptThrows

================================================================================

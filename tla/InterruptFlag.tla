------------------------------ MODULE InterruptFlag ------------------------------
(***************************************************************************)
(* class interrupt_flag of multithread/interruptible_thread.h and the four *)
(* interruptible waits built on it.  A target thread makes a bounded       *)
(* number of waits and ends at the first that throws thread_interrupted;   *)
(* an interrupter of its own calls set() on its flag, once, at any time;   *)
(* a client notifies the condition variables the targets wait on.          *)
(*                                                                         *)
(* lk is the mutex the callers of the waits share, cv and cv_any the       *)
(* condition variables they share; the flag, cv_mtx_ and the pointers cv_  *)
(* and cv_any_ belong to one target (the flag is thread_local).  The       *)
(* pointers are only ever set to that one cv and that one cv_any, so they  *)
(* are Booleans: registered or null.                                       *)
(*                                                                         *)
(* pc[t]: "idle", then by the kind of wait in mode[t]                      *)
(*   "cv"     interruptible_wait(cv, lk), which is timed                   *)
(*   "pred"   the same with a predicate                                    *)
(*            "enter" "register" "test" "sleep" "timed" "relock" "final"   *)
(*   "any"    interrupt_flag::wait(cv_any, lk)                             *)
(*            "enter" "anytest" "anysleep" "anyblocked" "anyrelock"        *)
(*            "anyfinal"                                                   *)
(*   "future" interruptible_wait(future)                                   *)
(*            "poll" "pollwait" "pollfinal"                                *)
(* "unwind" is the guard's destructor to come, after a return or a throw;  *)
(* "returned" and "caught" are the caller with the wait behind it, and     *)
(* "done" a target that has ended.  thrown[t] is the exception in flight.  *)
(***************************************************************************)
EXTENDS Naturals, FiniteSets

CONSTANTS Targets,
          Rounds,       (* how many waits a target makes at most           *)
          Notifies,     (* how many times the client notifies              *)
          Free          (* the owner of a mutex nobody holds               *)

VARIABLES flag_, cv_mtx_, cv_, cv_any_,   (* the interrupt_flag of each target *)
          lk,
          ready,        (* the predicate holds, the future is ready        *)
          pc, mode, thrown, rounds,
          setting,      (* where the interrupter of each target stands     *)
          notifies

vars == <<flag_, cv_mtx_, cv_, cv_any_, lk, ready, pc, mode, thrown, rounds, setting, notifies>>

flag == <<flag_, cv_mtx_, cv_, cv_any_>>
client == <<ready, setting, notifies>>

Modes == {"cv", "pred", "any", "future"}

Init ==
  /\ flag_ = [t \in Targets |-> FALSE]
  /\ cv_mtx_ = [t \in Targets |-> Free]
  /\ cv_ = [t \in Targets |-> FALSE]
  /\ cv_any_ = [t \in Targets |-> FALSE]
  /\ lk = Free
  /\ ready = FALSE
  /\ pc = [t \in Targets |-> "idle"]
  /\ mode = [t \in Targets |-> "cv"]
  /\ thrown = [t \in Targets |-> FALSE]
  /\ rounds = [t \in Targets |-> 0]
  /\ setting = [t \in Targets |-> "store"]
  /\ notifies = 0

Goto(t, label) == pc' = [pc EXCEPT ![t] = label]

--------------------------------------------------------------------------------
(* The target.                                                             *)

(* The caller takes lk, but for the wait on a future, and calls.           *)
Call(t, m) ==
  /\ pc[t] = "idle"
  /\ IF m = "future" THEN UNCHANGED lk ELSE lk = Free /\ lk' = t
  /\ mode' = [mode EXCEPT ![t] = m]
  /\ Goto(t, IF m = "future" THEN "poll" ELSE "enter")
  /\ UNCHANGED <<flag, thrown, rounds, client>>

(* interruption_point(): on with the wait, or throw.                       *)
InterruptionPoint(t, onward, outward) ==
  /\ thrown' = [thrown EXCEPT ![t] = flag_[t]]
  /\ Goto(t, IF flag_[t] THEN outward ELSE onward)

(* The timed waits, up to the guard.                                       *)
Enter(t) ==
  /\ pc[t] = "enter" /\ mode[t] # "any"
  /\ InterruptionPoint(t, "register", "caught")
  /\ UNCHANGED <<flag, lk, mode, rounds, client>>

(* set_condition_variable(): takes and gives back cv_mtx_.                 *)
Register(t) ==
  /\ pc[t] = "register"
  /\ cv_mtx_[t] = Free
  /\ cv_' = [cv_ EXCEPT ![t] = TRUE]
  /\ Goto(t, "test")
  /\ UNCHANGED <<flag_, cv_mtx_, cv_any_, lk, mode, thrown, rounds, client>>

(* With the guard in place: a last look before sleeping.                   *)
Test(t) ==
  /\ pc[t] = "test"
  /\ IF mode[t] = "cv" THEN InterruptionPoint(t, "sleep", "unwind")
     ELSE /\ Goto(t, IF ~flag_[t] /\ ~ready THEN "sleep" ELSE "final")
          /\ UNCHANGED thrown
  /\ UNCHANGED <<flag, lk, mode, rounds, client>>

(* wait_for: lk is given up and the wait set joined at once.               *)
Sleep(t) ==
  /\ pc[t] = "sleep"
  /\ lk' = Free
  /\ Goto(t, "timed")
  /\ UNCHANGED <<flag, mode, thrown, rounds, client>>

(* The millisecond is over, or the wait ends for no reason.                *)
Timeout(t) ==
  /\ pc[t] = "timed"
  /\ Goto(t, "relock")
  /\ UNCHANGED <<flag, lk, mode, thrown, rounds, client>>

Relock(t) ==
  /\ pc[t] = "relock"
  /\ lk = Free
  /\ lk' = t
  /\ Goto(t, IF mode[t] = "cv" THEN "final" ELSE "test")
  /\ UNCHANGED <<flag, mode, thrown, rounds, client>>

Final(t) ==
  /\ pc[t] = "final"
  /\ InterruptionPoint(t, "unwind", "unwind")
  /\ UNCHANGED <<flag, lk, mode, rounds, client>>

(* ~clear_cv_on_destruct(), on a return and on a throw.                    *)
Unwind(t) ==
  /\ pc[t] = "unwind"
  /\ cv_mtx_[t] = Free
  /\ cv_' = [cv_ EXCEPT ![t] = FALSE]
  /\ Goto(t, IF thrown[t] THEN "caught" ELSE "returned")
  /\ UNCHANGED <<flag_, cv_mtx_, cv_any_, lk, mode, thrown, rounds, client>>

(* custom_lock's constructor.                                              *)
AnyLock(t) ==
  /\ pc[t] = "enter" /\ mode[t] = "any"
  /\ cv_mtx_[t] = Free
  /\ cv_mtx_' = [cv_mtx_ EXCEPT ![t] = t]
  /\ cv_any_' = [cv_any_ EXCEPT ![t] = TRUE]
  /\ Goto(t, "anytest")
  /\ UNCHANGED <<flag_, cv_, lk, mode, thrown, rounds, client>>

(* Fault: the pointer to the condition variable is left behind.            *)
AnyDestruct_KeepsPointer(t) ==
  /\ cv_mtx_' = [cv_mtx_ EXCEPT ![t] = Free]
  /\ UNCHANGED cv_any_

(* A wait on any lock ends, by return or throw: custom_lock's destructor.  *)
AnyDestruct(t) ==
  /\ cv_any_' = [cv_any_ EXCEPT ![t] = FALSE]
  /\ cv_mtx_' = [cv_mtx_ EXCEPT ![t] = Free]

AnyTest(t) ==
  /\ pc[t] = "anytest"
  /\ InterruptionPoint(t, "anysleep", "caught")
  /\ IF flag_[t] THEN AnyDestruct(t) ELSE UNCHANGED <<cv_any_, cv_mtx_>>
  /\ UNCHANGED <<flag_, cv_, lk, mode, rounds, client>>

(* cv.wait() gives up lk and cv_mtx_, through custom_lock::unlock, and     *)
(* joins the wait set at once.                                             *)
AnySleep(t) ==
  /\ pc[t] = "anysleep"
  /\ lk' = Free
  /\ cv_mtx_' = [cv_mtx_ EXCEPT ![t] = Free]
  /\ Goto(t, "anyblocked")
  /\ UNCHANGED <<flag_, cv_, cv_any_, mode, thrown, rounds, client>>

AnySpurious(t) ==
  /\ pc[t] = "anyblocked"
  /\ Goto(t, "anyrelock")
  /\ UNCHANGED <<flag, lk, mode, thrown, rounds, client>>

(* custom_lock::lock: std::lock takes both mutexes or waits.               *)
AnyRelock(t) ==
  /\ pc[t] = "anyrelock"
  /\ lk = Free /\ cv_mtx_[t] = Free
  /\ lk' = t
  /\ cv_mtx_' = [cv_mtx_ EXCEPT ![t] = t]
  /\ Goto(t, "anyfinal")
  /\ UNCHANGED <<flag_, cv_, cv_any_, mode, thrown, rounds, client>>

AnyFinal(t) ==
  /\ pc[t] = "anyfinal"
  /\ InterruptionPoint(t, "returned", "caught")
  /\ AnyDestruct(t)
  /\ UNCHANGED <<flag_, cv_, lk, mode, rounds, client>>

(* The wait on a future: poll it a millisecond at a time.                  *)
Poll(t) ==
  /\ pc[t] = "poll"
  /\ Goto(t, IF flag_[t] THEN "pollfinal" ELSE "pollwait")
  /\ UNCHANGED <<flag, lk, mode, thrown, rounds, client>>

PollWait(t) ==
  /\ pc[t] = "pollwait"
  /\ Goto(t, IF ready THEN "pollfinal" ELSE "poll")
  /\ UNCHANGED <<flag, lk, mode, thrown, rounds, client>>

PollFinal(t) ==
  /\ pc[t] = "pollfinal"
  /\ InterruptionPoint(t, "returned", "caught")
  /\ UNCHANGED <<flag, lk, mode, rounds, client>>

(* The caller gives up lk and goes on to its next wait, or ends.           *)
Leave(t) ==
  /\ pc[t] \in {"returned", "caught"}
  /\ lk' = IF mode[t] = "future" THEN lk ELSE Free
  /\ rounds' = [rounds EXCEPT ![t] = @ + 1]
  /\ Goto(t, IF pc[t] = "returned" /\ rounds[t] + 1 < Rounds THEN "idle" ELSE "done")
  /\ UNCHANGED <<flag, mode, thrown, client>>

--------------------------------------------------------------------------------
(* set(), by the interrupter of t: the flag, and then a notification given *)
(* under cv_mtx_ to whoever waits where t has registered.                  *)

SetStore(t) ==
  /\ setting[t] = "store"
  /\ flag_' = [flag_ EXCEPT ![t] = TRUE]
  /\ setting' = [setting EXCEPT ![t] = "notify"]
  /\ UNCHANGED <<cv_mtx_, cv_, cv_any_, lk, ready, pc, mode, thrown, rounds, notifies>>

WakeAll(from, to) == pc' = [u \in Targets |-> IF pc[u] = from THEN to ELSE pc[u]]

(* Fault: the notification is given without cv_mtx_.                       *)
SetNotify_NoMutex(t) ==
  /\ setting[t] = "notify"
  /\ \/ cv_[t] /\ WakeAll("timed", "relock")
     \/ ~cv_[t] /\ cv_any_[t] /\ WakeAll("anyblocked", "anyrelock")
     \/ ~cv_[t] /\ ~cv_any_[t] /\ UNCHANGED pc
  /\ setting' = [setting EXCEPT ![t] = "done"]
  /\ UNCHANGED <<flag, lk, mode, thrown, rounds, ready, notifies>>

(* Fault: waits on any lock are not thought of.                            *)
SetNotify_OnlyCv(t) ==
  /\ setting[t] = "notify"
  /\ cv_mtx_[t] = Free
  /\ \/ cv_[t] /\ WakeAll("timed", "relock")
     \/ ~cv_[t] /\ UNCHANGED pc
  /\ setting' = [setting EXCEPT ![t] = "done"]
  /\ UNCHANGED <<flag, lk, mode, thrown, rounds, ready, notifies>>

SetNotify(t) ==
  /\ setting[t] = "notify"
  /\ cv_mtx_[t] = Free
  /\ \/ cv_[t] /\ WakeAll("timed", "relock")
     \/ ~cv_[t] /\ cv_any_[t] /\ WakeAll("anyblocked", "anyrelock")
     \/ ~cv_[t] /\ ~cv_any_[t] /\ UNCHANGED pc
  /\ setting' = [setting EXCEPT ![t] = "done"]
  /\ UNCHANGED <<flag, lk, mode, thrown, rounds, ready, notifies>>

(* The client: makes the predicate true and the future ready under lk, and *)
(* notifies one waiter of either condition variable.                       *)
Notify ==
  /\ notifies < Notifies
  /\ lk = Free
  /\ ready' = TRUE
  /\ notifies' = notifies + 1
  /\ \/ \E u \in Targets : pc[u] = "timed" /\ Goto(u, "relock")
     \/ \E u \in Targets : pc[u] = "anyblocked" /\ Goto(u, "anyrelock")
     \/ UNCHANGED pc
  /\ UNCHANGED <<flag, lk, mode, thrown, rounds, setting>>

--------------------------------------------------------------------------------

Step(t) ==
  \/ Enter(t) \/ Register(t) \/ Test(t) \/ Sleep(t) \/ Timeout(t) \/ Relock(t)
  \/ Final(t) \/ Unwind(t)
  \/ AnyLock(t) \/ AnyTest(t) \/ AnySleep(t) \/ AnyRelock(t) \/ AnyFinal(t)
  \/ Poll(t) \/ PollWait(t) \/ PollFinal(t)
  \/ Leave(t)

Next ==
  \/ \E t \in Targets : Step(t) \/ AnySpurious(t)
  \/ \E t \in Targets, m \in Modes : Call(t, m)
  \/ \E t \in Targets : SetStore(t) \/ SetNotify(t)
  \/ Notify

Spec == Init /\ [][Next]_vars

(* The interrupter, once it has started, and the target go on when they    *)
(* can.  Strong fairness for the target: the others hold lk for a moment   *)
(* and sleep a millisecond, so a thread that wants lk gets it in the end.  *)
(* Nobody is made to start a wait, to interrupt or to notify.              *)
Fairness == \A t \in Targets : SF_vars(Step(t)) /\ WF_vars(SetNotify(t))

--------------------------------------------------------------------------------
(* Properties.                                                             *)

TypeOK ==
  /\ flag_ \in [Targets -> BOOLEAN]
  /\ cv_mtx_ \in [Targets -> Targets \cup {Free}]
  /\ cv_ \in [Targets -> BOOLEAN]
  /\ cv_any_ \in [Targets -> BOOLEAN]
  /\ lk \in Targets \cup {Free}
  /\ ready \in BOOLEAN
  /\ pc \in [Targets -> {"idle", "enter", "register", "test", "sleep", "timed", "relock", "final",
                         "unwind", "anytest", "anysleep", "anyblocked", "anyrelock", "anyfinal",
                         "poll", "pollwait", "pollfinal", "returned", "caught", "done"}]
  /\ mode \in [Targets -> Modes]
  /\ thrown \in [Targets -> BOOLEAN]
  /\ rounds \in [Targets -> 0 .. Rounds]
  /\ setting \in [Targets -> {"store", "notify", "done"}]
  /\ notifies \in 0 .. Notifies

(* The wait on any lock has no time limit, so an interrupt must not fall   *)
(* between its last look at the flag and its sleep: a target that sleeps   *)
(* although its flag is set has its notification still to come.            *)
NoLostInterrupt ==
  \A t \in Targets : pc[t] = "anyblocked" /\ flag_[t] => setting[t] = "notify"

(* However a wait ends, by a return or by an exception at any of its       *)
(* interruption points, the caller has its lock back, the flag's mutex is  *)
(* free again and no pointer to a condition variable is left behind.       *)
NothingLeftBehind ==
  \A t \in Targets :
    pc[t] \in {"returned", "caught", "idle", "done"} =>
      /\ ~cv_[t] /\ ~cv_any_[t] /\ cv_mtx_[t] # t
      /\ pc[t] \in {"returned", "caught"} /\ mode[t] # "future" => lk = t

(* The types, and what every way out of a wait restores.                   *)
Consistent == TypeOK /\ NothingLeftBehind

(* A target inside a wait, of any kind, when it is interrupted ends that   *)
(* wait by throwing thread_interrupted.                                    *)
InWait(t) == pc[t] \notin {"idle", "unwind", "returned", "caught", "done"}

InterruptThrows ==
  \A t \in Targets : InWait(t) /\ flag_[t] ~> pc[t] = "caught"

================================================================================

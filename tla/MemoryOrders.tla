------------------------------ MODULE MemoryOrders ------------------------------
(***************************************************************************)
(* The programs of the multithread directory that are about the order of   *)
(* memory accesses, as code for ViewMemory: one sequence of instructions   *)
(* per std::thread.  The thread that starts and joins the others appears   *)
(* as the initial memory and, where it asserts on a counter at the end, in *)
(* the properties.  false is 0 and true 1; a string is 0 before it is set  *)
(* and 1 after.  What is printed only reports is left out.                 *)
(***************************************************************************)
EXTENDS ViewMemory

Program(name, locations, code) ==
  [name |-> name, init |-> [l \in locations |-> 0], code |-> code]

--------------------------------------------------------------------------------
(* sequential_consistent.h                                                 *)

noAssertForeverRelaxed ==
  Program("noAssertForever", {"x", "y"},
    [t_store |-> <<Store("x", 1, "rlx"), Store("y", 2, "rlx")>>,
     t_load |-> <<If("y", 2, "rlx", 3), Assert("x", 1, "rlx")>>])

noAssertForever ==
  Program("noAssertForever", {"x", "y"},
    [t_store |-> <<Store("x", 1, "sc"), Store("y", 2, "sc")>>,
     t_load |-> <<If("y", 2, "sc", 3), Assert("x", 1, "sc")>>])

infinityLoopLoopsFirst ==
  [Program("infinityLoop", {"x", "y"},
     [t1 |-> <<Await("x", -1, "sc"), Store("y", -2, "sc")>>,
      t2 |-> <<Await("y", -2, "sc"), Store("x", -1, "sc")>>])
   EXCEPT !.init = [x |-> 1, y |-> 2]]

infinityLoop ==
  [Program("infinityLoop", {"x", "y"},
     [t1 |-> <<Store("y", -2, "sc"), Await("x", -1, "sc")>>,
      t2 |-> <<Await("y", -2, "sc"), Store("x", -1, "sc")>>])
   EXCEPT !.init = [x |-> 1, y |-> 2]]

--------------------------------------------------------------------------------
(* acquire_release.h, and demo1 of memory_fence.h, which is the same       *)
(* program as implyRiskMethod1.                                            *)

TwoWritersTwoReaders ==
  [write_x |-> <<Store("x", 1, "rel")>>,
   write_y |-> <<Store("y", 1, "rel")>>,
   read_x_then_y |-> <<Await("x", 1, "acq"), If("y", 1, "acq", 4), Increment>>,
   read_y_then_x |-> <<Await("y", 1, "acq"), If("x", 1, "acq", 4), Increment>>]

implyRiskMethod1 == Program("implyRiskMethod1", {"x", "y"}, TwoWritersTwoReaders)
demo1 == Program("demo1", {"x", "y"}, TwoWritersTwoReaders)

implyRiskMethod2(order) ==
  Program("implyRiskMethod2", {"x", "y"},
    [t1 |-> <<Store("y", 20, order), Store("x", 10, order)>>,
     t2 |-> <<If("x", 10, order, 4), Assert("y", 20, order), Store("y", 10, order)>>,
     t3 |-> <<If("y", 10, order, 3), Assert("x", 10, order)>>])

lookLikeDangerButSafe ==
  Program("lookLikeDangerButSafe", {"x"},
    [thread_set |-> <<Store("x", 1, "rlx"), Store("x", 2, "rlx")>>,
     thread_get |-> <<Load("x", "rlx"), Load("x", "rlx"), AssertAscending>>])

ProductorCustomer ==
  Program("ProductorCustomer", {"str", "value", "blocker"},
    [productor |-> <<Store("str", 1, "na"), Store("value", 10, "na"), Store("blocker", 1, "rel")>>,
     customer |-> <<Load("blocker", "acq"), Assert("str", 1, "na"), Assert("value", 10, "na")>>])

threadFence ==
  Program("threadFence", {"str", "value"},
    [productor |-> <<Store("str", 1, "na"), Store("value", 10, "na"), Fence("rel")>>,
     customer |-> <<Fence("acq"), Assert("str", 1, "na"), Assert("value", 10, "na")>>])

--------------------------------------------------------------------------------
(* 6_memory_orders.h                                                       *)

ikunJiNi(order) == <<Store("atm_ikun1", 1, order), Store("atm_ikun2", 1, order)>>
ikunTaiMei(order) == <<Store("atm_ikun3", 1, order), Store("atm_ikun4", 1, order)>>
iKunSpeaker(atm, word, order) == <<If(atm, 1, order, 3), PrintOut(word)>>

TestOrders(name, store, load) ==
  Program(name, {"atm_ikun1", "atm_ikun2", "atm_ikun3", "atm_ikun4"},
    [t1 |-> ikunJiNi(store), t2 |-> ikunTaiMei(store),
     speak1 |-> iKunSpeaker("atm_ikun1", "ji", load),
     speak2 |-> iKunSpeaker("atm_ikun2", "ni", load),
     speak3 |-> iKunSpeaker("atm_ikun3", "tai", load),
     speak4 |-> iKunSpeaker("atm_ikun4", "mei", load)])

testSeqCst == TestOrders("testSeqCst", "sc", "sc")
testRelax == TestOrders("testRelax", "rlx", "rlx")
testAcuqireRelease == TestOrders("testAcuqireRelease", "sc", "acq")

--------------------------------------------------------------------------------
(* spin_lock.h                                                             *)

lockInTwoSteps == <<Await("flag_", 0, "acq"), Store("flag_", 1, "rlx")>>
lock == <<TestAndSet("flag_", "acq")>>
unlock == <<Store("flag_", 0, "rel")>>

PrintThree(sign) == lock \o <<PrintOut(sign), PrintOut(sign), PrintOut(sign)>> \o unlock

(* Each thread prints its own sign.                                        *)
SpinLock(signs) == Program("SpinLock", {"flag_"}, [t \in DOMAIN signs |-> PrintThree(signs[t])])
SpinLockMain == SpinLock([t1 |-> "<", t2 |-> ">"])

--------------------------------------------------------------------------------
(* thread_safe_singleton.h.  A pointer is the number of the construction   *)
(* it points to, 0 for nullptr.                                            *)

getInstanceStoresRelaxed ==
  <<If("atm_", 1, "acq", 4),  Load("instance_", "na"), Goto(13),
    Lock,
    If("atm_", 1, "rlx", 9),  Unlock, Load("instance_", "na"), Goto(13),
    Construct("instance_"),   Store("atm_", 1, "rlx"), Unlock, Load("instance_", "na")>>

getInstanceChecksOnce ==
  <<If("atm_", 1, "acq", 4),  Load("instance_", "na"), Goto(9),
    Lock, Construct("instance_"), Store("atm_", 1, "rel"), Unlock, Load("instance_", "na")>>

getInstance ==
  <<If("atm_", 1, "acq", 4),  Load("instance_", "na"), Goto(13),
    Lock,
    If("atm_", 1, "rlx", 9),  Unlock, Load("instance_", "na"), Goto(13),
    Construct("instance_"),   Store("atm_", 1, "rel"), Unlock, Load("instance_", "na")>>

Singleton(threads) == Program("Singleton", {"atm_", "instance_"}, [t \in threads |-> getInstance])
SingletonMain == Singleton({"t1", "t2"})

--------------------------------------------------------------------------------
(* What the proofs ask of the programs.                                    *)

(* The instructions that read or write a location.                         *)
Accesses == {"store", "construct", "load", "await", "if", "assert", "tas"}

(* Instructions access locations there are, and jump to a place.           *)
WellFormed(p) ==
  /\ \A l \in DOMAIN p.init : p.init[l] \in Int
  /\ None \notin DOMAIN p.code
  /\ \A t \in DOMAIN p.code :
       /\ Len(p.code[t]) \in Nat /\ DOMAIN p.code[t] = 1 .. Len(p.code[t])
       /\ \A n \in DOMAIN p.code[t] :
            LET i == p.code[t][n]
            IN /\ i.val \in Int
               /\ i.op \in Accesses => i.loc \in DOMAIN p.init
               /\ i.op \in {"if", "goto"} => i.else \in Nat \ {0}

(* A program of one of the names the properties speak of is the one of     *)
(* that name, the spin lock and the singleton for any threads; in no other *)
(* is anything constructed.                                                *)
Known(p) ==
  /\ p.name = "noAssertForever" => p = noAssertForever
  /\ p.name = "implyRiskMethod2" => p = implyRiskMethod2("sc")
  /\ p.name = "lookLikeDangerButSafe" => p = lookLikeDangerButSafe
  /\ p.name = "SpinLock" => p = SpinLock([t \in DOMAIN p.code |-> p.code[t][Len(lock) + 1].loc])
  /\ p.name = "Singleton" => p = Singleton(DOMAIN p.code)
  /\ p.name # "Singleton" =>
       \A t \in DOMAIN p.code : \A n \in DOMAIN p.code[t] : p.code[t][n].op # "construct"

ASSUME ProgramsAssumption == \A p \in Programs : WellFormed(p) /\ Known(p)

--------------------------------------------------------------------------------
(* Properties.                                                             *)

(* The programs whose orders are strong enough for what they assert.       *)
Sound == {"noAssertForever", "implyRiskMethod2", "lookLikeDangerButSafe", "Singleton"}

(* An assert of a program with strong enough orders never fails: a store   *)
(* that is seen brings the earlier ones with it, across a third thread     *)
(* too, and two loads of one location never go back in time, even relaxed. *)
(* Nor does such a program race: the pointer of the singleton is never     *)
(* read or written without being ordered after its last write, since the   *)
(* acquire load of the fast path pairs with the release store behind the   *)
(* mutex.                                                                  *)
OrdersSuffice == program.name \in Sound => ~failed /\ ~race

(* However the two checks and the mutex interleave, one Singleton is       *)
(* constructed and everyone who returns has got it, never nullptr.         *)
OneInstance ==
  /\ constructed <= 1
  /\ program.name = "Singleton" =>
       \A t \in Threads : ~Running(t) => loaded[t] = <<1>>

(* The three signs one thread prints under the spin lock are not broken up *)
(* by the other's.                                                         *)
PrintsWhole ==
  program.name = "SpinLock" => \A i \in 1 .. Len(printed) : printed[i] = printed[3 * ((i - 1) \div 3) + 1]

================================================================================

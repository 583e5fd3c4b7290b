------------------------------- MODULE ViewMemory -------------------------------
(***************************************************************************)
(* A machine for the memory orders of C++, for programs of a few threads   *)
(* that load and store a few locations.                                    *)
(*                                                                         *)
(* A location is the sequence of messages written to it, its modification  *)
(* order.  A thread has a view: for each location the earliest message it  *)
(* may still read.  A release store sends the thread's view along, an      *)
(* acquire load takes it over; relaxed ones do so only by way of fences.   *)
(* A sequentially consistent load reads the last message.                  *)
(*                                                                         *)
(* The machine is exact enough, not exact.  A store is put last in its     *)
(* location's modification order, which loses nothing where no two threads *)
(* compete to write a location unless with sequentially consistent stores. *)
(* A location's accesses are all sequentially consistent, or its loads at  *)
(* most acquire.  Loads are not put off: programs whose loads are followed *)
(* only by stores to locations nobody loads do not tell the difference.    *)
(*                                                                         *)
(* An access that is not atomic ("na") is one more relaxed access; that it *)
(* is not ordered after the last write is recorded as a race, and it may   *)
(* then return any message the view leaves open.                           *)
(***************************************************************************)
EXTENDS Integers, Sequences

CONSTANT Programs      (* [name, init, code]: the memory a program starts  *)
                       (* with, and instructions for each of its threads   *)

VARIABLES program, pc,
          mem,                 (* the messages of each location            *)
          cur, acquired, released,    (* views of a thread: its own, with  *)
                                      (* what an acquire fence would add,  *)
                                      (* as of its last release fence      *)
          loaded,              (* what a thread has loaded and kept        *)
          printed, counted, constructed,
          mutex,               (* its owner, or None, and the view it passes *)
          race, failed         (* a race has happened, an assert failed    *)

vars == <<program, pc, mem, cur, acquired, released, loaded, printed, counted, constructed, mutex,
          race, failed>>

memory == <<mem, cur, acquired, released>>
effects == <<loaded, printed, counted, constructed, mutex, race, failed>>

--------------------------------------------------------------------------------
(* The instructions.                                                       *)

None == "none"      (* no location, no order, no owner                     *)

Instruction(op, loc, val, order, else) ==
  [op |-> op, loc |-> loc, val |-> val, order |-> order, else |-> else]

Store(loc, val, order) == Instruction("store", loc, val, order, 0)
Load(loc, order) == Instruction("load", loc, 0, order, 0)              (* and keep       *)
Await(loc, val, order) == Instruction("await", loc, val, order, 0)     (* spin until val *)
If(loc, val, order, else) == Instruction("if", loc, val, order, else)  (* or go to else  *)
Assert(loc, val, order) == Instruction("assert", loc, val, order, 0)
AssertAscending == Instruction("ascending", None, 0, None, 0)     (* what was kept           *)
Fence(order) == Instruction("fence", None, 0, order, 0)
TestAndSet(loc, order) == Instruction("tas", loc, 0, order, 0)  (* spin until it was 0   *)
Lock == Instruction("lock", None, 0, None, 0)
Unlock == Instruction("unlock", None, 0, None, 0)
Construct(loc) == Instruction("construct", loc, 0, "na", 0)   (* loc = new ...           *)
PrintOut(what) == Instruction("print", what, 0, None, 0)
Increment == Instruction("count", None, 0, None, 0)               (* a counter read at last  *)
Goto(else) == Instruction("goto", None, 0, None, else)

--------------------------------------------------------------------------------

Threads == DOMAIN program.code
Locations == DOMAIN program.init
Start == [l \in Locations |-> 1]
Join(v, w) == [l \in Locations |-> IF v[l] > w[l] THEN v[l] ELSE w[l]]
At(l, place) == [Start EXCEPT ![l] = place]
Last(l) == Len(mem[l])

Init ==
  /\ program \in Programs
  /\ pc = [t \in Threads |-> 1]
  /\ mem = [l \in Locations |-> <<[val |-> program.init[l], view |-> Start]>>]
  /\ cur = [t \in Threads |-> Start]
  /\ acquired = [t \in Threads |-> Start]
  /\ released = [t \in Threads |-> Start]
  /\ loaded = [t \in Threads |-> <<>>]
  /\ printed = <<>> /\ counted = 0 /\ constructed = 0
  /\ mutex = [owner |-> None, view |-> Start]
  /\ race = FALSE /\ failed = FALSE

Code(t) == program.code[t]
Running(t) == pc[t] <= Len(Code(t))
Here(t) == Code(t)[pc[t]]
Advance(t) == pc' = [pc EXCEPT ![t] = @ + 1]
Jump(t, to) == pc' = [pc EXCEPT ![t] = to]

(* The places of the messages t may read.                                  *)
Readable(t, l, order) == IF order = "sc" THEN {Last(l)} ELSE cur[t][l] .. Last(l)

Races(t, l, order) == order = "na" /\ cur[t][l] < Last(l)

Read(t, l, order, place) ==
  LET m == mem[l][place]
      seen == Join(cur[t], At(l, place))
      own == IF order \in {"acq", "sc"} THEN Join(seen, m.view) ELSE seen
  IN /\ cur' = [cur EXCEPT ![t] = own]
     /\ acquired' = [acquired EXCEPT ![t] = Join(Join(@, own), m.view)]
     /\ UNCHANGED <<mem, released>>

(* What t writes to l is the next message, with the view its order sends. *)
Write(t, l, val, order) ==
  LET own == Join(cur[t], At(l, Last(l) + 1))
      sent == IF order \in {"rel", "sc"} THEN own
              ELSE IF order = "na" THEN Start ELSE Join(released[t], At(l, Last(l) + 1))
  IN /\ mem' = [mem EXCEPT ![l] = Append(@, [val |-> val, view |-> sent])]
     /\ cur' = [cur EXCEPT ![t] = own]
     /\ acquired' = [acquired EXCEPT ![t] = Join(@, own)]
     /\ UNCHANGED released

StoreStep(t) ==
  LET i == Here(t) IN
  /\ i.op \in {"store", "construct"}
  /\ Write(t, i.loc, IF i.op = "construct" THEN constructed + 1 ELSE i.val, i.order)
  /\ constructed' = IF i.op = "construct" THEN constructed + 1 ELSE constructed
  /\ race' = (race \/ Races(t, i.loc, i.order))
  /\ Advance(t)
  /\ UNCHANGED <<loaded, printed, counted, mutex, failed>>

LoadStep(t) ==
  LET i == Here(t) IN
  /\ i.op \in {"load", "await", "if", "assert"}
  /\ \E place \in Readable(t, i.loc, i.order) :
       LET val == mem[i.loc][place].val IN
       /\ i.op = "await" => val = i.val
       /\ Read(t, i.loc, i.order, place)
       /\ IF i.op = "if" /\ val # i.val THEN Jump(t, i.else) ELSE Advance(t)
       /\ loaded' = IF i.op = "load" THEN [loaded EXCEPT ![t] = Append(@, val)] ELSE loaded
       /\ failed' = (failed \/ (i.op = "assert" /\ val # i.val))
  /\ race' = (race \/ Races(t, i.loc, i.order))
  /\ UNCHANGED <<printed, counted, constructed, mutex>>

(* test_and_set reads the last message and writes the next, which carries  *)
(* the view of the one it read.                                            *)
TestAndSetStep(t) ==
  LET i == Here(t)
      m == mem[i.loc][Last(i.loc)]
      synced == IF i.order = "acq" THEN Join(cur[t], m.view) ELSE cur[t]
      own == Join(synced, At(i.loc, Last(i.loc) + 1))
  IN
  /\ i.op = "tas" /\ m.val = 0
  /\ mem' = [mem EXCEPT ![i.loc] = Append(@, [val |-> 1, view |-> Join(m.view, At(i.loc, Last(i.loc) + 1))])]
  /\ cur' = [cur EXCEPT ![t] = own]
  /\ acquired' = [acquired EXCEPT ![t] = Join(Join(@, own), m.view)]
  /\ Advance(t)
  /\ UNCHANGED <<released, effects>>

FenceStep(t) ==
  /\ Here(t).op = "fence"
  /\ IF Here(t).order = "rel" THEN released' = [released EXCEPT ![t] = cur[t]] /\ UNCHANGED cur
     ELSE cur' = [cur EXCEPT ![t] = acquired[t]] /\ UNCHANGED released
  /\ Advance(t)
  /\ UNCHANGED <<mem, acquired, effects>>

LockStep(t) ==
  /\ Here(t).op = "lock" /\ mutex.owner = None
  /\ mutex' = [mutex EXCEPT !.owner = t]
  /\ cur' = [cur EXCEPT ![t] = Join(@, mutex.view)]
  /\ acquired' = [acquired EXCEPT ![t] = Join(@, mutex.view)]
  /\ Advance(t)
  /\ UNCHANGED <<mem, released, loaded, printed, counted, constructed, race, failed>>

UnlockStep(t) ==
  /\ Here(t).op = "unlock" /\ mutex.owner = t
  /\ mutex' = [owner |-> None, view |-> cur[t]]
  /\ Advance(t)
  /\ UNCHANGED <<memory, loaded, printed, counted, constructed, race, failed>>

PlainStep(t) ==
  LET i == Here(t) IN
  /\ i.op \in {"ascending", "print", "count", "goto"}
  /\ IF i.op = "goto" THEN Jump(t, i.else) ELSE Advance(t)
  /\ printed' = IF i.op = "print" THEN Append(printed, i.loc) ELSE printed
  /\ counted' = IF i.op = "count" THEN counted + 1 ELSE counted
  /\ failed' = (failed \/ (i.op = "ascending" /\
                           \E j \in 2 .. Len(loaded[t]) : loaded[t][j - 1] > loaded[t][j]))
  /\ UNCHANGED <<memory, loaded, constructed, mutex, race>>

Step(t) ==
  /\ Running(t)
  /\ \/ StoreStep(t) \/ LoadStep(t) \/ TestAndSetStep(t) \/ FenceStep(t)
     \/ LockStep(t) \/ UnlockStep(t) \/ PlainStep(t)
  /\ UNCHANGED program

Finished == \A t \in Threads : ~Running(t)

Next == \E t \in Threads : Step(t)

Spec == Init /\ [][Next]_vars

================================================================================

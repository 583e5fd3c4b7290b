------------------------------ MODULE AtomicsProofs ------------------------------
(***************************************************************************)
(* Proofs about MCAtomics: the programs of MemoryOrders, the spin lock and *)
(* the singleton for any number of threads, and InterruptFlag for any      *)
(* number of targets, waits and notifications.                             *)
(***************************************************************************)
EXTENDS MCAtomics, SequenceTheorems, TLAPS

--------------------------------------------------------------------------------
(* The machine, for any programs.                                          *)

View == [Locations -> Nat]
Message == [val : Int, view : View]

(* A view of what is in memory m.                                          *)
Within(v, m) == v \in View /\ \A l \in Locations : 1 <= v[l] /\ v[l] <= Len(m[l])

(* Every view is of messages there are, and what an acquire fence would    *)
(* add to a thread's view contains that view.                              *)
ViewsWithin ==
  /\ mem \in [Locations -> Seq(Message)]
  /\ \A l \in Locations : \A k \in 1 .. Len(mem[l]) : Within(mem[l][k].view, mem)
  /\ cur \in [Threads -> View] /\ acquired \in [Threads -> View] /\ released \in [Threads -> View]
  /\ \A t \in Threads : /\ Within(cur[t], mem) /\ Within(acquired[t], mem) /\ Within(released[t], mem)
                        /\ \A l \in Locations : cur[t][l] <= acquired[t][l]
  /\ \A l \in Locations : Len(mem[l]) >= 1

Machine ==
  /\ program \in Programs
  /\ pc \in [Threads -> Nat \ {0}]
  /\ ViewsWithin
  /\ mutex = [owner |-> mutex.owner, view |-> mutex.view]
  /\ mutex.owner \in Threads \cup {None} /\ Within(mutex.view, mem)
  /\ loaded \in [Threads -> Seq(Int)]
  /\ constructed \in Nat

(* What a step does to memory and views: messages are only added, and no   *)
(* thread's view goes back.                                                *)
Onward ==
  /\ \A l \in Locations : \/ mem'[l] = mem[l]
                          \/ \E m \in Message : mem'[l] = Append(mem[l], m)
  /\ \A t \in Threads : \A l \in Locations : cur[t][l] <= cur'[t][l]

--------------------------------------------------------------------------------
(* Views.                                                                  *)

(* The join of two views of a memory is one, and contains both.            *)
LEMMA JoinWithin ==
  ASSUME NEW m, \A l \in Locations : Len(m[l]) \in Nat,
         NEW v, NEW w, Within(v, m), Within(w, m)
  PROVE  /\ Within(Join(v, w), m)
         /\ \A l \in Locations : v[l] <= Join(v, w)[l] /\ w[l] <= Join(v, w)[l]
BY DEF Within, Join, View

(* The view of one message.                                                *)
LEMMA AtWithin ==
  ASSUME NEW m, \A l \in Locations : Len(m[l]) \in Nat /\ Len(m[l]) >= 1,
         NEW l \in Locations, NEW place \in Nat, 1 <= place, place <= Len(m[l])
  PROVE  /\ Within(At(l, place), m) /\ At(l, place)[l] = place
BY DEF Within, At, Start, View

(* The view of nothing but the beginning.                                  *)
LEMMA StartWithin ==
  ASSUME NEW m, \A l \in Locations : Len(m[l]) \in Nat /\ Len(m[l]) >= 1
  PROVE  Within(Start, m)
BY DEF Within, Start, View

(* A view of a memory is one of any that has grown out of it.              *)
LEMMA WithinGrows ==
  ASSUME NEW m, NEW n, NEW v, Within(v, m),
         \A l \in Locations : Len(m[l]) \in Nat /\ Len(n[l]) \in Nat /\ Len(m[l]) <= Len(n[l])
  PROVE  Within(v, n)
BY DEF Within, View

(* Lengths are numbers.                                                    *)
LEMMA Lengths ==
  ASSUME ViewsWithin
  PROVE  \A l \in Locations : Last(l) \in Nat /\ Len(mem[l]) \in Nat /\ Len(mem[l]) >= 1
BY DEF ViewsWithin, Last

--------------------------------------------------------------------------------
(* Reading and writing.                                                    *)

(* A read brings the reader to the message it reads, and if it acquires,   *)
(* to whatever that message carries.                                       *)
LEMMA ReadEffect ==
  ASSUME ViewsWithin, NEW t \in Threads, NEW l \in Locations, NEW order,
         NEW place \in 1 .. Last(l), Read(t, l, order, place), program' = program
  PROVE  /\ ViewsWithin' /\ Onward /\ mem' = mem /\ released' = released
         /\ \A u \in Threads \ {t} : cur'[u] = cur[u]
         /\ place <= cur'[t][l]
         /\ order \in {"acq", "sc"} => \A k \in Locations : mem[l][place].view[k] <= cur'[t][k]
<1> DEFINE m == mem[l][place]
           seen == Join(cur[t], At(l, place))
           own == IF order \in {"acq", "sc"} THEN Join(seen, m.view) ELSE seen
           add == Join(Join(acquired[t], own), m.view)
<1>0. Locations' = Locations /\ Threads' = Threads /\ View' = View /\ Message' = Message
  BY DEF Locations, Threads, View, Message
<1>1. \A k \in Locations : Len(mem[k]) \in Nat /\ Len(mem[k]) >= 1
  BY Lengths
<1>2. Within(cur[t], mem) /\ Within(acquired[t], mem) /\ Within(m.view, mem)
  BY DEF ViewsWithin, Last
<1>3. Within(At(l, place), mem) /\ At(l, place)[l] = place
  BY <1>1, AtWithin DEF Last
<1>4. /\ Within(seen, mem)
      /\ \A k \in Locations : cur[t][k] <= seen[k] /\ At(l, place)[k] <= seen[k]
  BY <1>1, <1>2, <1>3, JoinWithin
<1>5. /\ Within(Join(seen, m.view), mem)
      /\ \A k \in Locations : seen[k] <= Join(seen, m.view)[k] /\ m.view[k] <= Join(seen, m.view)[k]
  BY <1>1, <1>2, <1>4, JoinWithin
<1>6. /\ Within(own, mem)
      /\ \A k \in Locations : cur[t][k] <= own[k] /\ At(l, place)[k] <= own[k]
      /\ order \in {"acq", "sc"} => \A k \in Locations : m.view[k] <= own[k]
  <2>1. \A k \in Locations : /\ cur[t][k] \in Nat /\ At(l, place)[k] \in Nat /\ seen[k] \in Nat
                             /\ Join(seen, m.view)[k] \in Nat
    BY <1>2, <1>3, <1>4, <1>5 DEF Within, View
  <2> QED
    BY <1>4, <1>5, <2>1
<1>7. /\ Within(Join(acquired[t], own), mem)
      /\ \A k \in Locations : own[k] <= Join(acquired[t], own)[k]
  BY <1>1, <1>2, <1>6, JoinWithin
<1>8. /\ Within(add, mem)
      /\ \A k \in Locations : Join(acquired[t], own)[k] <= add[k]
  BY <1>1, <1>2, <1>7, JoinWithin
<1>9. \A k \in Locations : own[k] <= add[k]
  <2>1. \A k \in Locations : own[k] \in Nat /\ Join(acquired[t], own)[k] \in Nat /\ add[k] \in Nat
    BY <1>6, <1>7, <1>8 DEF Within, View
  <2> QED
    BY <1>7, <1>8, <2>1
<1>10. /\ cur' = [cur EXCEPT ![t] = own] /\ acquired' = [acquired EXCEPT ![t] = add]
       /\ mem' = mem /\ released' = released
  BY DEF Read
<1> HIDE DEF own, add, seen, m
<1>11. /\ cur'[t] = own /\ acquired'[t] = add
       /\ \A u \in Threads \ {t} : cur'[u] = cur[u] /\ acquired'[u] = acquired[u]
       /\ cur' \in [Threads -> View] /\ acquired' \in [Threads -> View]
  BY <1>6, <1>8, <1>10 DEF ViewsWithin, Within
<1>12. \A u \in Threads : \A k \in Locations : cur[u][k] <= cur'[u][k]
  <2>1. \A u \in Threads : \A k \in Locations : cur[u][k] \in Nat
    BY DEF ViewsWithin, View
  <2>2. \A u \in Threads \ {t} : \A k \in Locations : cur[u][k] <= cur'[u][k]
    BY <1>11, <2>1
  <2> QED
    BY <1>6, <1>11, <2>2
<1>13. ViewsWithin'
  <2>1. \A u \in Threads : /\ Within(cur'[u], mem') /\ Within(acquired'[u], mem') /\ Within(released'[u], mem')
                           /\ \A k \in Locations : cur'[u][k] <= acquired'[u][k]
    BY <1>6, <1>8, <1>9, <1>10, <1>11 DEF ViewsWithin
  <2>2. mem' \in [Locations' -> Seq(Message')] /\ released' \in [Threads' -> View']
    BY <1>0, <1>10 DEF ViewsWithin
  <2>3. \A k \in Locations' : \A n \in 1 .. Len(mem'[k]) : Within(mem[k][n].view, mem)
    BY <1>0, <1>10 DEF ViewsWithin
  <2>4. \A v : Within(v, mem) => Within(v, mem)'
    BY <1>0, <1>10 DEF Within
  <2> QED
    BY <1>0, <1>10, <1>11, <2>1, <2>2, <2>3, <2>4 DEF ViewsWithin
<1>14. place <= own[l] /\ \A k \in Locations : order \in {"acq", "sc"} => mem[l][place].view[k] <= own[k]
  BY <1>3, <1>6 DEF m
<1> QED
  BY <1>10, <1>11, <1>12, <1>13, <1>14 DEF Onward

(* A message is added to one location.                                     *)
LEMMA Grows ==
  ASSUME ViewsWithin, NEW l \in Locations, NEW msg, mem' = [mem EXCEPT ![l] = Append(@, msg)],
         msg \in Message
  PROVE  /\ \A k \in Locations : /\ Len(mem[k]) \in Nat /\ Len(mem[k]) >= 1
                                 /\ Len(mem'[k]) = IF k = l THEN Len(mem[k]) + 1 ELSE Len(mem[k])
         /\ mem' \in [Locations -> Seq(Message)]
         /\ mem'[l] = Append(mem[l], msg) /\ \A k \in Locations \ {l} : mem'[k] = mem[k]
         /\ \A k \in Locations : \A n \in 1 .. Len(mem[k]) : mem'[k][n] = mem[k][n]
         /\ mem'[l][Len(mem[l]) + 1] = msg
         /\ \A v : Within(v, mem) => Within(v, mem')
<1>1. \A k \in Locations : mem[k] \in Seq(Message) /\ Len(mem[k]) \in Nat /\ Len(mem[k]) >= 1
  <2>1. \A k \in Locations : mem[k] \in Seq(Message) /\ Len(mem[k]) >= 1
    BY DEF ViewsWithin
  <2> QED
    BY <2>1
<1>2. mem'[l] = Append(mem[l], msg) /\ \A k \in Locations \ {l} : mem'[k] = mem[k]
  BY DEF ViewsWithin
<1>3. Len(mem'[l]) = Len(mem[l]) + 1 /\ mem'[l] \in Seq(Message)
  BY <1>1, <1>2
<1>4. mem' \in [Locations -> Seq(Message)]
  BY <1>1, <1>3 DEF ViewsWithin
<1>5. \A k \in Locations : Len(mem'[k]) = IF k = l THEN Len(mem[k]) + 1 ELSE Len(mem[k])
  BY <1>2, <1>3
<1>6. \A n \in 1 .. Len(mem[l]) : mem'[l][n] = mem[l][n]
  BY <1>1, <1>2
<1>7. mem'[l][Len(mem[l]) + 1] = msg
  BY <1>1, <1>2
<1>8. \A v : Within(v, mem) => Within(v, mem')
  <2>1. \A k \in Locations : Len(mem[k]) \in Nat /\ Len(mem'[k]) \in Nat /\ Len(mem[k]) <= Len(mem'[k])
    BY <1>1, <1>5
  <2> QED
    BY <2>1, WithinGrows
<1> QED
  BY <1>1, <1>2, <1>4, <1>5, <1>6, <1>7, <1>8

(* A thread adds a message to a location, and its views become own and     *)
(* add.                                                                    *)
AddsMessage(t, l, msg, own, add) ==
  /\ mem' = [mem EXCEPT ![l] = Append(@, msg)]
  /\ cur' = [cur EXCEPT ![t] = own] /\ acquired' = [acquired EXCEPT ![t] = add]
  /\ released' = released /\ program' = program
  /\ msg \in Message /\ Within(msg.view, mem') /\ Within(own, mem') /\ Within(add, mem')
  /\ \A k \in Locations : cur[t][k] <= own[k] /\ own[k] <= add[k]

(* Such views are of the memory that there is then.                        *)
LEMMA Adds ==
  ASSUME ViewsWithin, NEW t \in Threads, NEW l \in Locations, NEW msg, NEW own, NEW add,
         AddsMessage(t, l, msg, own, add)
  PROVE  /\ ViewsWithin' /\ Onward
         /\ cur'[t] = own /\ \A u \in Threads \ {t} : cur'[u] = cur[u]
<1> USE DEF AddsMessage
<1>0. Locations' = Locations /\ Threads' = Threads /\ View' = View /\ Message' = Message
  BY DEF Locations, Threads, View, Message
<1>1. /\ cur'[t] = own /\ acquired'[t] = add
      /\ \A u \in Threads \ {t} : cur'[u] = cur[u] /\ acquired'[u] = acquired[u]
      /\ cur' \in [Threads -> View] /\ acquired' \in [Threads -> View]
  BY DEF ViewsWithin, Within
<1>2. \A v : Within(v, mem) => Within(v, mem')
  BY Grows
<1>3. \A v : Within(v, mem') => Within(v, mem)'
  BY <1>0 DEF Within
<1>4. \A u \in Threads : /\ Within(cur'[u], mem') /\ Within(acquired'[u], mem') /\ Within(released'[u], mem')
                         /\ \A k \in Locations : cur'[u][k] <= acquired'[u][k]
  BY <1>1, <1>2 DEF ViewsWithin
<1>5. \A k \in Locations : \A n \in 1 .. Len(mem'[k]) : Within(mem'[k][n].view, mem')
  <2> SUFFICES ASSUME NEW k \in Locations, NEW n \in 1 .. Len(mem'[k]) PROVE Within(mem'[k][n].view, mem')
    OBVIOUS
  <2>1. CASE n \in 1 .. Len(mem[k])
    BY <1>2, <2>1, Grows DEF ViewsWithin
  <2>2. CASE n \notin 1 .. Len(mem[k])
    <3>1. /\ Len(mem[k]) \in Nat
          /\ Len(mem'[k]) = IF k = l THEN Len(mem[k]) + 1 ELSE Len(mem[k])
      BY Grows
    <3>2. k = l /\ n = Len(mem[l]) + 1
      BY <2>2, <3>1
    <3> QED
      BY <3>2, Grows
  <2> QED
    BY <2>1, <2>2
<1>6. mem' \in [Locations' -> Seq(Message')] /\ released' \in [Threads' -> View']
  BY <1>0, Grows DEF ViewsWithin
<1>7. \A k \in Locations : Len(mem'[k]) >= 1
  <2>1. \A k \in Locations : /\ Len(mem[k]) \in Nat /\ Len(mem[k]) >= 1
                             /\ Len(mem'[k]) = IF k = l THEN Len(mem[k]) + 1 ELSE Len(mem[k])
    BY Grows
  <2> QED
    BY <2>1
<1>8. ViewsWithin'
  BY <1>0, <1>1, <1>3, <1>4, <1>5, <1>6, <1>7 DEF ViewsWithin
<1>9. \A u \in Threads : \A k \in Locations : cur[u][k] <= cur'[u][k]
  <2>1. \A u \in Threads : \A k \in Locations : cur[u][k] \in Nat
    BY DEF ViewsWithin, View
  <2>2. \A u \in Threads \ {t} : \A k \in Locations : cur[u][k] <= cur'[u][k]
    BY <1>1, <2>1
  <2> QED
    BY <1>1, <2>2
<1>10. \A k \in Locations : \/ mem'[k] = mem[k]
                           \/ \E m \in Message : mem'[k] = Append(mem[k], m)
  <2>1. mem'[l] = Append(mem[l], msg) /\ \A k \in Locations \ {l} : mem'[k] = mem[k]
    BY Grows
  <2> QED
    BY <2>1
<1> QED
  BY <1>1, <1>8, <1>9, <1>10 DEF Onward

(* A memory as long as that after a message to l.                          *)
Longer(l, n) ==
  /\ \A k \in Locations : Len(n[k]) \in Nat /\ Len(n[k]) >= 1
  /\ \A v : Within(v, mem) => Within(v, n)
  /\ Within(At(l, Last(l) + 1), n) /\ At(l, Last(l) + 1)[l] = Last(l) + 1
  /\ Len(n[l]) = Last(l) + 1 /\ Last(l) \in Nat
  /\ \A msg \in Message : mem' = [mem EXCEPT ![l] = Append(@, msg)] => \A v : Within(v, n) => Within(v, mem')

(* There is one, whatever the message.                                     *)
LEMMA LongerExists ==
  ASSUME ViewsWithin, NEW l \in Locations
  PROVE  \E n : Longer(l, n)
<1> DEFINE n == [mem EXCEPT ![l] = Append(@, [val |-> 0, view |-> mutex])]
<1>1. \A k \in Locations : Len(mem[k]) \in Nat /\ Len(mem[k]) >= 1 /\ Last(k) = Len(mem[k])
  BY Lengths DEF Last
<1>2. n[l] = Append(mem[l], [val |-> 0, view |-> mutex]) /\ \A k \in Locations \ {l} : n[k] = mem[k]
  BY DEF ViewsWithin
<1> HIDE DEF n
<1>3. \A k \in Locations : Len(n[k]) = IF k = l THEN Len(mem[k]) + 1 ELSE Len(mem[k])
  <2>1. mem[l] \in Seq(Message)
    BY DEF ViewsWithin
  <2>2. \A s \in Seq(Message) : \A e : Len(Append(s, e)) = Len(s) + 1
    OBVIOUS
  <2> QED
    BY <1>2, <2>1, <2>2
<1>4. \A k \in Locations : Len(n[k]) \in Nat /\ Len(n[k]) >= 1 /\ Len(mem[k]) <= Len(n[k])
  BY <1>1, <1>3
<1>5. \A v : Within(v, mem) => Within(v, n)
  BY <1>1, <1>4, WithinGrows
<1>6. Len(n[l]) = Last(l) + 1 /\ Last(l) + 1 \in Nat /\ 1 <= Last(l) + 1 /\ Last(l) + 1 <= Len(n[l])
  BY <1>1, <1>3
<1>7. Within(At(l, Last(l) + 1), n) /\ At(l, Last(l) + 1)[l] = Last(l) + 1
  BY <1>4, <1>6, AtWithin
<1>8. ASSUME NEW msg \in Message, mem' = [mem EXCEPT ![l] = Append(@, msg)]
      PROVE  \A v : Within(v, n) => Within(v, mem')
  <2>1. \A k \in Locations : Len(mem'[k]) = Len(n[k])
    BY <1>3, <1>8, Grows
  <2> QED
    BY <2>1 DEF Within
<1>9. Longer(l, n)
  BY <1>1, <1>4, <1>5, <1>6, <1>7, <1>8 DEF Longer
<1> QED
  BY <1>9

(* A write is the last message, the writer has seen it, and if it releases *)
(* it carries all the writer has seen.                                     *)
LEMMA WriteEffect ==
  ASSUME ViewsWithin, NEW t \in Threads, NEW l \in Locations, NEW order, NEW val \in Int,
         Write(t, l, val, order), program' = program
  PROVE  /\ ViewsWithin' /\ Onward
         /\ \A u \in Threads \ {t} : cur'[u] = cur[u]
         /\ cur'[t][l] = Last(l) + 1
         /\ \E msg \in Message :
              /\ mem' = [mem EXCEPT ![l] = Append(@, msg)]
              /\ msg.val = val
              /\ order \in {"rel", "sc"} => \A k \in Locations : cur'[t][k] <= msg.view[k]
<1> DEFINE new == At(l, Last(l) + 1)
           own == Join(cur[t], new)
           sent == IF order \in {"rel", "sc"} THEN own
                   ELSE IF order = "na" THEN Start ELSE Join(released[t], new)
           msg == [val |-> val, view |-> sent]
           add == Join(acquired[t], own)
<1>1. /\ mem' = [mem EXCEPT ![l] = Append(@, msg)]
      /\ cur' = [cur EXCEPT ![t] = own] /\ acquired' = [acquired EXCEPT ![t] = add]
      /\ released' = released
  BY DEF Write
<1>2. \A k \in Locations : Len(mem[k]) \in Nat /\ Len(mem[k]) >= 1
  BY Lengths
<1>3. PICK n : Longer(l, n)
  BY LongerExists
<1>4. /\ \A k \in Locations : Len(n[k]) \in Nat /\ Len(n[k]) >= 1
      /\ \A v : Within(v, mem) => Within(v, n)
  BY <1>3 DEF Longer
<1>5. Within(cur[t], n) /\ Within(acquired[t], n) /\ Within(released[t], n)
  BY <1>4 DEF ViewsWithin
<1>6. Within(new, n) /\ new[l] = Last(l) + 1
  BY <1>3 DEF Longer
<1> HIDE DEF new
<1>7. Within(own, n) /\ \A k \in Locations : cur[t][k] <= own[k] /\ new[k] <= own[k]
  BY <1>4, <1>5, <1>6, JoinWithin
<1> HIDE DEF own
<1>8. Within(add, n) /\ \A k \in Locations : own[k] <= add[k]
  BY <1>4, <1>5, <1>7, JoinWithin
<1>9. Within(sent, n)
  <2>1. Within(Start, n)
    BY <1>4, StartWithin
  <2>2. Within(Join(released[t], new), n)
    BY <1>4, <1>5, <1>6, JoinWithin
  <2> QED
    BY <1>7, <2>1, <2>2
<1> HIDE DEF sent, add
<1>10. msg \in Message /\ msg.view = sent /\ msg.val = val
  BY <1>9 DEF Within, Message
<1> HIDE DEF msg
<1>12. \A v : Within(v, n) => Within(v, mem')
  BY <1>1, <1>3, <1>10 DEF Longer
<1>13. /\ ViewsWithin' /\ Onward /\ cur'[t] = own /\ \A u \in Threads \ {t} : cur'[u] = cur[u]
  <2>1. Within(msg.view, mem') /\ Within(own, mem') /\ Within(add, mem')
    BY <1>7, <1>8, <1>9, <1>10, <1>12
  <2>2. \A k \in Locations : cur[t][k] <= own[k] /\ own[k] <= add[k]
    BY <1>7, <1>8
  <2>3. AddsMessage(t, l, msg, own, add)
    BY <1>1, <1>10, <2>1, <2>2 DEF AddsMessage
  <2> QED
    BY <2>3, Adds
<1>14. own[l] = Last(l) + 1
  BY <1>3, <1>6, <1>7 DEF Longer, Within, View
<1>15. order \in {"rel", "sc"} => sent = own
  BY DEF sent
<1>16. \A k \in Locations : own[k] <= own[k]
  BY <1>7 DEF Within, View
<1> QED
  BY <1>1, <1>10, <1>13, <1>14, <1>15, <1>16

(* test_and_set adds a 1 to a location whose last message is a 0.          *)
LEMMA TestAndSetEffect ==
  ASSUME ViewsWithin, NEW t \in Threads, Here(t).loc \in Locations, TestAndSetStep(t), program' = program
  PROVE  /\ ViewsWithin' /\ Onward
         /\ \A u \in Threads \ {t} : cur'[u] = cur[u]
         /\ \E msg \in Message : /\ mem' = [mem EXCEPT ![Here(t).loc] = Append(@, msg)]
                                /\ msg.val = 1
<1> DEFINE l == Here(t).loc
           m == mem[l][Last(l)]
           new == At(l, Last(l) + 1)
           synced == IF Here(t).order = "acq" THEN Join(cur[t], m.view) ELSE cur[t]
           own == Join(synced, new)
           sent == Join(m.view, new)
           msg == [val |-> 1, view |-> sent]
           add == Join(Join(acquired[t], own), m.view)
<1>1. /\ mem' = [mem EXCEPT ![l] = Append(@, msg)]
      /\ cur' = [cur EXCEPT ![t] = own] /\ acquired' = [acquired EXCEPT ![t] = add]
      /\ released' = released
  BY DEF TestAndSetStep
<1>2. Last(l) \in 1 .. Len(mem[l])
  BY Lengths DEF Last
<1> HIDE DEF l
<1>3. PICK n : Longer(l, n)
  BY LongerExists DEF l
<1>4. /\ \A k \in Locations : Len(n[k]) \in Nat /\ Len(n[k]) >= 1
      /\ \A v : Within(v, mem) => Within(v, n)
      /\ Within(new, n) /\ l \in Locations
  BY <1>3 DEF Longer, l
<1>5. Within(cur[t], n) /\ Within(acquired[t], n) /\ Within(m.view, n)
  BY <1>2, <1>4 DEF ViewsWithin
<1> HIDE DEF new, m
<1>6. Within(synced, n) /\ \A k \in Locations : cur[t][k] <= synced[k]
  <2>1. /\ Within(Join(cur[t], m.view), n)
        /\ \A k \in Locations : cur[t][k] <= Join(cur[t], m.view)[k]
    BY <1>4, <1>5, JoinWithin
  <2>2. \A k \in Locations : cur[t][k] <= cur[t][k]
    BY <1>5 DEF Within, View
  <2> QED
    BY <1>5, <2>1, <2>2
<1> HIDE DEF synced
<1>7. Within(own, n) /\ \A k \in Locations : synced[k] <= own[k]
  BY <1>4, <1>6, JoinWithin
<1> HIDE DEF own
<1>8. /\ Within(Join(acquired[t], own), n)
      /\ \A k \in Locations : own[k] <= Join(acquired[t], own)[k]
  BY <1>4, <1>5, <1>7, JoinWithin
<1>9. /\ Within(add, n)
      /\ \A k \in Locations : Join(acquired[t], own)[k] <= add[k]
  BY <1>4, <1>5, <1>8, JoinWithin
<1>10. Within(sent, n)
  BY <1>4, <1>5, JoinWithin
<1> HIDE DEF sent, add
<1>11. \A k \in Locations : cur[t][k] <= own[k] /\ own[k] <= add[k]
  <2>1. \A k \in Locations : /\ cur[t][k] \in Nat /\ synced[k] \in Nat /\ own[k] \in Nat
                             /\ Join(acquired[t], own)[k] \in Nat /\ add[k] \in Nat
    BY <1>5, <1>6, <1>7, <1>8, <1>9 DEF Within, View
  <2> QED
    BY <1>6, <1>7, <1>8, <1>9, <2>1
<1>12. msg \in Message /\ msg.view = sent /\ msg.val = 1
  BY <1>10 DEF Within, Message
<1> HIDE DEF msg
<1>13. \A v : Within(v, n) => Within(v, mem')
  BY <1>1, <1>3, <1>12 DEF Longer
<1>14. AddsMessage(t, l, msg, own, add)
  BY <1>1, <1>7, <1>9, <1>10, <1>11, <1>12, <1>13 DEF AddsMessage
<1>15. ViewsWithin' /\ Onward /\ \A u \in Threads \ {t} : cur'[u] = cur[u]
  BY <1>4, <1>14, Adds
<1> QED
  BY <1>1, <1>12, <1>15 DEF l

--------------------------------------------------------------------------------
(* Every step.                                                             *)

(* What may be read is in memory.                                          *)
LEMMA ReadableInMemory ==
  ASSUME ViewsWithin, NEW t \in Threads, NEW l \in Locations, NEW order,
         NEW place \in Readable(t, l, order)
  PROVE  /\ place \in 1 .. Last(l) /\ cur[t][l] <= place
         /\ order = "sc" => place = Last(l)
<1>1. Last(l) \in Nat /\ Last(l) >= 1 /\ Last(l) = Len(mem[l])
  BY Lengths DEF Last
<1>2. cur[t][l] \in Nat /\ 1 <= cur[t][l] /\ cur[t][l] <= Last(l)
  BY <1>1 DEF ViewsWithin, Within, View
<1> QED
  BY <1>1, <1>2 DEF Readable

(* The instruction a thread has come to is one of its code.                *)
LEMMA HereWellFormed ==
  ASSUME Machine, NEW t \in Threads, Running(t)
  PROVE  /\ Here(t).val \in Int
         /\ Here(t).op \in Accesses => Here(t).loc \in Locations
         /\ Here(t).op \in {"if", "goto"} => Here(t).else \in Nat \ {0}
         /\ pc[t] \in Nat \ {0}
<1>1. pc[t] \in Nat \ {0} /\ program \in Programs
  BY DEF Machine
<1>2. WellFormed(program)
  BY <1>1, ProgramsAssumption
<1>3. pc[t] \in DOMAIN program.code[t]
  <2>1. Len(program.code[t]) \in Nat /\ DOMAIN program.code[t] = 1 .. Len(program.code[t])
    BY <1>2 DEF WellFormed, Threads
  <2>2. pc[t] <= Len(program.code[t])
    BY DEF Running, Code
  <2> QED
    BY <1>1, <2>1, <2>2
<1> QED
  BY <1>1, <1>2, <1>3 DEF WellFormed, Here, Code, Threads, Locations

(* A step that leaves memory and views alone.                              *)
LEMMA MemoryKept ==
  ASSUME ViewsWithin, program' = program, UNCHANGED <<mem, cur, acquired, released>>
  PROVE  ViewsWithin' /\ Onward
<1>0. Locations' = Locations /\ Threads' = Threads /\ View' = View /\ Message' = Message
  BY DEF Locations, Threads, View, Message
<1>1. \A v : Within(v, mem) => Within(v, mem)'
  BY <1>0 DEF Within
<1>2. \A t \in Threads : \A l \in Locations : cur[t][l] <= cur'[t][l]
  BY DEF ViewsWithin, View
<1>3. ViewsWithin'
  BY <1>0, <1>1 DEF ViewsWithin
<1> QED
  BY <1>2, <1>3 DEF Onward

(* After any step views are of what is in memory, and nothing goes back.   *)
LEMMA StepViews ==
  ASSUME Machine, NEW t \in Threads, Step(t)
  PROVE  ViewsWithin' /\ Onward
<1>1. ViewsWithin /\ program' = program /\ Running(t)
  BY DEF Machine, Step
<1>2. /\ Here(t).val \in Int
      /\ Here(t).op \in Accesses => Here(t).loc \in Locations
  BY <1>1, HereWellFormed
<1>3. CASE StoreStep(t)
  <2>0. constructed + 1 \in Int
    <3>1. constructed \in Nat
      BY Zenon DEF Machine
    <3> QED
      BY <3>1
  <2>1. Here(t).loc \in Locations
    BY <1>2, <1>3 DEF StoreStep, Accesses
  <2>2. PICK val \in Int : Write(t, Here(t).loc, val, Here(t).order)
    BY <1>2, <1>3, <2>0 DEF StoreStep
  <2> QED
    BY <1>1, <2>1, <2>2, WriteEffect
<1>4. CASE LoadStep(t)
  <2>1. Here(t).loc \in Locations
    BY <1>2, <1>4 DEF LoadStep, Accesses
  <2>2. PICK place \in Readable(t, Here(t).loc, Here(t).order) : Read(t, Here(t).loc, Here(t).order, place)
    BY <1>4 DEF LoadStep
  <2>3. place \in 1 .. Last(Here(t).loc)
    BY <1>1, <2>1, <2>2, ReadableInMemory
  <2> QED
    BY <1>1, <2>1, <2>2, <2>3, ReadEffect
<1>5. CASE TestAndSetStep(t)
  BY <1>1, <1>2, <1>5, TestAndSetEffect DEF TestAndSetStep, Accesses
<1>6. CASE FenceStep(t)
  <2>0. Locations' = Locations /\ Threads' = Threads /\ View' = View /\ Message' = Message
    BY <1>1 DEF Locations, Threads, View, Message
  <2>1. /\ mem' = mem /\ acquired' = acquired
        /\ \/ cur' = cur /\ released' = [released EXCEPT ![t] = cur[t]]
           \/ released' = released /\ cur' = [cur EXCEPT ![t] = acquired[t]]
    BY <1>6 DEF FenceStep
  <2>2. \A v : Within(v, mem) => Within(v, mem)'
    BY <2>0, <2>1 DEF Within
  <2>3. /\ cur' \in [Threads -> View] /\ released' \in [Threads -> View]
        /\ \A u \in Threads : /\ (cur'[u] = cur[u] \/ cur'[u] = acquired[u])
                              /\ (released'[u] = released[u] \/ released'[u] = cur[u])
    BY <1>1, <2>1 DEF ViewsWithin
  <2>4. \A u \in Threads : \A l \in Locations : /\ cur[u][l] \in Nat /\ acquired[u][l] \in Nat
                                                /\ cur[u][l] <= acquired[u][l]
    BY <1>1 DEF ViewsWithin, View
  <2>5. \A u \in Threads : \A l \in Locations : cur[u][l] <= cur'[u][l] /\ cur'[u][l] <= acquired'[u][l]
    BY <2>1, <2>3, <2>4
  <2>6. \A u \in Threads : Within(cur'[u], mem) /\ Within(released'[u], mem) /\ Within(acquired'[u], mem)
    BY <1>1, <2>1, <2>3 DEF ViewsWithin
  <2>7. ViewsWithin'
    BY <1>1, <2>0, <2>1, <2>2, <2>3, <2>5, <2>6 DEF ViewsWithin
  <2> QED
    BY <2>1, <2>5, <2>7 DEF Onward
<1>7. CASE LockStep(t)
  <2> DEFINE own == Join(cur[t], mutex.view)
             add == Join(acquired[t], mutex.view)
  <2>0. Locations' = Locations /\ Threads' = Threads /\ View' = View /\ Message' = Message
    BY <1>1 DEF Locations, Threads, View, Message
  <2>1. /\ mem' = mem /\ released' = released
        /\ cur' = [cur EXCEPT ![t] = own] /\ acquired' = [acquired EXCEPT ![t] = add]
    BY <1>7 DEF LockStep
  <2>2. /\ Within(own, mem) /\ Within(add, mem)
        /\ \A l \in Locations : cur[t][l] <= own[l] /\ own[l] <= add[l]
    <3>1. \A l \in Locations : Len(mem[l]) \in Nat
      BY <1>1, Lengths
    <3>2. Within(cur[t], mem) /\ Within(acquired[t], mem) /\ Within(mutex.view, mem)
      BY DEF Machine, ViewsWithin
    <3>3. Within(own, mem) /\ Within(add, mem) /\ \A l \in Locations : cur[t][l] <= own[l]
      BY <3>1, <3>2, JoinWithin
    <3>4. \A l \in Locations : own[l] <= add[l]
      <4>1. \A l \in Locations : /\ cur[t][l] \in Nat /\ acquired[t][l] \in Nat /\ mutex.view[l] \in Nat
                                 /\ cur[t][l] <= acquired[t][l]
        BY <3>2 DEF Machine, ViewsWithin, Within, View
      <4> QED
        BY <4>1 DEF Join
    <3> QED
      BY <3>3, <3>4
  <2> HIDE DEF own, add
  <2>3. \A v : Within(v, mem) => Within(v, mem)'
    BY <2>0, <2>1 DEF Within
  <2>4. /\ cur'[t] = own /\ acquired'[t] = add
        /\ \A u \in Threads \ {t} : cur'[u] = cur[u] /\ acquired'[u] = acquired[u]
        /\ cur' \in [Threads -> View] /\ acquired' \in [Threads -> View]
    BY <1>1, <2>1, <2>2 DEF ViewsWithin, Within
  <2>5. \A u \in Threads : \A l \in Locations : cur[u][l] <= cur'[u][l] /\ cur'[u][l] <= acquired'[u][l]
    <3>1. \A u \in Threads : \A l \in Locations : cur[u][l] \in Nat /\ cur[u][l] <= acquired[u][l]
      BY <1>1 DEF ViewsWithin, View
    <3>2. \A u \in Threads \ {t} : \A l \in Locations : cur[u][l] <= cur'[u][l] /\ cur'[u][l] <= acquired'[u][l]
      BY <2>4, <3>1
    <3> QED
      BY <2>2, <2>4, <3>2
  <2>6. \A u \in Threads : Within(cur'[u], mem) /\ Within(released'[u], mem) /\ Within(acquired'[u], mem)
    BY <1>1, <2>1, <2>2, <2>4 DEF ViewsWithin
  <2>7. ViewsWithin'
    BY <1>1, <2>0, <2>1, <2>3, <2>4, <2>5, <2>6 DEF ViewsWithin
  <2> QED
    BY <2>1, <2>5, <2>7 DEF Onward
<1>8. CASE UnlockStep(t) \/ PlainStep(t)
  BY <1>1, <1>8, MemoryKept DEF UnlockStep, PlainStep, memory
<1> QED
  BY <1>3, <1>4, <1>5, <1>6, <1>7, <1>8 DEF Step

(* The machine is one whatever its programs.                               *)
LEMMA MachineStep ==
  ASSUME Machine, NEW t \in Threads, Step(t)
  PROVE  Machine' /\ Onward
<1>0. Locations' = Locations /\ Threads' = Threads /\ View' = View /\ program' = program
  BY DEF Locations, Threads, View, Step
<1>1. ViewsWithin /\ ViewsWithin' /\ Onward /\ Running(t)
  BY StepViews DEF Step, Machine
<1>2. \A l \in Locations : Len(mem[l]) \in Nat /\ Len(mem'[l]) \in Nat /\ Len(mem[l]) <= Len(mem'[l])
  <2>1. \A l \in Locations : mem[l] \in Seq(Message)
    BY <1>1 DEF ViewsWithin
  <2>2. \A s \in Seq(Message) : \A m \in Message : Len(s) \in Nat /\ Len(Append(s, m)) = Len(s) + 1
    OBVIOUS
  <2> QED
    BY <1>1, <2>1, <2>2 DEF Onward
<1>3. \A v : Within(v, mem) => Within(v, mem)'
  <2>1. \A v : Within(v, mem) => Within(v, mem')
    BY <1>2, WithinGrows
  <2> QED
    BY <1>0, <2>1 DEF Within
<1>4. pc' \in [Threads' -> Nat \ {0}]
  <2>1. pc[t] \in Nat \ {0} /\ (Here(t).op \in {"if", "goto"} => Here(t).else \in Nat \ {0})
    BY <1>1, HereWellFormed
  <2>2. \/ pc' = [pc EXCEPT ![t] = pc[t] + 1]
        \/ Here(t).op \in {"if", "goto"} /\ pc' = [pc EXCEPT ![t] = Here(t).else]
    BY DEF Step, StoreStep, LoadStep, TestAndSetStep, FenceStep, LockStep, UnlockStep, PlainStep, Advance, Jump
  <2>3. pc \in [Threads -> Nat \ {0}]
    BY DEF Machine
  <2> QED
    BY <1>0, <2>1, <2>2, <2>3
<1>5. /\ mutex' = [owner |-> mutex'.owner, view |-> mutex'.view]
      /\ mutex'.owner \in Threads' \cup {None} /\ Within(mutex.view, mem)'
  <2>0. /\ mutex = [owner |-> mutex.owner, view |-> mutex.view]
        /\ mutex.owner \in Threads \cup {None} /\ Within(mutex.view, mem)
    BY DEF Machine
  <2>1. CASE mutex' = mutex
    BY <1>0, <1>3, <2>0, <2>1 DEF Within
  <2>2. CASE mutex' = [mutex EXCEPT !.owner = t]
    <3>1. mutex'.owner = t /\ mutex'.view = mutex.view /\ mutex' = [owner |-> t, view |-> mutex.view]
      BY <2>0, <2>2
    <3> QED
      BY <1>0, <1>3, <2>0, <3>1 DEF Within
  <2>3. CASE mutex' = [owner |-> None, view |-> cur[t]]
    <3>1. mutex'.owner = None /\ mutex'.view = cur[t] /\ Within(cur[t], mem)
      BY <1>1, <2>3 DEF ViewsWithin
    <3> QED
      BY <1>0, <1>3, <2>3, <3>1 DEF Within
  <2> QED
    BY <2>1, <2>2, <2>3
       DEF Step, StoreStep, LoadStep, TestAndSetStep, FenceStep, LockStep, UnlockStep, PlainStep, effects
<1>6. loaded' \in [Threads' -> Seq(Int)]
  <2>0. loaded \in [Threads -> Seq(Int)] /\ loaded[t] \in Seq(Int)
    BY DEF Machine
  <2>1. CASE loaded' = loaded
    BY <1>0, <2>0, <2>1
  <2>2. CASE LoadStep(t)
    <3>1. PICK place \in Readable(t, Here(t).loc, Here(t).order) :
            \/ loaded' = loaded
            \/ loaded' = [loaded EXCEPT ![t] = Append(@, mem[Here(t).loc][place].val)]
      BY <2>2 DEF LoadStep
    <3>2. Here(t).loc \in Locations
      BY <1>1, <2>2, HereWellFormed DEF LoadStep, Accesses
    <3>3. place \in 1 .. Last(Here(t).loc)
      BY <1>1, <3>2, ReadableInMemory
    <3>4. mem[Here(t).loc][place].val \in Int
      <4>1. mem[Here(t).loc] \in Seq(Message)
        BY <1>1, <3>2 DEF ViewsWithin
      <4>2. \A s \in Seq(Message) : \A k \in 1 .. Len(s) : s[k] \in Message
        OBVIOUS
      <4>3. mem[Here(t).loc][place] \in Message
        BY <3>3, <4>1, <4>2 DEF Last
      <4> QED
        BY <4>3 DEF Message
    <3>5. \A s \in Seq(Int) : \A x \in Int : Append(s, x) \in Seq(Int)
      OBVIOUS
    <3>6. Append(loaded[t], mem[Here(t).loc][place].val) \in Seq(Int)
      BY <2>0, <3>4, <3>5
    <3> QED
      BY <1>0, <2>0, <3>1, <3>6
  <2> QED
    BY <2>1, <2>2 DEF Step, StoreStep, TestAndSetStep, FenceStep, LockStep, UnlockStep, PlainStep, effects
<1>7. constructed' \in Nat
  <2>1. constructed' = constructed \/ constructed' = constructed + 1
    BY DEF Step, StoreStep, LoadStep, TestAndSetStep, FenceStep, LockStep, UnlockStep, PlainStep, effects
  <2>2. constructed \in Nat
    BY Zenon DEF Machine
  <2> QED
    BY <2>1, <2>2
<1> QED
  BY <1>0, <1>1, <1>4, <1>5, <1>6, <1>7 DEF Machine

(* The beginning.                                                          *)
LEMMA MachineInit == Init => Machine
<1> SUFFICES ASSUME Init PROVE Machine
  OBVIOUS
<1>1. program \in Programs /\ WellFormed(program)
  BY ProgramsAssumption DEF Init
<1>2. Start \in View /\ \A l \in Locations : Start[l] = 1
  BY DEF Start, View
<1>3. \A l \in Locations : [val |-> program.init[l], view |-> Start] \in Message
  BY <1>1, <1>2 DEF WellFormed, Locations, Message
<1>4. mem = [l \in Locations |-> <<[val |-> program.init[l], view |-> Start]>>]
  BY DEF Init
<1>5. \A l \in Locations : /\ mem[l] \in Seq(Message) /\ Len(mem[l]) = 1
                           /\ mem[l][1].view = Start
  <2>1. \A m \in Message : <<m>> \in Seq(Message) /\ Len(<<m>>) = 1 /\ <<m>>[1] = m
    OBVIOUS
  <2> QED
    BY <1>3, <1>4, <2>1
<1>6. mem \in [Locations -> Seq(Message)]
  BY <1>4, <1>5
<1>7. Within(Start, mem)
  <2>1. \A l \in Locations : Len(mem[l]) \in Nat /\ Len(mem[l]) >= 1
    BY <1>5
  <2> QED
    BY <2>1, StartWithin
<1>8. /\ cur = [t \in Threads |-> Start] /\ acquired = [t \in Threads |-> Start]
      /\ released = [t \in Threads |-> Start]
  BY DEF Init
<1>9. ViewsWithin
  <2>1. \A l \in Locations : Start[l] <= Start[l]
    BY <1>2
  <2>2. \A l \in Locations : \A k \in 1 .. Len(mem[l]) : Within(mem[l][k].view, mem)
    <3>1. \A k \in 1 .. 1 : k = 1
      OBVIOUS
    <3>2. \A l \in Locations : \A k \in 1 .. Len(mem[l]) : k = 1
      BY <1>5, <3>1, Zenon
    <3> QED
      BY <1>5, <1>7, <3>2
  <2>3. cur \in [Threads -> View] /\ acquired \in [Threads -> View] /\ released \in [Threads -> View]
    BY <1>2, <1>8
  <2>4. \A t \in Threads : cur[t] = Start /\ acquired[t] = Start /\ released[t] = Start
    BY <1>8
  <2>5. \A l \in Locations : Len(mem[l]) >= 1
    BY <1>5
  <2> QED
    BY <1>6, <1>7, <2>1, <2>2, <2>3, <2>4, <2>5 DEF ViewsWithin
<1>10. /\ pc = [t \in Threads |-> 1] /\ loaded = [t \in Threads |-> <<>>] /\ constructed = 0
       /\ mutex = [owner |-> None, view |-> Start]
  BY DEF Init
<1>11. pc \in [Threads -> Nat \ {0}] /\ constructed \in Nat
  <2>1. 1 \in Nat \ {0} /\ 0 \in Nat
    OBVIOUS
  <2>2. \A n \in Nat \ {0} : [t \in Threads |-> n] \in [Threads -> Nat \ {0}]
    OBVIOUS
  <2> QED
    BY <1>10, <2>1, <2>2
<1>12. loaded \in [Threads -> Seq(Int)]
  <2>1. <<>> \in Seq(Int)
    OBVIOUS
  <2> QED
    BY <1>10, <2>1
<1>13. mutex.owner = None /\ mutex.view = Start /\ mutex = [owner |-> mutex.owner, view |-> mutex.view]
  BY <1>10
<1> QED
  BY <1>1, <1>7, <1>9, <1>11, <1>12, <1>13 DEF Machine

--------------------------------------------------------------------------------
(* What a step does, by the instruction it executes.                       *)

(* What holds after any step of t.                                         *)
Stepped(t) ==
  /\ Machine' /\ Onward /\ Running(t) /\ program' = program
  /\ \A u \in Threads \ {t} : cur'[u] = cur[u] /\ pc'[u] = pc[u] /\ loaded'[u] = loaded[u]

(* t has read the message at place.                                        *)
Reads(t, i, place) ==
  /\ place \in 1 .. Last(i.loc) /\ cur[t][i.loc] <= place /\ place <= cur'[t][i.loc]
  /\ i.order = "sc" => place = Last(i.loc)
  /\ i.order \in {"acq", "sc"} => \A l \in Locations : mem[i.loc][place].view[l] <= cur'[t][l]
  /\ i.op = "await" => mem[i.loc][place].val = i.val
  /\ pc'[t] = IF i.op = "if" /\ mem[i.loc][place].val # i.val THEN i.else ELSE pc[t] + 1
  /\ loaded'[t] = IF i.op = "load" THEN Append(loaded[t], mem[i.loc][place].val) ELSE loaded[t]
  /\ ~failed /\ (i.op = "assert" => mem[i.loc][place].val = i.val) => ~failed'

(* Any load: the reader takes over what it reads, and branches by it.      *)
LEMMA LoadEffect ==
  ASSUME Machine, NEW t \in Threads, Step(t), Here(t).op \in {"load", "await", "if", "assert"}
  PROVE  /\ Stepped(t) /\ mem' = mem
         /\ \E place : Reads(t, Here(t), place)
         /\ ~race /\ ~Races(t, Here(t).loc, Here(t).order) => ~race'
         /\ UNCHANGED <<printed, counted, constructed, mutex>>
<1>1. LoadStep(t) /\ Running(t) /\ program' = program
  BY DEF Step, StoreStep, TestAndSetStep, FenceStep, LockStep, UnlockStep, PlainStep
<1>2. Machine' /\ Onward /\ ViewsWithin
  BY MachineStep DEF Machine
<1>3. Here(t).loc \in Locations
  BY <1>1, HereWellFormed DEF Accesses
<1>4. PICK place \in Readable(t, Here(t).loc, Here(t).order) :
         LET i == Here(t) val == mem[i.loc][place].val IN
         /\ i.op = "await" => val = i.val
         /\ Read(t, i.loc, i.order, place)
         /\ IF i.op = "if" /\ val # i.val THEN Jump(t, i.else) ELSE Advance(t)
         /\ loaded' = IF i.op = "load" THEN [loaded EXCEPT ![t] = Append(@, val)] ELSE loaded
         /\ failed' = (failed \/ (i.op = "assert" /\ val # i.val))
  BY <1>1 DEF LoadStep
<1>5. /\ place \in 1 .. Last(Here(t).loc) /\ cur[t][Here(t).loc] <= place
      /\ Here(t).order = "sc" => place = Last(Here(t).loc)
  BY <1>2, <1>3, ReadableInMemory
<1>6. /\ mem' = mem
      /\ \A u \in Threads \ {t} : cur'[u] = cur[u]
      /\ place <= cur'[t][Here(t).loc]
      /\ Here(t).order \in {"acq", "sc"} =>
           \A l \in Locations : mem[Here(t).loc][place].view[l] <= cur'[t][l]
  BY <1>1, <1>2, <1>3, <1>4, <1>5, ReadEffect
<1>7. pc \in [Threads -> Nat \ {0}] /\ loaded \in [Threads -> Seq(Int)]
  BY DEF Machine
<1>8. /\ pc'[t] = IF Here(t).op = "if" /\ mem[Here(t).loc][place].val # Here(t).val
                  THEN Here(t).else ELSE pc[t] + 1
      /\ \A u \in Threads \ {t} : pc'[u] = pc[u]
  BY <1>4, <1>7 DEF Jump, Advance
<1>9. /\ loaded'[t] = IF Here(t).op = "load" THEN Append(loaded[t], mem[Here(t).loc][place].val)
                      ELSE loaded[t]
      /\ \A u \in Threads \ {t} : loaded'[u] = loaded[u]
  BY <1>4, <1>7
<1>10. Stepped(t)
  BY <1>1, <1>2, <1>6, <1>8, <1>9 DEF Stepped
<1>11. Reads(t, Here(t), place)
  BY <1>4, <1>5, <1>6, <1>8, <1>9 DEF Reads
<1> QED
  BY <1>1, <1>6, <1>10, <1>11 DEF LoadStep

(* A message val is added to l, and t has seen it.                         *)
Writes(t, l, val, order) ==
  /\ mem' \in [Locations -> Seq(Message)]
  /\ \A k \in Locations \ {l} : mem'[k] = mem[k]
  /\ Len(mem'[l]) = Last(l) + 1
  /\ \A n \in 1 .. Last(l) : mem'[l][n] = mem[l][n]
  /\ mem'[l][Last(l) + 1].val = val
  /\ order \in {"rel", "sc"} =>
       \A k \in Locations : cur'[t][k] <= mem'[l][Last(l) + 1].view[k]

(* Any store.                                                              *)
LEMMA StoreEffect ==
  ASSUME Machine, NEW t \in Threads, Step(t), Here(t).op \in {"store", "construct"}
  PROVE  /\ Stepped(t) /\ pc'[t] = pc[t] + 1 /\ loaded' = loaded
         /\ Writes(t, Here(t).loc, IF Here(t).op = "construct" THEN constructed + 1 ELSE Here(t).val, Here(t).order)
         /\ cur'[t][Here(t).loc] = Last(Here(t).loc) + 1
         /\ constructed' = IF Here(t).op = "construct" THEN constructed + 1 ELSE constructed
         /\ ~race /\ ~Races(t, Here(t).loc, Here(t).order) => ~race'
         /\ UNCHANGED <<printed, counted, mutex, failed>>
<1> DEFINE l == Here(t).loc
           val == IF Here(t).op = "construct" THEN constructed + 1 ELSE Here(t).val
<1>1. StoreStep(t) /\ Running(t) /\ program' = program
  BY DEF Step, LoadStep, TestAndSetStep, FenceStep, LockStep, UnlockStep, PlainStep
<1>2. Machine' /\ Onward /\ ViewsWithin
  BY MachineStep DEF Machine
<1>3. l \in Locations /\ Here(t).val \in Int
  BY <1>1, HereWellFormed DEF Accesses
<1>4. val \in Int
  <2>1. constructed \in Nat
    BY Zenon DEF Machine
  <2> QED
    BY <1>3, <2>1
<1>5. Write(t, l, val, Here(t).order)
  BY <1>1 DEF StoreStep
<1> HIDE DEF val
<1>6. /\ \A u \in Threads \ {t} : cur'[u] = cur[u]
      /\ cur'[t][l] = Last(l) + 1
  BY <1>1, <1>2, <1>3, <1>4, <1>5, WriteEffect
<1>7. PICK msg \in Message :
        /\ mem' = [mem EXCEPT ![l] = Append(@, msg)]
        /\ msg.val = val
        /\ Here(t).order \in {"rel", "sc"} => \A k \in Locations : cur'[t][k] <= msg.view[k]
  BY <1>1, <1>2, <1>3, <1>4, <1>5, WriteEffect
<1>8. Writes(t, l, val, Here(t).order)
  <2>1. /\ mem' \in [Locations -> Seq(Message)]
        /\ \A k \in Locations \ {l} : mem'[k] = mem[k]
        /\ Len(mem'[l]) = Last(l) + 1
        /\ \A n \in 1 .. Last(l) : mem'[l][n] = mem[l][n]
        /\ mem'[l][Last(l) + 1] = msg
    BY <1>2, <1>3, <1>7, Grows DEF Last
  <2> QED
    BY <1>7, <2>1 DEF Writes
<1>9. pc'[t] = pc[t] + 1 /\ \A u \in Threads \ {t} : pc'[u] = pc[u]
  <2>1. pc \in [Threads -> Nat \ {0}]
    BY DEF Machine
  <2> QED
    BY <1>1, <2>1 DEF StoreStep, Advance
<1>10. loaded' = loaded
  BY <1>1 DEF StoreStep
<1>11. Stepped(t)
  BY <1>1, <1>2, <1>6, <1>9, <1>10 DEF Stepped
<1> QED
  BY <1>1, <1>6, <1>8, <1>9, <1>10, <1>11 DEF StoreStep, val

(* test_and_set, which goes on only where the last message was a 0.        *)
LEMMA SetEffect ==
  ASSUME Machine, NEW t \in Threads, Step(t), Here(t).op = "tas"
  PROVE  /\ Stepped(t) /\ pc'[t] = pc[t] + 1
         /\ mem[Here(t).loc][Last(Here(t).loc)].val = 0
         /\ Writes(t, Here(t).loc, 1, "rlx")
         /\ UNCHANGED effects
<1> DEFINE l == Here(t).loc
<1>1. TestAndSetStep(t) /\ Running(t) /\ program' = program
  BY DEF Step, LoadStep, StoreStep, FenceStep, LockStep, UnlockStep, PlainStep
<1>2. Machine' /\ Onward /\ ViewsWithin
  BY MachineStep DEF Machine
<1>3. l \in Locations
  BY <1>1, HereWellFormed DEF Accesses
<1>4. \A u \in Threads \ {t} : cur'[u] = cur[u]
  BY <1>1, <1>2, <1>3, TestAndSetEffect
<1>5. PICK msg \in Message : mem' = [mem EXCEPT ![l] = Append(@, msg)] /\ msg.val = 1
  BY <1>1, <1>2, <1>3, TestAndSetEffect
<1>6. Writes(t, l, 1, "rlx")
  <2>1. /\ mem' \in [Locations -> Seq(Message)]
        /\ \A k \in Locations \ {l} : mem'[k] = mem[k]
        /\ Len(mem'[l]) = Last(l) + 1
        /\ \A n \in 1 .. Last(l) : mem'[l][n] = mem[l][n]
        /\ mem'[l][Last(l) + 1] = msg
    BY <1>2, <1>3, <1>5, Grows DEF Last
  <2> QED
    BY <1>5, <2>1 DEF Writes
<1>7. pc'[t] = pc[t] + 1 /\ \A u \in Threads \ {t} : pc'[u] = pc[u]
  <2>1. pc \in [Threads -> Nat \ {0}]
    BY DEF Machine
  <2> QED
    BY <1>1, <2>1 DEF TestAndSetStep, Advance
<1>8. UNCHANGED effects /\ mem[l][Last(l)].val = 0
  BY <1>1 DEF TestAndSetStep
<1>9. Stepped(t)
  BY <1>1, <1>2, <1>4, <1>7, <1>8 DEF Stepped, effects
<1> QED
  BY <1>6, <1>7, <1>8, <1>9

(* The mutex is taken, with what its last owner had seen.                  *)
LEMMA LockEffect ==
  ASSUME Machine, NEW t \in Threads, Step(t), Here(t).op = "lock"
  PROVE  /\ Stepped(t) /\ pc'[t] = pc[t] + 1 /\ mem' = mem
         /\ mutex.owner = None /\ mutex'.owner = t /\ mutex'.view = mutex.view
         /\ \A l \in Locations : mutex.view[l] <= cur'[t][l]
         /\ UNCHANGED <<loaded, printed, counted, constructed, race, failed>>
<1>1. LockStep(t) /\ Running(t) /\ program' = program
  BY DEF Step, LoadStep, StoreStep, FenceStep, TestAndSetStep, UnlockStep, PlainStep
<1>2. Machine' /\ Onward /\ ViewsWithin
  BY MachineStep DEF Machine
<1>3. /\ pc \in [Threads -> Nat \ {0}] /\ Within(mutex.view, mem)
      /\ mutex = [owner |-> mutex.owner, view |-> mutex.view]
  BY DEF Machine
<1>4. cur \in [Threads -> View] /\ Within(cur[t], mem) /\ cur' = [cur EXCEPT ![t] = Join(@, mutex.view)]
  BY <1>1, <1>2 DEF ViewsWithin, LockStep
<1>5. \A l \in Locations : mutex.view[l] <= Join(cur[t], mutex.view)[l]
  <2>1. \A l \in Locations : Len(mem[l]) \in Nat
    BY <1>2, Lengths
  <2> QED
    BY <1>3, <1>4, <2>1, JoinWithin
<1>6. \A l \in Locations : mutex.view[l] <= cur'[t][l]
  BY <1>4, <1>5
<1>7. \A u \in Threads \ {t} : cur'[u] = cur[u]
  BY <1>4
<1>8. pc'[t] = pc[t] + 1 /\ \A u \in Threads \ {t} : pc'[u] = pc[u]
  BY <1>1, <1>3 DEF LockStep, Advance
<1>9. /\ mutex.owner = None /\ mutex'.owner = t /\ mutex'.view = mutex.view /\ mem' = mem
      /\ UNCHANGED <<loaded, printed, counted, constructed, race, failed>>
  BY <1>1, <1>3 DEF LockStep
<1>10. Stepped(t)
  BY <1>1, <1>2, <1>7, <1>8, <1>9 DEF Stepped
<1> QED
  BY <1>6, <1>8, <1>9, <1>10

(* The mutex is given back.                                                *)
LEMMA UnlockEffect ==
  ASSUME Machine, NEW t \in Threads, Step(t), Here(t).op = "unlock"
  PROVE  /\ Stepped(t) /\ pc'[t] = pc[t] + 1 /\ UNCHANGED memory
         /\ mutex'.owner = None /\ mutex'.view = cur[t]
         /\ UNCHANGED <<loaded, printed, counted, constructed, race, failed>>
<1>1. UnlockStep(t) /\ Running(t) /\ program' = program
  BY DEF Step, LoadStep, StoreStep, FenceStep, TestAndSetStep, LockStep, PlainStep
<1>2. Machine' /\ Onward /\ pc \in [Threads -> Nat \ {0}]
  BY MachineStep DEF Machine
<1>3. pc'[t] = pc[t] + 1 /\ \A u \in Threads \ {t} : pc'[u] = pc[u]
  BY <1>1, <1>2 DEF UnlockStep, Advance
<1>4. /\ mutex'.owner = None /\ mutex'.view = cur[t] /\ UNCHANGED memory
      /\ UNCHANGED <<loaded, printed, counted, constructed, race, failed>>
  BY <1>1 DEF UnlockStep
<1>5. Stepped(t)
  BY <1>1, <1>2, <1>3, <1>4 DEF Stepped, memory
<1> QED
  BY <1>3, <1>4, <1>5

(* Prints, counts and jumps leave memory alone.                            *)
LEMMA PlainEffect ==
  ASSUME Machine, NEW t \in Threads, Step(t), Here(t).op \in {"ascending", "print", "count", "goto"}
  PROVE  /\ Stepped(t) /\ pc'[t] = (IF Here(t).op = "goto" THEN Here(t).else ELSE pc[t] + 1)
         /\ UNCHANGED memory
         /\ printed' = IF Here(t).op = "print" THEN Append(printed, Here(t).loc) ELSE printed
         /\ ~failed /\ (Here(t).op = "ascending" =>
                          \A j \in 2 .. Len(loaded[t]) : ~(loaded[t][j - 1] > loaded[t][j])) => ~failed'
         /\ UNCHANGED <<loaded, constructed, mutex, race>>
<1>1. PlainStep(t) /\ Running(t) /\ program' = program
  BY DEF Step, LoadStep, StoreStep, FenceStep, TestAndSetStep, LockStep, UnlockStep
<1>2. Machine' /\ Onward /\ pc \in [Threads -> Nat \ {0}]
  BY MachineStep DEF Machine
<1>3. /\ pc'[t] = (IF Here(t).op = "goto" THEN Here(t).else ELSE pc[t] + 1)
      /\ \A u \in Threads \ {t} : pc'[u] = pc[u]
  BY <1>1, <1>2 DEF PlainStep, Advance, Jump
<1>4. /\ UNCHANGED memory
      /\ printed' = IF Here(t).op = "print" THEN Append(printed, Here(t).loc) ELSE printed
      /\ ~failed /\ (Here(t).op = "ascending" =>
                       \A j \in 2 .. Len(loaded[t]) : ~(loaded[t][j - 1] > loaded[t][j])) => ~failed'
      /\ UNCHANGED <<loaded, constructed, mutex, race>>
  BY <1>1 DEF PlainStep
<1>5. Stepped(t)
  BY <1>1, <1>2, <1>3, <1>4 DEF Stepped, memory
<1> QED
  BY <1>3, <1>4, <1>5

--------------------------------------------------------------------------------
(* The singleton, for any threads.                                         *)

(* Where a thread at place p of getInstance, with view v and kept loaded,  *)
(* stands when there are A messages of atm_ and J of instance_.            *)
Fits(p, v, kept, A, J) ==
  /\ p \in 1 .. 13
  /\ p = 9 => J = 1
  /\ p = 10 => J = 2 /\ A = 1
  /\ p \in {6, 11} => A = 2
  /\ p \in {5, 6, 11} /\ A = 2 => v["atm_"] = 2 /\ v["instance_"] = 2
  /\ p \in {2, 7, 10, 12} => v["instance_"] = 2
  /\ kept = IF p \in {3, 8, 13} THEN <<1>> ELSE <<>>

(* The places at which a thread has the mutex.                             *)
Holding == {5, 6, 9, 10, 11}

(* The instance is built once, before atm_ is set, and atm_ brings it.     *)
Built ==
  /\ Last("atm_") \in {1, 2} /\ Last("instance_") \in {1, 2}
  /\ constructed = Last("instance_") - 1
  /\ \A k \in 1 .. Last("atm_") : /\ mem["atm_"][k].val = k - 1
                                  /\ k = 2 => mem["atm_"][k].view["instance_"] = 2
  /\ \A k \in 1 .. Last("instance_") : mem["instance_"][k].val = k - 1
  /\ Last("atm_") = 2 => Last("instance_") = 2

(* Who has the mutex, and what it passes on.                               *)
Guarded ==
  /\ \A t \in Threads : pc[t] \in Holding <=> mutex.owner = t
  /\ mutex.owner = None => Last("instance_") = Last("atm_")
  /\ \A t \in Threads : mutex.owner = t /\ Last("instance_") # Last("atm_") => pc[t] = 10
  /\ mutex.owner = None /\ Last("atm_") = 2 => mutex.view["atm_"] = 2 /\ mutex.view["instance_"] = 2

OnceBuilt ==
  /\ Built /\ Guarded /\ ~race /\ ~failed
  /\ \A t \in Threads : Fits(pc[t], cur[t], loaded[t], Last("atm_"), Last("instance_"))

(* A machine that runs the singleton.                                      *)
SingletonRuns == Machine /\ program.name = "Singleton"

(* Its code.                                                               *)
LEMMA SingletonCode ==
  ASSUME SingletonRuns
  PROVE  /\ Locations = {"atm_", "instance_"} /\ None \notin Threads
         /\ \A t \in Threads : Code(t) = getInstance
<1>1. program \in Programs /\ program.name = "Singleton"
  BY DEF SingletonRuns, Machine
<1>2. program = Singleton(DOMAIN program.code) /\ None \notin DOMAIN program.code
  BY <1>1, ProgramsAssumption DEF Known, WellFormed
<1>3. /\ program.init = [l \in {"atm_", "instance_"} |-> 0]
      /\ program.code = [t \in DOMAIN program.code |-> getInstance]
  <2>1. \A threads : /\ Singleton(threads).init = [l \in {"atm_", "instance_"} |-> 0]
                     /\ Singleton(threads).code = [t \in threads |-> getInstance]
    BY DEF Singleton, Program
  <2> QED
    BY <1>2, <2>1
<1> QED
  BY <1>2, <1>3 DEF Locations, Threads, Code

(* The fields of an instruction.                                           *)
LEMMA Fields ==
  \A op, loc, val, order, else :
    /\ Instruction(op, loc, val, order, else).op = op /\ Instruction(op, loc, val, order, else).loc = loc
    /\ Instruction(op, loc, val, order, else).val = val
    /\ Instruction(op, loc, val, order, else).order = order
    /\ Instruction(op, loc, val, order, else).else = else
BY DEF Instruction

(* The instructions of getInstance.                                        *)
LEMMA getInstanceInstructions ==
  /\ Len(getInstance) = 12
  /\ getInstance[1] = If("atm_", 1, "acq", 4) /\ getInstance[2] = Load("instance_", "na")
  /\ getInstance[3] = Goto(13) /\ getInstance[4] = Lock
  /\ getInstance[5] = If("atm_", 1, "rlx", 9) /\ getInstance[6] = Unlock
  /\ getInstance[7] = Load("instance_", "na") /\ getInstance[8] = Goto(13)
  /\ getInstance[9] = Construct("instance_") /\ getInstance[10] = Store("atm_", 1, "rel")
  /\ getInstance[11] = Unlock /\ getInstance[12] = Load("instance_", "na")
BY DEF getInstance

(* Where its threads and memory stand.                                     *)
LEMMA SingletonViews ==
  ASSUME SingletonRuns, Built
  PROVE  /\ Last("atm_") = Len(mem["atm_"]) /\ Last("instance_") = Len(mem["instance_"])
         /\ \A t \in Threads : /\ cur[t]["atm_"] \in 1 .. Last("atm_")
                               /\ cur[t]["instance_"] \in 1 .. Last("instance_")
         /\ mutex.view["atm_"] \in 1 .. Last("atm_") /\ mutex.view["instance_"] \in 1 .. Last("instance_")
<1>1. Locations = {"atm_", "instance_"}
  BY SingletonCode
<1>2. Last("atm_") = Len(mem["atm_"]) /\ Last("instance_") = Len(mem["instance_"])
  BY DEF Last
<1>3. \A t \in Threads : Within(cur[t], mem)
  BY Zenon DEF SingletonRuns, Machine, ViewsWithin
<1>4. Within(mutex.view, mem)
  BY Zenon DEF SingletonRuns, Machine
<1>5. Last("atm_") \in Nat /\ Last("instance_") \in Nat
  BY DEF Built
<1>6. \A v : Within(v, mem) => v["atm_"] \in 1 .. Last("atm_") /\ v["instance_"] \in 1 .. Last("instance_")
  BY <1>1, <1>2, <1>5 DEF Within, View
<1> QED
  BY <1>2, <1>3, <1>4, <1>6

(* A step that leaves memory and the mutex alone.                          *)
LEMMA QuietStep ==
  ASSUME SingletonRuns, OnceBuilt, NEW t \in Threads, Stepped(t), mem' = mem, mutex' = mutex,
         constructed' = constructed, ~race', ~failed', pc[t] # 10,
         pc'[t] \in Holding <=> pc[t] \in Holding,
         Fits(pc'[t], cur'[t], loaded'[t], Last("atm_"), Last("instance_"))
  PROVE  OnceBuilt'
<1>1. /\ Last("atm_")' = Last("atm_") /\ Last("instance_")' = Last("instance_") /\ Threads' = Threads
      /\ \A u \in Threads \ {t} : cur'[u] = cur[u] /\ pc'[u] = pc[u] /\ loaded'[u] = loaded[u]
  BY DEF Stepped, Threads, Last
<1>2. Built'
  BY <1>1 DEF OnceBuilt, Built
<1>3. \A u \in Threads' : Fits(pc[u], cur[u], loaded[u], Last("atm_"), Last("instance_"))'
  <2> SUFFICES ASSUME NEW u \in Threads
               PROVE  Fits(pc'[u], cur'[u], loaded'[u], Last("atm_"), Last("instance_"))
    BY <1>1 DEF Fits
  <2>1. CASE u = t
    BY <2>1
  <2>2. CASE u # t
    BY <1>1, <2>2 DEF OnceBuilt
  <2> QED
    BY <2>1, <2>2
<1>4. Guarded'
  <2>1. \A u \in Threads : pc'[u] \in Holding <=> mutex.owner = u
    BY <1>1 DEF OnceBuilt, Guarded
  <2>2. \A u \in Threads : mutex.owner = u /\ Last("instance_") # Last("atm_") => pc'[u] = 10
    BY <1>1 DEF OnceBuilt, Guarded
  <2> QED
    BY <1>1, <2>1, <2>2 DEF OnceBuilt, Guarded, Holding
<1> QED
  BY <1>2, <1>3, <1>4 DEF OnceBuilt

(* Views of memory after a step that leaves it alone.                      *)
LEMMA QuietViews ==
  ASSUME SingletonRuns, Built, NEW t \in Threads, Stepped(t), mem' = mem
  PROVE  /\ cur'[t]["atm_"] \in 1 .. Last("atm_") /\ cur'[t]["instance_"] \in 1 .. Last("instance_")
         /\ cur[t]["atm_"] <= cur'[t]["atm_"] /\ cur[t]["instance_"] <= cur'[t]["instance_"]
<1>1. Locations = {"atm_", "instance_"}
  BY SingletonCode
<1>2. Locations' = Locations /\ Threads' = Threads
  BY DEF Stepped, Locations, Threads
<1>3. Within(cur[t], mem)'
  BY <1>2, Zenon DEF Stepped, Machine, ViewsWithin
<1>4. Last("atm_") \in Nat /\ Last("instance_") \in Nat
  BY DEF Built
<1>5. cur'[t]["atm_"] \in 1 .. Last("atm_") /\ cur'[t]["instance_"] \in 1 .. Last("instance_")
  BY <1>1, <1>2, <1>3, <1>4 DEF Within, View, Last
<1>6. cur[t]["atm_"] <= cur'[t]["atm_"] /\ cur[t]["instance_"] <= cur'[t]["instance_"]
  BY <1>1 DEF Stepped, Onward
<1> QED
  BY <1>5, <1>6

(* A step of the mutex's owner, before or after it, need not be looked at  *)
(* by the others.                                                          *)
LEMMA OthersFit ==
  ASSUME OnceBuilt, NEW t \in Threads, Stepped(t), NEW A, NEW J,
         \/ A = Last("atm_") /\ J = Last("instance_")
         \/ mutex.owner = t
  PROVE  \A u \in Threads \ {t} : Fits(pc'[u], cur'[u], loaded'[u], A, J)
<1> SUFFICES ASSUME NEW u \in Threads \ {t} PROVE Fits(pc[u], cur[u], loaded[u], A, J)
  BY DEF Stepped
<1>1. Fits(pc[u], cur[u], loaded[u], Last("atm_"), Last("instance_"))
  BY DEF OnceBuilt
<1>2. CASE A = Last("atm_") /\ J = Last("instance_")
  BY <1>1, <1>2
<1>3. CASE mutex.owner = t
  <2>1. pc[u] \notin Holding
    BY <1>3 DEF OnceBuilt, Guarded
  <2> QED
    BY <1>1, <2>1 DEF Fits, Holding
<1> QED
  BY <1>2, <1>3

(* A step of the singleton builds the instance once or leaves it built.    *)
LEMMA SingletonStep ==
  ASSUME SingletonRuns, OnceBuilt, NEW t \in Threads, Step(t)
  PROVE  OnceBuilt'
<1>1. Locations = {"atm_", "instance_"} /\ None \notin Threads /\ Code(t) = getInstance
  BY SingletonCode
<1>2. Running(t) /\ Machine /\ pc[t] \in 1 .. 13
  BY DEF Step, OnceBuilt, Fits, SingletonRuns
<1>3. pc[t] \in 1 .. 12 /\ Here(t) = getInstance[pc[t]]
  <2>1. Len(getInstance) = 12
    BY getInstanceInstructions
  <2>2. pc[t] <= 12
    BY <1>1, <1>2, <2>1 DEF Running
  <2> QED
    BY <1>1, <1>2, <2>2 DEF Here
<1> DEFINE A == Last("atm_")
           J == Last("instance_")
<1>4. /\ Built /\ Guarded /\ ~race /\ ~failed
      /\ Fits(pc[t], cur[t], loaded[t], A, J)
      /\ A \in {1, 2} /\ J \in {1, 2}
  BY DEF OnceBuilt, Built
<1>5. /\ cur[t]["atm_"] \in 1 .. A /\ cur[t]["instance_"] \in 1 .. J
      /\ mutex.view["atm_"] \in 1 .. A /\ mutex.view["instance_"] \in 1 .. J
  BY <1>4, SingletonViews
<1>6. ASSUME Stepped(t), mem' = mem
      PROVE  /\ cur'[t]["atm_"] \in 1 .. A /\ cur'[t]["instance_"] \in 1 .. J
             /\ cur[t]["atm_"] <= cur'[t]["atm_"] /\ cur[t]["instance_"] <= cur'[t]["instance_"]
  BY <1>4, <1>6, QuietViews
<1>7. /\ \A k \in 1 .. A : /\ mem["atm_"][k].val = k - 1
                           /\ k = 2 => mem["atm_"][k].view["instance_"] = 2
      /\ \A k \in 1 .. J : mem["instance_"][k].val = k - 1
      /\ A = 2 => J = 2
  BY <1>4 DEF Built
<1>8. CASE pc[t] = 1
  <2>1. Here(t) = If("atm_", 1, "acq", 4)
    BY <1>3, <1>8, getInstanceInstructions
  <2>2. /\ Here(t).op = "if" /\ Here(t).loc = "atm_" /\ Here(t).val = 1
        /\ Here(t).order = "acq" /\ Here(t).else = 4
    BY <2>1, Fields DEF If
  <2>3. /\ Stepped(t) /\ mem' = mem /\ constructed' = constructed /\ mutex' = mutex
        /\ ~race /\ ~Races(t, "atm_", "acq") => ~race'
    BY <1>2, <2>2, LoadEffect
  <2>4. PICK place : Reads(t, Here(t), place)
    BY <1>2, <2>2, LoadEffect
  <2>5. /\ place \in 1 .. A
        /\ mem["atm_"][place].view["instance_"] <= cur'[t]["instance_"]
        /\ pc'[t] = IF mem["atm_"][place].val # 1 THEN 4 ELSE 2
        /\ loaded'[t] = loaded[t] /\ ~failed'
    BY <1>1, <1>4, <1>8, <2>2, <2>4 DEF Reads
  <2>6. ~race' /\ ~failed'
    BY <1>4, <2>3, <2>5 DEF Races
  <2>7. \/ pc'[t] = 4
        \/ pc'[t] = 2 /\ cur'[t]["instance_"] = 2
    <3>1. mem["atm_"][place].val = place - 1 /\ (place = 2 => mem["atm_"][place].view["instance_"] = 2)
      <4>1. place \in 1 .. A
        BY <2>5
      <4> QED
        BY <1>7, <4>1
    <3>2. place \in {1, 2} /\ (place = 2 => J = 2) /\ cur'[t]["instance_"] \in 1 .. J
      BY <1>4, <1>6, <1>7, <2>3, <2>5
    <3> QED
      BY <1>4, <2>5, <3>1, <3>2
  <2>8. Fits(pc'[t], cur'[t], loaded'[t], A, J)
    BY <1>4, <1>8, <2>5, <2>7 DEF Fits
  <2>9. pc'[t] \in Holding <=> pc[t] \in Holding
    BY <1>8, <2>7 DEF Holding
  <2> QED
    BY <1>8, <2>3, <2>6, <2>8, <2>9, QuietStep
<1>9. CASE pc[t] \in {2, 7, 12}
  <2>1. Here(t) = Load("instance_", "na")
    BY <1>3, <1>9, getInstanceInstructions
  <2>2. Here(t).op = "load" /\ Here(t).loc = "instance_" /\ Here(t).order = "na"
    BY <2>1, Fields DEF Load
  <2>3. /\ Stepped(t) /\ mem' = mem /\ constructed' = constructed /\ mutex' = mutex
        /\ ~race /\ ~Races(t, "instance_", "na") => ~race'
    BY <1>2, <2>2, LoadEffect
  <2>4. PICK place : Reads(t, Here(t), place)
    BY <1>2, <2>2, LoadEffect
  <2>5. /\ place \in 1 .. J /\ cur[t]["instance_"] <= place
        /\ pc'[t] = pc[t] + 1
        /\ loaded'[t] = Append(loaded[t], mem["instance_"][place].val) /\ ~failed'
    BY <1>4, <2>2, <2>4 DEF Reads
  <2>6. cur[t]["instance_"] = 2 /\ loaded[t] = <<>>
    BY <1>4, <1>9 DEF Fits
  <2>7. J = 2 /\ place = 2 /\ mem["instance_"][place].val = 1
    BY <1>4, <1>5, <1>7, <2>5, <2>6
  <2>8. ~race' /\ ~failed'
    BY <1>4, <2>3, <2>5, <2>6, <2>7 DEF Races
  <2>9. pc'[t] \in {3, 8, 13} /\ loaded'[t] = <<1>>
    <3>1. Append(<<>>, 1) = <<1>>
      OBVIOUS
    <3> QED
      BY <1>9, <2>5, <2>6, <2>7, <3>1
  <2>10. Fits(pc'[t], cur'[t], loaded'[t], A, J)
    BY <2>9 DEF Fits
  <2>11. pc'[t] \in Holding <=> pc[t] \in Holding
    BY <1>9, <2>9 DEF Holding
  <2> QED
    BY <1>9, <2>3, <2>8, <2>10, <2>11, QuietStep
<1>10. CASE pc[t] \in {3, 8}
  <2>1. Here(t) = Goto(13)
    BY <1>3, <1>10, getInstanceInstructions
  <2>2. Here(t).op = "goto" /\ Here(t).else = 13
    BY <2>1, Fields DEF Goto
  <2>3. /\ Stepped(t) /\ mem' = mem /\ constructed' = constructed /\ mutex' = mutex
        /\ pc'[t] = 13 /\ loaded' = loaded /\ race' = race /\ ~failed'
    BY <1>2, <1>4, <2>2, PlainEffect DEF memory
  <2>4. Fits(pc'[t], cur'[t], loaded'[t], A, J)
    BY <1>4, <1>10, <2>3 DEF Fits
  <2>5. pc'[t] \in Holding <=> pc[t] \in Holding
    BY <1>10, <2>3 DEF Holding
  <2> QED
    BY <1>4, <1>10, <2>3, <2>4, <2>5, QuietStep
<1>11. CASE pc[t] = 5
  <2>1. Here(t) = If("atm_", 1, "rlx", 9)
    BY <1>3, <1>11, getInstanceInstructions
  <2>2. /\ Here(t).op = "if" /\ Here(t).loc = "atm_" /\ Here(t).val = 1
        /\ Here(t).order = "rlx" /\ Here(t).else = 9
    BY <2>1, Fields DEF If
  <2>3. /\ Stepped(t) /\ mem' = mem /\ constructed' = constructed /\ mutex' = mutex
        /\ ~race /\ ~Races(t, "atm_", "rlx") => ~race'
    BY <1>2, <2>2, LoadEffect
  <2>4. PICK place : Reads(t, Here(t), place)
    BY <1>2, <2>2, LoadEffect
  <2>5. /\ place \in 1 .. A /\ cur[t]["atm_"] <= place
        /\ pc'[t] = IF mem["atm_"][place].val # 1 THEN 9 ELSE 6
        /\ loaded'[t] = loaded[t] /\ ~failed'
    BY <1>4, <1>11, <2>2, <2>4 DEF Reads
  <2>6. ~race' /\ ~failed'
    BY <1>4, <2>3, <2>5 DEF Races
  <2>7. A = 2 => cur[t]["atm_"] = 2 /\ cur[t]["instance_"] = 2
    BY <1>4, <1>11 DEF Fits
  <2>8. \/ pc'[t] = 9 /\ A = 1
        \/ pc'[t] = 6 /\ A = 2 /\ cur'[t]["instance_"] = 2 /\ cur'[t]["atm_"] = 2
    <3>1. mem["atm_"][place].val = place - 1
      <4>1. place \in 1 .. A
        BY <2>5
      <4> QED
        BY <1>7, <4>1
    <3>2. A = 2 => /\ J = 2 /\ cur'[t]["atm_"] = 2 /\ cur'[t]["instance_"] = 2
      BY <1>4, <1>6, <1>7, <2>3, <2>7
    <3>3. place = A
      BY <1>4, <1>5, <2>5, <2>7
    <3> QED
      BY <1>4, <2>5, <3>1, <3>2, <3>3
  <2>9. J = A
    <3>1. mutex.owner = t
      BY <1>4, <1>11 DEF Guarded, Holding
    <3> QED
      BY <1>4, <1>11, <3>1 DEF Guarded
  <2>10. Fits(pc'[t], cur'[t], loaded'[t], A, J)
    BY <1>4, <1>11, <2>5, <2>8, <2>9 DEF Fits
  <2>11. pc'[t] \in Holding <=> pc[t] \in Holding
    BY <1>11, <2>8 DEF Holding
  <2> QED
    BY <1>11, <2>3, <2>6, <2>10, <2>11, QuietStep
<1>12. CASE pc[t] = 4
  <2>1. Here(t) = Lock
    BY <1>3, <1>12, getInstanceInstructions
  <2>2. Here(t).op = "lock"
    BY <2>1, Fields DEF Lock
  <2>3. /\ Stepped(t) /\ mem' = mem /\ constructed' = constructed /\ pc'[t] = 5
        /\ mutex.owner = None /\ mutex'.owner = t /\ loaded' = loaded /\ race' = race /\ failed' = failed
        /\ mutex.view["atm_"] <= cur'[t]["atm_"] /\ mutex.view["instance_"] <= cur'[t]["instance_"]
    BY <1>1, <1>2, <1>12, <2>2, LockEffect
  <2>4. A' = A /\ J' = J /\ Threads' = Threads
    BY <2>3 DEF Last, Stepped, Threads
  <2>5. A = 2 => cur'[t]["atm_"] = 2 /\ cur'[t]["instance_"] = 2
    <3>1. A = 2 => mutex.view["atm_"] = 2 /\ mutex.view["instance_"] = 2
      BY <1>4, <2>3 DEF Guarded
    <3> QED
      BY <1>4, <1>6, <2>3, <3>1
  <2>6. Fits(pc'[t], cur'[t], loaded'[t], A, J)
    BY <1>4, <1>12, <2>3, <2>5 DEF Fits
  <2>7. \A u \in Threads \ {t} : Fits(pc'[u], cur'[u], loaded'[u], A, J)
    BY <2>3, OthersFit
  <2>8. Built'
    BY <1>4, <2>3, <2>4 DEF Built
  <2>9. Guarded'
    <3>1. \A u \in Threads : pc'[u] \in Holding <=> mutex'.owner = u
      BY <1>1, <1>4, <1>12, <2>3 DEF Guarded, Stepped, Holding
    <3>2. A = J /\ mutex'.owner # None
      BY <1>1, <1>4, <2>3 DEF Guarded
    <3> QED
      BY <2>3, <2>4, <3>1, <3>2 DEF Guarded, Holding
  <2> QED
    BY <1>4, <2>3, <2>4, <2>6, <2>7, <2>8, <2>9 DEF OnceBuilt, Fits
<1>13. CASE pc[t] \in {6, 11}
  <2>1. Here(t) = Unlock
    BY <1>3, <1>13, getInstanceInstructions
  <2>2. Here(t).op = "unlock"
    BY <2>1, Fields DEF Unlock
  <2>3. /\ Stepped(t) /\ mem' = mem /\ cur' = cur /\ constructed' = constructed /\ pc'[t] = pc[t] + 1
        /\ mutex'.owner = None /\ mutex'.view = cur[t]
        /\ loaded' = loaded /\ race' = race /\ failed' = failed
    BY <1>2, <2>2, UnlockEffect DEF memory
  <2>4. A' = A /\ J' = J /\ Threads' = Threads
    BY <2>3 DEF Last, Stepped, Threads
  <2>5. A = 2 /\ J = 2 /\ cur[t]["atm_"] = 2 /\ cur[t]["instance_"] = 2 /\ loaded[t] = <<>>
    BY <1>4, <1>7, <1>13 DEF Fits
  <2>6. Fits(pc'[t], cur'[t], loaded'[t], A, J)
    BY <1>13, <2>3, <2>5 DEF Fits
  <2>7. \A u \in Threads \ {t} : Fits(pc'[u], cur'[u], loaded'[u], A, J)
    BY <2>3, OthersFit
  <2>8. Built'
    BY <1>4, <2>3, <2>4 DEF Built
  <2>9. Guarded'
    <3>1. \A u \in Threads : pc'[u] \notin Holding /\ u # None
      <4>1. \A u \in Threads : u # None
        BY <1>1
      <4>2. \A u \in Threads \ {t} : pc'[u] \notin Holding
        BY <1>4, <1>13, <2>3 DEF Guarded, Stepped, Holding
      <4>3. pc'[t] \notin Holding
        BY <1>13, <2>3 DEF Holding
      <4> QED
        BY <4>1, <4>2, <4>3
    <3> QED
      BY <2>3, <2>4, <2>5, <3>1 DEF Guarded, Holding
  <2> QED
    BY <1>4, <2>3, <2>4, <2>6, <2>7, <2>8, <2>9 DEF OnceBuilt, Fits
<1>14. CASE pc[t] = 9
  <2>1. Here(t) = Construct("instance_")
    BY <1>3, <1>14, getInstanceInstructions
  <2>2. Here(t).op = "construct" /\ Here(t).loc = "instance_" /\ Here(t).order = "na"
    BY <2>1, Fields DEF Construct
  <2>3. /\ Stepped(t) /\ constructed' = constructed + 1 /\ pc'[t] = 10 /\ mutex' = mutex
        /\ loaded' = loaded /\ failed' = failed
        /\ ~race /\ ~Races(t, "instance_", "na") => ~race'
        /\ Writes(t, "instance_", constructed + 1, "na")
        /\ cur'[t]["instance_"] = J + 1
    BY <1>2, <1>14, <2>2, StoreEffect
  <2>4. J = 1 /\ A = 1 /\ loaded[t] = <<>> /\ mutex.owner = t
    <3>1. J = 1 /\ loaded[t] = <<>>
      BY <1>4, <1>14 DEF Fits
    <3>2. mutex.owner = t
      BY <1>4, <1>14 DEF Guarded, Holding
    <3> QED
      BY <1>4, <1>7, <3>1, <3>2
  <2>5. ~race'
    BY <1>4, <1>5, <2>3, <2>4 DEF Races
  <2>6. /\ Len(mem'["instance_"]) = 2 /\ mem'["atm_"] = mem["atm_"]
        /\ mem'["instance_"][1] = mem["instance_"][1] /\ mem'["instance_"][2].val = constructed + 1
    BY <1>1, <2>3, <2>4 DEF Writes
  <2>7. A' = A /\ J' = 2 /\ Threads' = Threads
    BY <2>3, <2>6 DEF Last, Stepped, Threads
  <2>8. constructed = 0
    BY <1>4, <2>4 DEF Built
  <2>9. Built'
    <3>1. mem["instance_"][1].val = 0
      BY <1>7, <2>4
    <3>2. \A k \in 1 .. 2 : mem'["instance_"][k].val = k - 1
      BY <2>6, <2>8, <3>1
    <3>3. mem'["atm_"][1].val = 0
      BY <1>4, <2>4, <2>6 DEF Built
    <3>4. Last("atm_")' = 1 /\ Last("instance_")' = 2 /\ constructed' = 1
      BY <2>3, <2>4, <2>7, <2>8
    <3> HIDE DEF A, J
    <3> QED
      BY <3>2, <3>3, <3>4 DEF Built
  <2>10. Fits(pc'[t], cur'[t], loaded'[t], 1, 2)
    BY <2>3, <2>4 DEF Fits
  <2>11. \A u \in Threads \ {t} : Fits(pc'[u], cur'[u], loaded'[u], 1, 2)
    BY <2>3, <2>4, OthersFit
  <2>12. Guarded'
    <3>1. \A u \in Threads : pc'[u] \in Holding <=> mutex.owner = u
      BY <1>4, <1>14, <2>3 DEF Guarded, Stepped, Holding
    <3>2. mutex.owner # None
      BY <1>1, <2>4
    <3> QED
      BY <2>3, <2>4, <2>7, <3>1, <3>2 DEF Guarded, Holding
  <2> QED
    BY <1>4, <2>3, <2>4, <2>5, <2>7, <2>9, <2>10, <2>11, <2>12 DEF OnceBuilt, Fits
<1>15. CASE pc[t] = 10
  <2>1. Here(t) = Store("atm_", 1, "rel")
    BY <1>3, <1>15, getInstanceInstructions
  <2>2. Here(t).op = "store" /\ Here(t).loc = "atm_" /\ Here(t).val = 1 /\ Here(t).order = "rel"
    BY <2>1, Fields DEF Store
  <2>3. /\ Stepped(t) /\ constructed' = constructed /\ pc'[t] = 11 /\ mutex' = mutex
        /\ loaded' = loaded /\ failed' = failed
        /\ ~race /\ ~Races(t, "atm_", "rel") => ~race'
        /\ Writes(t, "atm_", 1, "rel")
        /\ cur'[t]["atm_"] = A + 1
    BY <1>2, <1>15, <2>2, StoreEffect
  <2>4. J = 2 /\ A = 1 /\ loaded[t] = <<>> /\ cur[t]["instance_"] = 2 /\ mutex.owner = t
    <3>1. J = 2 /\ A = 1 /\ loaded[t] = <<>> /\ cur[t]["instance_"] = 2
      BY <1>4, <1>15 DEF Fits
    <3>2. mutex.owner = t
      BY <1>4, <1>15 DEF Guarded, Holding
    <3> QED
      BY <3>1, <3>2
  <2>5. ~race'
    BY <1>4, <2>3 DEF Races
  <2>6. /\ Len(mem'["atm_"]) = 2 /\ mem'["instance_"] = mem["instance_"]
        /\ mem'["atm_"][1] = mem["atm_"][1] /\ mem'["atm_"][2].val = 1
        /\ cur'[t]["instance_"] <= mem'["atm_"][2].view["instance_"]
    BY <1>1, <2>3, <2>4 DEF Writes
  <2>7. A' = 2 /\ J' = J /\ Threads' = Threads /\ Locations' = Locations
    BY <2>3, <2>6 DEF Last, Stepped, Threads, Locations
  <2>8. cur'[t]["instance_"] = 2 /\ mem'["atm_"][2].view["instance_"] = 2
    <3>1. ViewsWithin'
      BY <2>3, Zenon DEF Stepped, Machine
    <3>2. Within(cur[t], mem)' /\ (\A k \in 1 .. 2 : Within(mem'["atm_"][k].view, mem'))
      BY <1>1, <2>6, <2>7, <3>1 DEF ViewsWithin, Within, View
    <3>3. Len(mem'["instance_"]) = 2
      BY <2>4, <2>6 DEF Last
    <3>4. 2 \in 1 .. 2
      OBVIOUS
    <3>5. cur'[t]["instance_"] \in 1 .. 2 /\ mem'["atm_"][2].view["instance_"] \in 1 .. 2
      <4>1. \A v : Within(v, mem') => v["instance_"] \in 1 .. 2
        <5>1. "instance_" \in Locations
          BY <1>1
        <5>2. \A v : Within(v, mem') => /\ v["instance_"] \in Nat /\ 1 <= v["instance_"]
                                        /\ v["instance_"] <= Len(mem'["instance_"])
          BY <5>1 DEF Within, View
        <5> QED
          BY <3>3, <5>2
      <4>2. Within(cur'[t], mem')
        BY <2>7, <3>2 DEF Within, View
      <4>3. Within(mem'["atm_"][2].view, mem')
        BY <3>2, <3>4
      <4> QED
        BY <4>1, <4>2, <4>3
    <3>6. 2 <= cur'[t]["instance_"]
      BY <1>1, <2>3, <2>4 DEF Stepped, Onward
    <3> QED
      BY <2>6, <3>5, <3>6
  <2>9. Built'
    <3>1. mem["atm_"][1].val = 0
      BY <1>7, <2>4
    <3>2. \A k \in 1 .. 2 : mem'["atm_"][k].val = k - 1
      BY <2>6, <3>1
    <3> QED
      BY <1>4, <2>3, <2>4, <2>6, <2>7, <2>8, <3>2 DEF Built
  <2>10. Fits(pc'[t], cur'[t], loaded'[t], 2, 2)
    BY <2>3, <2>4, <2>8 DEF Fits
  <2>11. \A u \in Threads \ {t} : Fits(pc'[u], cur'[u], loaded'[u], 2, 2)
    BY <2>3, <2>4, OthersFit
  <2>12. Guarded'
    <3>1. \A u \in Threads : pc'[u] \in Holding <=> mutex.owner = u
      BY <1>4, <1>15, <2>3 DEF Guarded, Stepped, Holding
    <3>2. mutex.owner # None
      BY <1>1, <2>4
    <3> QED
      BY <2>3, <2>4, <2>7, <3>1, <3>2 DEF Guarded, Holding
  <2> QED
    BY <1>4, <2>3, <2>4, <2>5, <2>7, <2>9, <2>10, <2>11, <2>12 DEF OnceBuilt, Fits
<1> QED
  BY <1>3, <1>8, <1>9, <1>10, <1>11, <1>12, <1>13, <1>14, <1>15

(* At first nothing is built.                                              *)
LEMMA SingletonInit ==
  ASSUME Init, SingletonRuns
  PROVE  OnceBuilt
<1>1. Locations = {"atm_", "instance_"} /\ None \notin Threads
  BY SingletonCode
<1>2. /\ pc = [t \in Threads |-> 1] /\ loaded = [t \in Threads |-> <<>>] /\ constructed = 0
      /\ mutex = [owner |-> None, view |-> Start] /\ ~race /\ ~failed
      /\ mem = [l \in Locations |-> <<[val |-> program.init[l], view |-> Start]>>]
  BY DEF Init
<1>3. program.init["atm_"] = 0 /\ program.init["instance_"] = 0
  <2>1. program \in Programs /\ program.name = "Singleton"
    BY DEF SingletonRuns, Machine
  <2>2. program = Singleton(DOMAIN program.code)
    BY <2>1, ProgramsAssumption DEF Known
  <2>3. \A threads : Singleton(threads).init = [l \in {"atm_", "instance_"} |-> 0]
    BY DEF Singleton, Program
  <2> QED
    BY <2>2, <2>3
<1>4. /\ Last("atm_") = 1 /\ Last("instance_") = 1
      /\ mem["atm_"][1].val = 0 /\ mem["instance_"][1].val = 0
  BY <1>1, <1>2, <1>3 DEF Last
<1>5. Built
  <2>1. \A k \in 1 .. 1 : k = 1 /\ 1 - 1 = 0
    OBVIOUS
  <2>2. /\ \A k \in 1 .. 1 : mem["atm_"][k].val = k - 1 /\ (k = 2 => mem["atm_"][k].view["instance_"] = 2)
        /\ \A k \in 1 .. 1 : mem["instance_"][k].val = k - 1
    BY <1>4, <2>1
  <2>3. /\ \A k \in 1 .. Last("atm_") : /\ mem["atm_"][k].val = k - 1
                                       /\ k = 2 => mem["atm_"][k].view["instance_"] = 2
        /\ \A k \in 1 .. Last("instance_") : mem["instance_"][k].val = k - 1
    BY <1>4, <2>2, Zenon
  <2>4. constructed = Last("instance_") - 1 /\ Last("atm_") # 2
    BY <1>2, <1>4
  <2> QED
    BY <1>4, <2>3, <2>4 DEF Built
<1>6. Guarded
  BY <1>1, <1>2, <1>4 DEF Guarded, Holding
<1>7. \A t \in Threads : Fits(pc[t], cur[t], loaded[t], 1, 1)
  BY <1>2 DEF Fits
<1> QED
  BY <1>2, <1>4, <1>5, <1>6, <1>7 DEF OnceBuilt

--------------------------------------------------------------------------------
(* Sequentially consistent programs.                                       *)

(* What is read last.                                                      *)
LastValue(l) == mem[l][Last(l)].val

(* A sequentially consistent load reads the last message.                  *)
LEMMA ReadsLast ==
  ASSUME NEW t, NEW i, NEW place, Reads(t, i, place), i.order = "sc"
  PROVE  mem[i.loc][place].val = LastValue(i.loc)
BY DEF Reads, LastValue

(* The value stored by a sequentially consistent store is the last.        *)
LEMMA StoresLast ==
  ASSUME Machine, NEW t \in Threads, Step(t), NEW l, NEW val, Here(t) = Store(l, val, "sc")
  PROVE  /\ Stepped(t) /\ pc'[t] = pc[t] + 1
         /\ LastValue(l)' = val
         /\ \A k \in Locations \ {l} : LastValue(k)' = LastValue(k)
         /\ ~race => ~race'
         /\ ~failed => ~failed'
<1>1. Here(t).op = "store" /\ Here(t).loc = l /\ Here(t).val = val /\ Here(t).order = "sc"
  BY Fields DEF Store
<1>2. /\ Stepped(t) /\ pc'[t] = pc[t] + 1 /\ Writes(t, l, val, "sc") /\ failed' = failed
      /\ ~race /\ ~Races(t, l, "sc") => ~race'
  BY <1>1, StoreEffect
<1>3. /\ \A k \in Locations \ {l} : mem'[k] = mem[k]
      /\ mem'[l][Len(mem'[l])].val = val
  BY <1>2 DEF Writes
<1> QED
  BY <1>2, <1>3 DEF LastValue, Last, Races

(* A branch goes by the last value.                                        *)
LEMMA BranchesByLast ==
  ASSUME Machine, NEW t \in Threads, Step(t), NEW l, NEW val, NEW else, Here(t) = If(l, val, "sc", else)
  PROVE  /\ Stepped(t) /\ mem' = mem
         /\ pc'[t] = IF LastValue(l) # val THEN else ELSE pc[t] + 1
         /\ ~race => ~race'
         /\ ~failed => ~failed'
<1>1. Here(t).op = "if" /\ Here(t).loc = l /\ Here(t).val = val /\ Here(t).order = "sc" /\ Here(t).else = else
  BY Fields DEF If
<1>2. /\ Stepped(t) /\ mem' = mem
      /\ ~race /\ ~Races(t, l, "sc") => ~race'
  BY <1>1, LoadEffect
<1>3. PICK place : Reads(t, Here(t), place)
  BY <1>1, LoadEffect
<1>4. /\ place = Last(l) /\ (~failed => ~failed')
      /\ pc'[t] = IF mem[l][place].val # val THEN else ELSE pc[t] + 1
  BY <1>1, <1>3 DEF Reads
<1> QED
  BY <1>2, <1>4 DEF LastValue, Races

(* So does an assert.                                                      *)
LEMMA AssertsLast ==
  ASSUME Machine, NEW t \in Threads, Step(t), NEW l, NEW val, Here(t) = Assert(l, val, "sc")
  PROVE  /\ Stepped(t) /\ mem' = mem /\ pc'[t] = pc[t] + 1
         /\ ~race => ~race'
         /\ ~failed /\ LastValue(l) = val => ~failed'
<1>1. Here(t).op = "assert" /\ Here(t).loc = l /\ Here(t).val = val /\ Here(t).order = "sc"
  BY Fields DEF Assert
<1>2. /\ Stepped(t) /\ mem' = mem
      /\ ~race /\ ~Races(t, l, "sc") => ~race'
  BY <1>1, LoadEffect
<1>3. PICK place : Reads(t, Here(t), place)
  BY <1>1, LoadEffect
<1>4. /\ place = Last(l) /\ pc'[t] = pc[t] + 1
      /\ ~failed /\ mem[l][place].val = val => ~failed'
  BY <1>1, <1>3 DEF Reads
<1> QED
  BY <1>2, <1>4 DEF LastValue, Races

--------------------------------------------------------------------------------
(* noAssertForever.                                                        *)

(* The store to y comes after the one to x.                                *)
NeverAsserts ==
  /\ pc["t_store"] \in 1 .. 3 /\ pc["t_load"] \in 1 .. 3
  /\ pc["t_store"] >= 2 => LastValue("x") = 1
  /\ pc["t_store"] <= 2 => LastValue("y") = 0
  /\ pc["t_load"] = 2 => pc["t_store"] = 3
  /\ ~race /\ ~failed

NeverAssertsRuns == Machine /\ program.name = "noAssertForever"

(* Its code.                                                               *)
LEMMA NeverAssertsCode ==
  ASSUME NeverAssertsRuns
  PROVE  /\ program.init = [l \in {"x", "y"} |-> 0]
         /\ Locations = {"x", "y"} /\ Threads = {"t_store", "t_load"}
         /\ Code("t_store") = <<Store("x", 1, "sc"), Store("y", 2, "sc")>>
         /\ Code("t_load") = <<If("y", 2, "sc", 3), Assert("x", 1, "sc")>>
<1>1. program = noAssertForever
  <2>1. program \in Programs /\ program.name = "noAssertForever"
    BY DEF NeverAssertsRuns, Machine
  <2> QED
    BY <2>1, ProgramsAssumption DEF Known
<1>2. /\ noAssertForever.init = [l \in {"x", "y"} |-> 0]
      /\ noAssertForever.code = [t_store |-> <<Store("x", 1, "sc"), Store("y", 2, "sc")>>,
                                 t_load |-> <<If("y", 2, "sc", 3), Assert("x", 1, "sc")>>]
  BY DEF noAssertForever, Program
<1> QED
  BY <1>1, <1>2 DEF Locations, Threads, Code

(* At first.                                                               *)
LEMMA NeverAssertsInit ==
  ASSUME Init, NeverAssertsRuns
  PROVE  NeverAsserts
<1>1. /\ program.init = [l \in {"x", "y"} |-> 0]
      /\ Locations = {"x", "y"} /\ Threads = {"t_store", "t_load"}
  BY NeverAssertsCode
<1>2. /\ pc = [t \in Threads |-> 1] /\ ~race /\ ~failed
      /\ mem = [l \in Locations |-> <<[val |-> program.init[l], view |-> Start]>>]
  BY DEF Init
<1>3. LastValue("y") = 0
  BY <1>1, <1>2 DEF LastValue, Last
<1> QED
  BY <1>1, <1>2, <1>3 DEF NeverAsserts

(* Every step.                                                             *)
LEMMA NeverAssertsStep ==
  ASSUME NeverAssertsRuns, NeverAsserts, NEW t \in Threads, Step(t)
  PROVE  NeverAsserts'
<1>1. /\ Locations = {"x", "y"} /\ Threads = {"t_store", "t_load"}
      /\ Code("t_store") = <<Store("x", 1, "sc"), Store("y", 2, "sc")>>
      /\ Code("t_load") = <<If("y", 2, "sc", 3), Assert("x", 1, "sc")>>
  BY NeverAssertsCode
<1>2. Machine /\ Running(t)
  BY DEF NeverAssertsRuns, Step
<1>3. \/ t = "t_store" /\ pc[t] = 1 /\ Here(t) = Store("x", 1, "sc")
      \/ t = "t_store" /\ pc[t] = 2 /\ Here(t) = Store("y", 2, "sc")
      \/ t = "t_load" /\ pc[t] = 1 /\ Here(t) = If("y", 2, "sc", 3)
      \/ t = "t_load" /\ pc[t] = 2 /\ Here(t) = Assert("x", 1, "sc")
  <2>1. CASE t = "t_store"
    <3>1. pc[t] \in 1 .. 3 /\ pc[t] <= Len(Code(t)) /\ Here(t) = Code(t)[pc[t]]
      BY <1>2, <2>1 DEF Running, Here, NeverAsserts
    <3>2. /\ Len(Code(t)) = 2 /\ Code(t)[1] = Store("x", 1, "sc") /\ Code(t)[2] = Store("y", 2, "sc")
      BY <1>1, <2>1
    <3>3. pc[t] = 1 \/ pc[t] = 2
      BY <3>1, <3>2
    <3> QED
      BY <2>1, <3>1, <3>2, <3>3
  <2>2. CASE t = "t_load"
    <3>1. pc[t] \in 1 .. 3 /\ pc[t] <= Len(Code(t)) /\ Here(t) = Code(t)[pc[t]]
      BY <1>2, <2>2 DEF Running, Here, NeverAsserts
    <3>2. /\ Len(Code(t)) = 2 /\ Code(t)[1] = If("y", 2, "sc", 3) /\ Code(t)[2] = Assert("x", 1, "sc")
      BY <1>1, <2>2
    <3>3. pc[t] = 1 \/ pc[t] = 2
      BY <3>1, <3>2
    <3> QED
      BY <2>2, <3>1, <3>2, <3>3
  <2> QED
    BY <1>1, <2>1, <2>2
<1>4. ASSUME Stepped(t) PROVE \A u \in {"t_store", "t_load"} \ {t} : pc'[u] = pc[u]
  BY <1>1, <1>4 DEF Stepped
<1>5. ASSUME mem' = mem PROVE LastValue("x")' = LastValue("x") /\ LastValue("y")' = LastValue("y")
  BY <1>5 DEF LastValue, Last
<1>6. CASE t = "t_store" /\ pc[t] = 1 /\ Here(t) = Store("x", 1, "sc")
  <2>1. /\ Stepped(t) /\ pc'[t] = 2 /\ LastValue("x")' = 1 /\ LastValue("y")' = LastValue("y")
        /\ ~race' /\ ~failed'
    BY <1>1, <1>2, <1>6, StoresLast DEF NeverAsserts
  <2> QED
    BY <1>4, <1>6, <2>1 DEF NeverAsserts
<1>7. CASE t = "t_store" /\ pc[t] = 2 /\ Here(t) = Store("y", 2, "sc")
  <2>1. /\ Stepped(t) /\ pc'[t] = 3 /\ LastValue("y")' = 2 /\ LastValue("x")' = LastValue("x")
        /\ ~race' /\ ~failed'
    BY <1>1, <1>2, <1>7, StoresLast DEF NeverAsserts
  <2> QED
    BY <1>4, <1>7, <2>1 DEF NeverAsserts
<1>8. CASE t = "t_load" /\ pc[t] = 1 /\ Here(t) = If("y", 2, "sc", 3)
  <2>1. /\ Stepped(t) /\ mem' = mem /\ pc'[t] = (IF LastValue("y") # 2 THEN 3 ELSE 2)
        /\ ~race' /\ ~failed'
    BY <1>1, <1>2, <1>8, BranchesByLast DEF NeverAsserts
  <2> QED
    BY <1>4, <1>5, <1>8, <2>1 DEF NeverAsserts
<1>9. CASE t = "t_load" /\ pc[t] = 2 /\ Here(t) = Assert("x", 1, "sc")
  <2>1. LastValue("x") = 1
    BY <1>9 DEF NeverAsserts
  <2>2. Stepped(t) /\ mem' = mem /\ pc'[t] = 3 /\ ~race' /\ ~failed'
    BY <1>1, <1>2, <1>9, <2>1, AssertsLast DEF NeverAsserts
  <2> QED
    BY <1>4, <1>5, <1>9, <2>2 DEF NeverAsserts
<1> QED
  BY <1>3, <1>6, <1>7, <1>8, <1>9

--------------------------------------------------------------------------------
(* implyRiskMethod2.                                                       *)

(* The value of x follows t1; y is t1's until t2 has seen x, then t2's.    *)
Relays ==
  /\ pc["t1"] \in 1 .. 3 /\ pc["t2"] \in 1 .. 4 /\ pc["t3"] \in 1 .. 3
  /\ LastValue("x") = IF pc["t1"] = 3 THEN 10 ELSE 0
  /\ LastValue("y") \in {0, 20, 10}
  /\ LastValue("y") = 0 => pc["t1"] = 1
  /\ LastValue("y") = 10 => pc["t1"] = 3 /\ pc["t2"] = 4
  /\ pc["t2"] \in {2, 3} => pc["t1"] = 3
  /\ pc["t3"] = 2 => pc["t1"] = 3
  /\ ~race /\ ~failed

RelaysRuns == Machine /\ program.name = "implyRiskMethod2"

(* Its code.                                                               *)
LEMMA RelaysCode ==
  ASSUME RelaysRuns
  PROVE  /\ program.init = [l \in {"x", "y"} |-> 0]
         /\ Locations = {"x", "y"} /\ Threads = {"t1", "t2", "t3"}
         /\ Code("t1") = <<Store("y", 20, "sc"), Store("x", 10, "sc")>>
         /\ Code("t2") = <<If("x", 10, "sc", 4), Assert("y", 20, "sc"), Store("y", 10, "sc")>>
         /\ Code("t3") = <<If("y", 10, "sc", 3), Assert("x", 10, "sc")>>
<1>1. program = implyRiskMethod2("sc")
  <2>1. program \in Programs /\ program.name = "implyRiskMethod2"
    BY DEF RelaysRuns, Machine
  <2> QED
    BY <2>1, ProgramsAssumption DEF Known
<1>2. /\ implyRiskMethod2("sc").init = [l \in {"x", "y"} |-> 0]
      /\ implyRiskMethod2("sc").code =
           [t1 |-> <<Store("y", 20, "sc"), Store("x", 10, "sc")>>,
            t2 |-> <<If("x", 10, "sc", 4), Assert("y", 20, "sc"), Store("y", 10, "sc")>>,
            t3 |-> <<If("y", 10, "sc", 3), Assert("x", 10, "sc")>>]
  BY DEF implyRiskMethod2, Program
<1> QED
  BY <1>1, <1>2 DEF Locations, Threads, Code

(* At first.                                                               *)
LEMMA RelaysInit ==
  ASSUME Init, RelaysRuns
  PROVE  Relays
<1>1. /\ program.init = [l \in {"x", "y"} |-> 0]
      /\ Locations = {"x", "y"} /\ Threads = {"t1", "t2", "t3"}
  BY RelaysCode
<1>2. /\ pc = [t \in Threads |-> 1] /\ ~race /\ ~failed
      /\ mem = [l \in Locations |-> <<[val |-> program.init[l], view |-> Start]>>]
  BY DEF Init
<1>3. LastValue("x") = 0 /\ LastValue("y") = 0
  BY <1>1, <1>2 DEF LastValue, Last
<1> QED
  BY <1>1, <1>2, <1>3 DEF Relays

(* Every step.                                                             *)
LEMMA RelaysStep ==
  ASSUME RelaysRuns, Relays, NEW t \in Threads, Step(t)
  PROVE  Relays'
<1>1. /\ Locations = {"x", "y"} /\ Threads = {"t1", "t2", "t3"}
      /\ Code("t1") = <<Store("y", 20, "sc"), Store("x", 10, "sc")>>
      /\ Code("t2") = <<If("x", 10, "sc", 4), Assert("y", 20, "sc"), Store("y", 10, "sc")>>
      /\ Code("t3") = <<If("y", 10, "sc", 3), Assert("x", 10, "sc")>>
  BY RelaysCode
<1>2. Machine /\ pc[t] <= Len(Code(t)) /\ Here(t) = Code(t)[pc[t]]
  BY DEF RelaysRuns, Step, Running, Here
<1>3. \/ t = "t1" /\ pc[t] = 1 /\ Here(t) = Store("y", 20, "sc")
      \/ t = "t1" /\ pc[t] = 2 /\ Here(t) = Store("x", 10, "sc")
      \/ t = "t2" /\ pc[t] = 1 /\ Here(t) = If("x", 10, "sc", 4)
      \/ t = "t2" /\ pc[t] = 2 /\ Here(t) = Assert("y", 20, "sc")
      \/ t = "t2" /\ pc[t] = 3 /\ Here(t) = Store("y", 10, "sc")
      \/ t = "t3" /\ pc[t] = 1 /\ Here(t) = If("y", 10, "sc", 3)
      \/ t = "t3" /\ pc[t] = 2 /\ Here(t) = Assert("x", 10, "sc")
  <2>1. CASE t = "t1"
    <3>1. /\ Len(Code(t)) = 2 /\ Code(t)[1] = Store("y", 20, "sc") /\ Code(t)[2] = Store("x", 10, "sc")
      BY <1>1, <2>1
    <3>2. pc[t] = 1 \/ pc[t] = 2
      BY <1>2, <2>1, <3>1 DEF Relays
    <3> QED
      BY <1>2, <2>1, <3>1, <3>2
  <2>2. CASE t = "t2"
    <3>1. /\ Len(Code(t)) = 3 /\ Code(t)[1] = If("x", 10, "sc", 4)
          /\ Code(t)[2] = Assert("y", 20, "sc") /\ Code(t)[3] = Store("y", 10, "sc")
      BY <1>1, <2>2
    <3>2. pc[t] = 1 \/ pc[t] = 2 \/ pc[t] = 3
      BY <1>2, <2>2, <3>1 DEF Relays
    <3> QED
      BY <1>2, <2>2, <3>1, <3>2
  <2>3. CASE t = "t3"
    <3>1. /\ Len(Code(t)) = 2 /\ Code(t)[1] = If("y", 10, "sc", 3) /\ Code(t)[2] = Assert("x", 10, "sc")
      BY <1>1, <2>3
    <3>2. pc[t] = 1 \/ pc[t] = 2
      BY <1>2, <2>3, <3>1 DEF Relays
    <3> QED
      BY <1>2, <2>3, <3>1, <3>2
  <2> QED
    BY <1>1, <2>1, <2>2, <2>3
<1>4. ASSUME Stepped(t) PROVE \A u \in {"t1", "t2", "t3"} \ {t} : pc'[u] = pc[u]
  BY <1>1, <1>4 DEF Stepped
<1>5. ASSUME mem' = mem PROVE LastValue("x")' = LastValue("x") /\ LastValue("y")' = LastValue("y")
  BY <1>5 DEF LastValue, Last
<1>6. CASE t = "t1" /\ pc[t] = 1 /\ Here(t) = Store("y", 20, "sc")
  <2>1. /\ Stepped(t) /\ pc'[t] = 2 /\ LastValue("y")' = 20 /\ LastValue("x")' = LastValue("x")
        /\ ~race' /\ ~failed'
    BY <1>1, <1>2, <1>6, StoresLast DEF Relays
  <2> QED
    BY <1>4, <1>6, <2>1 DEF Relays
<1>7. CASE t = "t1" /\ pc[t] = 2 /\ Here(t) = Store("x", 10, "sc")
  <2>1. /\ Stepped(t) /\ pc'[t] = 3 /\ LastValue("x")' = 10 /\ LastValue("y")' = LastValue("y")
        /\ ~race' /\ ~failed'
    BY <1>1, <1>2, <1>7, StoresLast DEF Relays
  <2> QED
    BY <1>4, <1>7, <2>1 DEF Relays
<1>8. CASE t = "t2" /\ pc[t] = 1 /\ Here(t) = If("x", 10, "sc", 4)
  <2>1. /\ Stepped(t) /\ mem' = mem /\ pc'[t] = (IF LastValue("x") # 10 THEN 4 ELSE 2)
        /\ ~race' /\ ~failed'
    BY <1>1, <1>2, <1>8, BranchesByLast DEF Relays
  <2> QED
    BY <1>4, <1>5, <1>8, <2>1 DEF Relays
<1>9. CASE t = "t2" /\ pc[t] = 2 /\ Here(t) = Assert("y", 20, "sc")
  <2>1. LastValue("y") = 20
    BY <1>9 DEF Relays
  <2>2. Stepped(t) /\ mem' = mem /\ pc'[t] = 3 /\ ~race' /\ ~failed'
    BY <1>1, <1>2, <1>9, <2>1, AssertsLast DEF Relays
  <2> QED
    BY <1>4, <1>5, <1>9, <2>2 DEF Relays
<1>10. CASE t = "t2" /\ pc[t] = 3 /\ Here(t) = Store("y", 10, "sc")
  <2>1. /\ Stepped(t) /\ pc'[t] = 4 /\ LastValue("y")' = 10 /\ LastValue("x")' = LastValue("x")
        /\ ~race' /\ ~failed'
    BY <1>1, <1>2, <1>10, StoresLast DEF Relays
  <2> QED
    BY <1>4, <1>10, <2>1 DEF Relays
<1>11. CASE t = "t3" /\ pc[t] = 1 /\ Here(t) = If("y", 10, "sc", 3)
  <2>1. /\ Stepped(t) /\ mem' = mem /\ pc'[t] = (IF LastValue("y") # 10 THEN 3 ELSE 2)
        /\ ~race' /\ ~failed'
    BY <1>1, <1>2, <1>11, BranchesByLast DEF Relays
  <2> QED
    BY <1>4, <1>5, <1>11, <2>1 DEF Relays
<1>12. CASE t = "t3" /\ pc[t] = 2 /\ Here(t) = Assert("x", 10, "sc")
  <2>1. LastValue("x") = 10
    BY <1>12 DEF Relays
  <2>2. Stepped(t) /\ mem' = mem /\ pc'[t] = 3 /\ ~race' /\ ~failed'
    BY <1>1, <1>2, <1>12, <2>1, AssertsLast DEF Relays
  <2> QED
    BY <1>4, <1>5, <1>12, <2>2 DEF Relays
<1> QED
  BY <1>3, <1>6, <1>7, <1>8, <1>9, <1>10, <1>11, <1>12

--------------------------------------------------------------------------------
(* lookLikeDangerButSafe.                                                  *)

(* The values of x rise in its modification order, and what has been read  *)
(* of them is no further than the reader's view.                           *)
Ascends ==
  /\ pc["thread_set"] \in 1 .. 3 /\ pc["thread_get"] \in 1 .. 4
  /\ Last("x") = pc["thread_set"]
  /\ \A k \in 1 .. Last("x") : mem["x"][k].val = k - 1
  /\ pc["thread_get"] = 1 => loaded["thread_get"] = <<>>
  /\ pc["thread_get"] = 2 => \E v \in Int : loaded["thread_get"] = <<v>> /\ v < cur["thread_get"]["x"]
  /\ pc["thread_get"] > 2 => /\ Len(loaded["thread_get"]) = 2
                             /\ \E v, w \in Int : /\ loaded["thread_get"][1] = v /\ loaded["thread_get"][2] = w
                                                  /\ v <= w
  /\ ~race /\ ~failed

AscendsRuns == Machine /\ program.name = "lookLikeDangerButSafe"

(* Its code.                                                               *)
LEMMA AscendsCode ==
  ASSUME AscendsRuns
  PROVE  /\ program.init = [l \in {"x"} |-> 0]
         /\ Locations = {"x"} /\ Threads = {"thread_set", "thread_get"}
         /\ Code("thread_set") = <<Store("x", 1, "rlx"), Store("x", 2, "rlx")>>
         /\ Code("thread_get") = <<Load("x", "rlx"), Load("x", "rlx"), AssertAscending>>
<1>1. program = lookLikeDangerButSafe
  <2>1. program \in Programs /\ program.name = "lookLikeDangerButSafe"
    BY DEF AscendsRuns, Machine
  <2> QED
    BY <2>1, ProgramsAssumption DEF Known
<1>2. /\ lookLikeDangerButSafe.init = [l \in {"x"} |-> 0]
      /\ lookLikeDangerButSafe.code =
           [thread_set |-> <<Store("x", 1, "rlx"), Store("x", 2, "rlx")>>,
            thread_get |-> <<Load("x", "rlx"), Load("x", "rlx"), AssertAscending>>]
  BY DEF lookLikeDangerButSafe, Program
<1> QED
  BY <1>1, <1>2 DEF Locations, Threads, Code

(* At first.                                                               *)
LEMMA AscendsInit ==
  ASSUME Init, AscendsRuns
  PROVE  Ascends
<1>1. /\ program.init = [l \in {"x"} |-> 0]
      /\ Locations = {"x"} /\ Threads = {"thread_set", "thread_get"}
  BY AscendsCode
<1>2. /\ pc = [t \in Threads |-> 1] /\ loaded = [t \in Threads |-> <<>>] /\ ~race /\ ~failed
      /\ mem = [l \in Locations |-> <<[val |-> program.init[l], view |-> Start]>>]
  BY DEF Init
<1>3. Last("x") = 1 /\ mem["x"][1].val = 0
  BY <1>1, <1>2 DEF Last
<1>4. \A k \in 1 .. 1 : k = 1 /\ 1 - 1 = 0
  OBVIOUS
<1>5. \A k \in 1 .. 1 : mem["x"][k].val = k - 1
  BY <1>3, <1>4
<1>6. \A k \in 1 .. Last("x") : mem["x"][k].val = k - 1
  BY <1>3, <1>5, Zenon
<1> QED
  BY <1>1, <1>2, <1>3, <1>6 DEF Ascends

(* Every step.                                                             *)
LEMMA AscendsStep ==
  ASSUME AscendsRuns, Ascends, NEW t \in Threads, Step(t)
  PROVE  Ascends'
<1>1. /\ Locations = {"x"} /\ Threads = {"thread_set", "thread_get"}
      /\ Code("thread_set") = <<Store("x", 1, "rlx"), Store("x", 2, "rlx")>>
      /\ Code("thread_get") = <<Load("x", "rlx"), Load("x", "rlx"), AssertAscending>>
  BY AscendsCode
<1>2. Machine /\ pc[t] <= Len(Code(t)) /\ Here(t) = Code(t)[pc[t]]
  BY DEF AscendsRuns, Step, Running, Here
<1>3. \/ t = "thread_set" /\ pc[t] \in {1, 2} /\ Here(t) = Store("x", pc[t], "rlx")
      \/ t = "thread_get" /\ pc[t] \in {1, 2} /\ Here(t) = Load("x", "rlx")
      \/ t = "thread_get" /\ pc[t] = 3 /\ Here(t) = AssertAscending
  <2>1. CASE t = "thread_set"
    <3>1. /\ Len(Code(t)) = 2 /\ Code(t)[1] = Store("x", 1, "rlx") /\ Code(t)[2] = Store("x", 2, "rlx")
      BY <1>1, <2>1
    <3>2. pc[t] = 1 \/ pc[t] = 2
      BY <1>2, <2>1, <3>1 DEF Ascends
    <3> QED
      BY <1>2, <2>1, <3>1, <3>2
  <2>2. CASE t = "thread_get"
    <3>1. /\ Len(Code(t)) = 3 /\ Code(t)[1] = Load("x", "rlx")
          /\ Code(t)[2] = Load("x", "rlx") /\ Code(t)[3] = AssertAscending
      BY <1>1, <2>2
    <3>2. pc[t] = 1 \/ pc[t] = 2 \/ pc[t] = 3
      BY <1>2, <2>2, <3>1 DEF Ascends
    <3> QED
      BY <1>2, <2>2, <3>1, <3>2
  <2> QED
    BY <1>1, <2>1, <2>2
<1>4. ASSUME Stepped(t) PROVE \A u \in {"thread_set", "thread_get"} \ {t} :
                                /\ pc'[u] = pc[u] /\ cur'[u] = cur[u] /\ loaded'[u] = loaded[u]
  BY <1>1, <1>4 DEF Stepped
<1>5. ASSUME mem' = mem PROVE Last("x")' = Last("x")
  BY <1>5 DEF Last
<1>6. CASE t = "thread_set" /\ pc[t] \in {1, 2} /\ Here(t) = Store("x", pc[t], "rlx")
  <2>1. Here(t).op = "store" /\ Here(t).loc = "x" /\ Here(t).val = pc[t] /\ Here(t).order = "rlx"
    BY <1>6, Fields DEF Store
  <2>2. /\ Stepped(t) /\ pc'[t] = pc[t] + 1 /\ Writes(t, "x", pc[t], "rlx") /\ ~failed'
        /\ ~race /\ ~Races(t, "x", "rlx") => ~race'
    BY <1>2, <2>1, StoreEffect DEF Ascends
  <2>3. ~race'
    BY <2>2 DEF Ascends, Races
  <2>4. /\ Len(mem'["x"]) = Last("x") + 1 /\ mem'["x"][Last("x") + 1].val = pc[t]
        /\ \A k \in 1 .. Last("x") : mem'["x"][k] = mem["x"][k]
    BY <2>2 DEF Writes
  <2>5. Last("x") = pc[t] /\ Last("x")' = pc[t] + 1 /\ pc[t] \in Nat
    BY <1>6, <2>4 DEF Ascends, Last
  <2>6. \A k \in 1 .. pc[t] + 1 : mem'["x"][k].val = k - 1
    <3>1. \A k \in 1 .. pc[t] : mem'["x"][k].val = k - 1
      BY <2>4, <2>5 DEF Ascends
    <3>2. \A k \in 1 .. pc[t] + 1 : k \in 1 .. pc[t] \/ (k = pc[t] + 1 /\ k - 1 = pc[t])
      BY <2>5
    <3> QED
      BY <2>4, <2>5, <3>1, <3>2
  <2>7. \A k \in 1 .. Last("x")' : mem'["x"][k].val = k - 1
    BY <2>5, <2>6
  <2> QED
    BY <1>4, <1>6, <2>2, <2>3, <2>5, <2>7 DEF Ascends
<1>7. CASE t = "thread_get" /\ pc[t] \in {1, 2} /\ Here(t) = Load("x", "rlx")
  <2>1. Here(t).op = "load" /\ Here(t).loc = "x" /\ Here(t).order = "rlx"
    BY <1>7, Fields DEF Load
  <2>2. /\ Stepped(t) /\ mem' = mem
        /\ ~race /\ ~Races(t, "x", "rlx") => ~race'
    BY <1>2, <2>1, LoadEffect
  <2>3. PICK place : Reads(t, Here(t), place)
    BY <1>2, <2>1, LoadEffect
  <2>4. /\ place \in 1 .. Last("x") /\ cur[t]["x"] <= place /\ place <= cur'[t]["x"]
        /\ pc'[t] = pc[t] + 1 /\ loaded'[t] = Append(loaded[t], mem["x"][place].val)
        /\ ~failed'
    BY <2>1, <2>3 DEF Reads, Ascends
  <2>5. ~race'
    BY <2>2 DEF Ascends, Races
  <2>6. mem["x"][place].val = place - 1 /\ place \in Nat
    BY <2>4 DEF Ascends
  <2>7. cur[t]["x"] \in Nat /\ cur'[t]["x"] \in Nat
    <3>1. ViewsWithin /\ ViewsWithin'
      BY <1>2, <2>2, Zenon DEF Stepped, Machine
    <3>2. Locations' = Locations /\ Threads' = Threads
      BY <2>2 DEF Stepped, Locations, Threads
    <3> QED
      BY <1>1, <3>1, <3>2 DEF ViewsWithin, View
  <2>8. CASE pc[t] = 1
    <3>1. loaded'[t] = <<place - 1>>
      <4>1. \A v : Append(<<>>, v) = <<v>>
        OBVIOUS
      <4> QED
        BY <1>7, <2>4, <2>6, <2>8, <4>1 DEF Ascends
    <3>2. \E v \in Int : loaded'[t] = <<v>> /\ v < cur'[t]["x"]
      <4>1. place - 1 \in Int /\ place - 1 < cur'[t]["x"]
        BY <2>4, <2>6, <2>7
      <4> QED
        BY <3>1, <4>1
    <3> QED
      BY <1>4, <1>5, <1>7, <2>2, <2>4, <2>5, <2>8, <3>2 DEF Ascends
  <2>9. CASE pc[t] = 2
    <3>1. PICK v \in Int : loaded[t] = <<v>> /\ v < cur[t]["x"]
      BY <1>7, <2>9 DEF Ascends
    <3>2. Len(loaded'[t]) = 2 /\ loaded'[t][1] = v /\ loaded'[t][2] = place - 1
      <4>1. \A a, b \in Int : /\ Len(Append(<<a>>, b)) = 2
                              /\ Append(<<a>>, b)[1] = a /\ Append(<<a>>, b)[2] = b
        OBVIOUS
      <4>2. place - 1 \in Int
        BY <2>6
      <4> QED
        BY <2>4, <2>6, <3>1, <4>1, <4>2
    <3>3. place - 1 \in Int /\ v <= place - 1
      BY <2>4, <2>6, <2>7, <3>1
    <3>4. \E a, b \in Int : loaded'[t][1] = a /\ loaded'[t][2] = b /\ a <= b
      BY <3>2, <3>3
    <3> QED
      BY <1>4, <1>5, <1>7, <2>2, <2>4, <2>5, <2>9, <3>2, <3>4 DEF Ascends
  <2> QED
    BY <1>7, <2>8, <2>9
<1>8. CASE t = "thread_get" /\ pc[t] = 3 /\ Here(t) = AssertAscending
  <2>1. Here(t).op = "ascending"
    BY <1>8, Fields DEF AssertAscending
  <2>2. PICK v, w \in Int : loaded[t][1] = v /\ loaded[t][2] = w /\ v <= w
    BY <1>8 DEF Ascends
  <2>3. \A j \in 2 .. Len(loaded[t]) : ~(loaded[t][j - 1] > loaded[t][j])
    <3>1. Len(loaded[t]) = 2 /\ loaded[t][1] = v /\ loaded[t][2] = w
      BY <1>8, <2>2 DEF Ascends
    <3>2. \A j \in 2 .. 2 : j = 2 /\ j - 1 = 1
      OBVIOUS
    <3> QED
      BY <2>2, <3>1, <3>2
  <2>4. /\ Stepped(t) /\ pc'[t] = 4 /\ mem' = mem /\ cur' = cur /\ loaded' = loaded /\ race' = race
        /\ ~failed'
    BY <1>2, <1>8, <2>1, <2>3, PlainEffect DEF Ascends, memory
  <2> QED
    BY <1>4, <1>5, <1>8, <2>4 DEF Ascends
<1> QED
  BY <1>3, <1>6, <1>7, <1>8

--------------------------------------------------------------------------------
(* The spin lock, for any threads.                                         *)

Sign(t) == program.code[t][2].loc
Signs == {Sign(t) : t \in Threads}

(* The places at which a thread is inside the lock.                        *)
Inside == 2 .. 5

(* k whole lines have been printed, and what of its own the thread inside  *)
(* has printed.                                                            *)
Lines(k) ==
  /\ (\A t \in Threads : pc[t] \notin Inside) => Len(printed) = 3 * k
  /\ \A t \in Threads : pc[t] \in Inside =>
       /\ Len(printed) = 3 * k + (pc[t] - 2)
       /\ \A n \in 3 * k + 1 .. Len(printed) : printed[n] = Sign(t)

Whole ==
  /\ \A t \in Threads : pc[t] \in 1 .. 6
  /\ \A t \in Threads : pc[t] \in Inside => LastValue("flag_") = 1
  /\ \A t, u \in Threads : pc[t] \in Inside /\ pc[u] \in Inside => t = u
  /\ printed \in Seq(Signs)
  /\ \E k \in 0 .. Len(printed) : Lines(k)
  /\ \A i \in 1 .. Len(printed) : printed[i] = printed[3 * ((i - 1) \div 3) + 1]

SpinLockRuns == Machine /\ program.name = "SpinLock"

(* Where a line begins.                                                    *)
LEMMA LineStarts ==
  /\ \A k \in Nat : \A j \in 0 .. 2 : (3 * k + j) \div 3 = k
  /\ \A i \in Nat \ {0} : 3 * ((i - 1) \div 3) + 1 \in 1 .. i
OBVIOUS

(* What is done inside the lock.                                           *)
LEMMA PrintThreeInstructions ==
  ASSUME NEW sign
  PROVE  /\ Len(PrintThree(sign)) = 5
         /\ PrintThree(sign)[1] = TestAndSet("flag_", "acq")
         /\ \A n \in 2 .. 4 : PrintThree(sign)[n] = PrintOut(sign)
         /\ PrintThree(sign)[5] = Store("flag_", 0, "rel")
<1> DEFINE a == TestAndSet("flag_", "acq")
           b == PrintOut(sign)
           c == Store("flag_", 0, "rel")
           S == {a, b, c}
           lb == <<a>> \o <<b, b, b>>
<1>1. PrintThree(sign) = lb \o <<c>>
  BY DEF PrintThree, lock, unlock
<1> HIDE DEF a, b, c
<1>2. <<a>> \in Seq(S) /\ <<b, b, b>> \in Seq(S) /\ <<c>> \in Seq(S)
  OBVIOUS
<1>3. /\ Len(<<a>>) = 1 /\ <<a>>[1] = a /\ Len(<<c>>) = 1 /\ <<c>>[1] = c
      /\ Len(<<b, b, b>>) = 3 /\ <<b, b, b>>[1] = b /\ <<b, b, b>>[2] = b /\ <<b, b, b>>[3] = b
  OBVIOUS
<1>4. /\ lb \in Seq(S) /\ Len(lb) = 4
      /\ \A n \in 1 .. 4 : lb[n] = IF n <= 1 THEN <<a>>[n] ELSE <<b, b, b>>[n - 1]
  BY <1>2, <1>3, ConcatProperties
<1>5. lb[1] = a /\ lb[2] = b /\ lb[3] = b /\ lb[4] = b
  BY <1>3, <1>4
<1> HIDE DEF lb, S
<1>6. /\ Len(lb \o <<c>>) = 5
      /\ \A n \in 1 .. 5 : (lb \o <<c>>)[n] = IF n <= 4 THEN lb[n] ELSE <<c>>[n - 4]
  <2> DEFINE lc == <<c>>
  <2>1. lc \in Seq(S) /\ Len(lc) = 1 /\ lb \in Seq(S) /\ Len(lb) = 4
    BY <1>2, <1>3, <1>4
  <2> HIDE DEF lc
  <2>2. /\ Len(lb \o lc) = Len(lb) + Len(lc)
        /\ \A n \in 1 .. Len(lb) + Len(lc) : (lb \o lc)[n] = IF n <= Len(lb) THEN lb[n] ELSE lc[n - Len(lb)]
    BY <2>1, ConcatProperties
  <2>3. Len(lb) + Len(lc) = 5
    BY <2>1
  <2>4. /\ Len(lb \o lc) = 5
        /\ \A n \in 1 .. 5 : (lb \o lc)[n] = IF n <= 4 THEN lb[n] ELSE lc[n - 4]
    BY <2>1, <2>2, <2>3
  <2> QED
    BY <2>4 DEF lc
<1>7. \A n \in 2 .. 4 : n = 2 \/ n = 3 \/ n = 4
  OBVIOUS
<1> QED
  BY <1>1, <1>3, <1>5, <1>6, <1>7 DEF a, b, c

(* Its code.                                                               *)
LEMMA SpinLockCode ==
  ASSUME SpinLockRuns
  PROVE  /\ program.init = [l \in {"flag_"} |-> 0] /\ Locations = {"flag_"}
         /\ \A t \in Threads : Code(t) = PrintThree(Sign(t))
<1>1. program = SpinLock([t \in Threads |-> Sign(t)])
  <2>1. program \in Programs /\ program.name = "SpinLock"
    BY DEF SpinLockRuns, Machine
  <2>2. program = SpinLock([t \in DOMAIN program.code |-> program.code[t][Len(lock) + 1].loc])
    BY <2>1, ProgramsAssumption, Zenon DEF Known
  <2>3. Len(lock) + 1 = 2
    BY DEF lock
  <2>4. [t \in DOMAIN program.code |-> program.code[t][Len(lock) + 1].loc] = [t \in Threads |-> Sign(t)]
    BY <2>3 DEF Threads, Sign
  <2> QED
    BY <2>2, <2>4
<1>2. \A signs : /\ SpinLock(signs).init = [l \in {"flag_"} |-> 0]
                 /\ SpinLock(signs).code = [t \in DOMAIN signs |-> PrintThree(signs[t])]
  BY DEF SpinLock, Program
<1>3. /\ program.init = [l \in {"flag_"} |-> 0]
      /\ program.code = [t \in Threads |-> PrintThree(Sign(t))]
  <2>1. program.code = [t \in DOMAIN [u \in Threads |-> Sign(u)] |-> PrintThree([u \in Threads |-> Sign(u)][t])]
    BY <1>1, <1>2, Zenon
  <2> QED
    BY <1>1, <1>2, <2>1
<1> QED
  BY <1>3 DEF Locations, Code

(* At first.                                                               *)
LEMMA SpinLockInit ==
  ASSUME Init, SpinLockRuns
  PROVE  Whole
<1>1. pc = [t \in Threads |-> 1] /\ printed = <<>> /\ Len(printed) = 0
  BY DEF Init
<1>2. \A t \in Threads : pc[t] = 1 /\ 1 \notin Inside
  BY <1>1 DEF Inside
<1>3. 0 \in 0 .. Len(printed) /\ Lines(0)
  BY <1>1, <1>2 DEF Lines
<1>4. printed \in Seq(Signs) /\ 1 .. Len(printed) = {}
  BY <1>1
<1> QED
  BY <1>2, <1>3, <1>4 DEF Whole

(* Every step.                                                             *)
LEMMA SpinLockStep ==
  ASSUME SpinLockRuns, Whole, NEW t \in Threads, Step(t)
  PROVE  Whole'
<1>1. Locations = {"flag_"} /\ Code(t) = PrintThree(Sign(t))
  BY SpinLockCode
<1>2. Machine /\ pc[t] <= Len(Code(t)) /\ Here(t) = Code(t)[pc[t]] /\ pc[t] \in 1 .. 6
  BY DEF SpinLockRuns, Step, Running, Here, Whole
<1>3. \/ pc[t] = 1 /\ Here(t) = TestAndSet("flag_", "acq")
      \/ pc[t] \in 2 .. 4 /\ Here(t) = PrintOut(Sign(t))
      \/ pc[t] = 5 /\ Here(t) = Store("flag_", 0, "rel")
  <2>1. Len(Code(t)) = 5
    BY <1>1, PrintThreeInstructions
  <2>2. pc[t] = 1 \/ pc[t] \in 2 .. 4 \/ pc[t] = 5
    BY <1>2, <2>1
  <2> QED
    BY <1>1, <1>2, <2>2, PrintThreeInstructions
<1>4. ASSUME Stepped(t)
      PROVE  /\ Threads' = Threads /\ Signs' = Signs /\ \A u \in Threads : Sign(u)' = Sign(u)
             /\ \A u \in Threads \ {t} : pc'[u] = pc[u]
  BY <1>4 DEF Stepped, Threads, Signs, Sign
<1>5. PICK k \in 0 .. Len(printed) : Lines(k)
  BY DEF Whole
<1>6. printed \in Seq(Signs) /\ Len(printed) \in Nat /\ k \in Nat
  BY <1>5 DEF Whole
<1>7. CASE pc[t] = 1 /\ Here(t) = TestAndSet("flag_", "acq")
  <2>1. Here(t).op = "tas" /\ Here(t).loc = "flag_"
    BY <1>7, Fields DEF TestAndSet
  <2>2. /\ Stepped(t) /\ pc'[t] = 2 /\ LastValue("flag_") = 0 /\ Writes(t, "flag_", 1, "rlx")
        /\ printed' = printed
    BY <1>2, <1>7, <2>1, SetEffect DEF LastValue, effects
  <2>3. LastValue("flag_")' = 1
    <3>1. Len(mem'["flag_"]) = Last("flag_") + 1 /\ mem'["flag_"][Last("flag_") + 1].val = 1
      BY <2>2 DEF Writes
    <3> QED
      BY <3>1 DEF LastValue, Last
  <2>4. \A u \in Threads : pc[u] \notin Inside
    BY <2>2 DEF Whole
  <2>5. Len(printed) = 3 * k
    BY <1>5, <2>4 DEF Lines
  <2>6. \A u \in Threads : pc'[u] \in Inside <=> u = t
    BY <1>4, <2>2, <2>4 DEF Inside
  <2>7. 3 * k + 1 .. Len(printed) = {} /\ Len(printed) = 3 * k + (2 - 2)
    BY <1>6, <2>5
  <2>8. Lines(k)'
    BY <1>4, <2>2, <2>6, <2>7 DEF Lines
  <2>9. \A u \in Threads : pc'[u] \in 1 .. 6
    BY <1>4, <2>2 DEF Whole
  <2> QED
    BY <1>4, <1>5, <2>2, <2>3, <2>6, <2>8, <2>9 DEF Whole
<1>8. CASE pc[t] \in 2 .. 4 /\ Here(t) = PrintOut(Sign(t))
  <2>1. Here(t).op = "print" /\ Here(t).loc = Sign(t)
    BY <1>8, Fields DEF PrintOut
  <2>2. /\ Stepped(t) /\ pc'[t] = pc[t] + 1 /\ mem' = mem /\ printed' = Append(printed, Sign(t))
    BY <1>2, <2>1, PlainEffect DEF memory
  <2>3. /\ Len(printed') = Len(printed) + 1 /\ printed'[Len(printed) + 1] = Sign(t)
        /\ \A n \in 1 .. Len(printed) : printed'[n] = printed[n]
        /\ printed' \in Seq(Signs)
    <3>1. Sign(t) \in Signs
      BY DEF Signs
    <3> HIDE DEF Signs
    <3> QED
      BY <1>6, <2>2, <3>1
  <2>4. LastValue("flag_")' = LastValue("flag_")
    BY <2>2 DEF LastValue, Last
  <2>5. pc[t] \in Inside /\ pc'[t] \in Inside
    BY <1>8, <2>2 DEF Inside
  <2>6. \A u \in Threads \ {t} : pc[u] \notin Inside /\ pc'[u] \notin Inside
    BY <1>4, <2>2, <2>5 DEF Whole
  <2>7. /\ Len(printed) = 3 * k + (pc[t] - 2)
        /\ \A n \in 3 * k + 1 .. Len(printed) : printed[n] = Sign(t)
    BY <1>5, <2>5 DEF Lines
  <2>8. \A n \in 3 * k + 1 .. Len(printed') : printed'[n] = Sign(t)
    <3>1. \A n \in 3 * k + 1 .. Len(printed) + 1 :
            \/ n \in 3 * k + 1 .. Len(printed) /\ n \in 1 .. Len(printed)
            \/ n = Len(printed) + 1
      BY <1>6
    <3> QED
      BY <2>3, <2>7, <3>1
  <2>9. Len(printed') = 3 * k + (pc'[t] - 2)
    BY <1>6, <1>8, <2>2, <2>3, <2>7
  <2>10. Lines(k)' /\ k \in 0 .. Len(printed')
    <3>1. k \in 0 .. Len(printed')
      BY <1>5, <1>6, <2>3
    <3> QED
      BY <1>4, <2>2, <2>5, <2>6, <2>8, <2>9, <3>1 DEF Lines
  <2>11. \A i \in 1 .. Len(printed') : printed'[i] = printed'[3 * ((i - 1) \div 3) + 1]
    <3> SUFFICES ASSUME NEW i \in 1 .. Len(printed')
                 PROVE  printed'[i] = printed'[3 * ((i - 1) \div 3) + 1]
      OBVIOUS
    <3>1. CASE i \in 1 .. Len(printed)
      <4>1. i \in Nat \ {0}
        BY <3>1
      <4>2. 3 * ((i - 1) \div 3) + 1 \in 1 .. i
        BY <4>1, LineStarts
      <4> DEFINE start == 3 * ((i - 1) \div 3) + 1
      <4>3. start \in 1 .. Len(printed)
        <5> HIDE DEF start
        <5>1. start \in 1 .. i
          BY <4>2 DEF start
        <5> QED
          BY <1>6, <3>1, <5>1
      <4>4. printed[i] = printed[start]
        BY <3>1 DEF Whole
      <4> QED
        BY <2>3, <3>1, <4>3, <4>4
    <3>2. CASE i = Len(printed) + 1
      <4>1. i - 1 = 3 * k + (pc[t] - 2) /\ pc[t] - 2 \in 0 .. 2
        BY <1>6, <1>8, <2>7, <3>2
      <4>2. (i - 1) \div 3 = k
        BY <1>6, <4>1, LineStarts
      <4>3. 3 * k + 1 \in 3 * k + 1 .. Len(printed')
        BY <1>6, <1>8, <2>3, <2>7
      <4> QED
        BY <2>3, <2>8, <3>2, <4>2, <4>3
    <3> QED
      BY <1>6, <2>3, <3>1, <3>2
  <2>12. \A u \in Threads : pc'[u] \in 1 .. 6
    <3>1. pc'[t] \in 1 .. 6
      BY <1>8, <2>2
    <3>2. \A u \in Threads \ {t} : pc'[u] = pc[u] /\ pc[u] \in 1 .. 6
      BY <1>4, <2>2 DEF Whole
    <3> QED
      BY <3>1, <3>2
  <2>13. \A u \in Threads : pc'[u] \in Inside => LastValue("flag_")' = 1
    BY <1>4, <2>2, <2>4, <2>5, <2>6 DEF Whole
  <2>14. \A u, w \in Threads : pc'[u] \in Inside /\ pc'[w] \in Inside => u = w
    BY <2>6
  <2> QED
    BY <1>4, <2>2, <2>3, <2>10, <2>11, <2>12, <2>13, <2>14 DEF Whole
<1>9. CASE pc[t] = 5 /\ Here(t) = Store("flag_", 0, "rel")
  <2>1. Here(t).op = "store"
    BY <1>9, Fields DEF Store
  <2>2. Stepped(t) /\ pc'[t] = 6 /\ printed' = printed
    BY <1>2, <1>9, <2>1, StoreEffect
  <2>3. pc[t] \in Inside /\ pc'[t] \notin Inside
    BY <1>9, <2>2 DEF Inside
  <2>4. \A u \in Threads : pc'[u] \notin Inside
    BY <1>4, <2>2, <2>3 DEF Whole
  <2>5. Len(printed) = 3 * k + (5 - 2)
    BY <1>5, <1>9, <2>3 DEF Lines
  <2>6. Len(printed) = 3 * (k + 1) /\ k + 1 \in 0 .. Len(printed)
    BY <1>6, <2>5
  <2>7. Lines(k + 1)'
    BY <1>4, <2>2, <2>4, <2>6 DEF Lines
  <2>8. \A u \in Threads : pc'[u] \in 1 .. 6
    BY <1>4, <2>2 DEF Whole
  <2> QED
    BY <1>4, <2>2, <2>4, <2>6, <2>7, <2>8 DEF Whole
<1> QED
  BY <1>3, <1>7, <1>8, <1>9

--------------------------------------------------------------------------------
(* All of them.                                                            *)

NothingBuilt == constructed = 0

OrdersInv ==
  /\ Machine
  /\ program.name = "Singleton" => OnceBuilt
  /\ program.name # "Singleton" => NothingBuilt
  /\ program.name = "SpinLock" => Whole
  /\ program.name = "noAssertForever" => NeverAsserts
  /\ program.name = "implyRiskMethod2" => Relays
  /\ program.name = "lookLikeDangerButSafe" => Ascends

(* Only the singleton constructs.                                          *)
LEMMA NothingBuiltStep ==
  ASSUME Machine, program.name # "Singleton", NothingBuilt, NEW t \in Threads, Step(t)
  PROVE  NothingBuilt'
<1>1. program \in Programs /\ Running(t) /\ pc[t] \in Nat \ {0}
  BY DEF Machine, Step
<1>2. WellFormed(program) /\ Known(program)
  BY <1>1, ProgramsAssumption
<1>3. pc[t] \in DOMAIN program.code[t]
  <2>1. Len(program.code[t]) \in Nat /\ DOMAIN program.code[t] = 1 .. Len(program.code[t])
    BY <1>2 DEF WellFormed, Threads
  <2>2. pc[t] <= Len(program.code[t])
    BY <1>1 DEF Running, Code
  <2> QED
    BY <1>1, <2>1, <2>2
<1>4. Here(t).op # "construct"
  BY <1>2, <1>3 DEF Known, Here, Code, Threads
<1> QED
  BY <1>4 DEF NothingBuilt, Step, StoreStep, LoadStep, TestAndSetStep, FenceStep, LockStep, UnlockStep,
              PlainStep, effects

(* At first.                                                               *)
LEMMA OrdersInit == Init => OrdersInv
<1> SUFFICES ASSUME Init PROVE OrdersInv
  OBVIOUS
<1>1. Machine
  BY MachineInit
<1>2. NothingBuilt
  BY DEF Init, NothingBuilt
<1>3. program.name = "Singleton" => OnceBuilt
  BY <1>1, SingletonInit DEF SingletonRuns
<1>4. program.name = "SpinLock" => Whole
  BY <1>1, SpinLockInit DEF SpinLockRuns
<1>5. program.name = "noAssertForever" => NeverAsserts
  BY <1>1, NeverAssertsInit DEF NeverAssertsRuns
<1>6. program.name = "implyRiskMethod2" => Relays
  BY <1>1, RelaysInit DEF RelaysRuns
<1>7. program.name = "lookLikeDangerButSafe" => Ascends
  BY <1>1, AscendsInit DEF AscendsRuns
<1> QED
  BY <1>1, <1>2, <1>3, <1>4, <1>5, <1>6, <1>7 DEF OrdersInv

(* Every step.                                                             *)
LEMMA OrdersStep ==
  ASSUME OrdersInv, [Next]_vars
  PROVE  OrdersInv' /\ [Onward]_vars
<1>1. CASE Next
  <2>1. PICK t \in Threads : Step(t)
    BY <1>1 DEF Next
  <2>2. Machine /\ Machine' /\ Onward /\ program' = program
    BY <2>1, MachineStep DEF OrdersInv, Step
  <2>3. program.name = "Singleton" => OnceBuilt'
    BY <2>1, <2>2, SingletonStep DEF OrdersInv, SingletonRuns
  <2>4. program.name # "Singleton" => NothingBuilt'
    BY <2>1, <2>2, NothingBuiltStep DEF OrdersInv
  <2>5. program.name = "SpinLock" => Whole'
    BY <2>1, <2>2, SpinLockStep DEF OrdersInv, SpinLockRuns
  <2>6. program.name = "noAssertForever" => NeverAsserts'
    BY <2>1, <2>2, NeverAssertsStep DEF OrdersInv, NeverAssertsRuns
  <2>7. program.name = "implyRiskMethod2" => Relays'
    BY <2>1, <2>2, RelaysStep DEF OrdersInv, RelaysRuns
  <2>8. program.name = "lookLikeDangerButSafe" => Ascends'
    BY <2>1, <2>2, AscendsStep DEF OrdersInv, AscendsRuns
  <2> QED
    BY <2>2, <2>3, <2>4, <2>5, <2>6, <2>7, <2>8 DEF OrdersInv
<1>2. CASE UNCHANGED vars
  <2> USE <1>2 DEF vars
  <2>1. Machine => Machine'
    BY DEF Machine, ViewsWithin, Within, View, Message, Locations, Threads
  <2>2. OnceBuilt => OnceBuilt'
    BY DEF OnceBuilt, Built, Guarded, Fits, Threads, Last
  <2>3. NothingBuilt => NothingBuilt'
    BY DEF NothingBuilt
  <2>4. Whole => Whole'
    BY DEF Whole, Lines, Signs, Sign, LastValue, Last, Threads
  <2>5. NeverAsserts => NeverAsserts'
    BY DEF NeverAsserts, LastValue, Last
  <2>6. Relays => Relays'
    BY DEF Relays, LastValue, Last
  <2>7. Ascends => Ascends'
    BY DEF Ascends, Last
  <2> QED
    BY <2>1, <2>2, <2>3, <2>4, <2>5, <2>6, <2>7 DEF OrdersInv
<1> QED
  BY <1>1, <1>2

(* The invariant implies what the run checks.                              *)
LEMMA OrdersInvImplies == OrdersInv => OrdersSuffice /\ OneInstance /\ PrintsWhole
<1> SUFFICES ASSUME OrdersInv PROVE OrdersSuffice /\ OneInstance /\ PrintsWhole
  OBVIOUS
<1>1. OrdersSuffice
  BY DEF OrdersInv, OrdersSuffice, Sound, OnceBuilt, NeverAsserts, Relays, Ascends
<1>2. OneInstance
  <2>1. CASE program.name = "Singleton"
    <3>1. SingletonRuns /\ OnceBuilt
      BY <2>1 DEF OrdersInv, SingletonRuns
    <3>2. constructed <= 1
      BY <3>1 DEF OnceBuilt, Built
    <3>3. ASSUME NEW t \in Threads, ~Running(t) PROVE loaded[t] = <<1>>
      <4>1. Code(t) = getInstance /\ Len(getInstance) = 12
        BY <3>1, SingletonCode, getInstanceInstructions
      <4>2. Fits(pc[t], cur[t], loaded[t], Last("atm_"), Last("instance_"))
        BY <3>1 DEF OnceBuilt
      <4>3. pc[t] = 13
        BY <3>3, <4>1, <4>2 DEF Running, Fits
      <4> QED
        BY <4>2, <4>3 DEF Fits
    <3> QED
      BY <3>2, <3>3 DEF OneInstance
  <2>2. CASE program.name # "Singleton"
    BY <2>2 DEF OrdersInv, OneInstance, NothingBuilt
  <2> QED
    BY <2>1, <2>2
<1>3. PrintsWhole
  BY DEF OrdersInv, PrintsWhole, Whole
<1> QED
  BY <1>1, <1>2, <1>3

(* The invariant holds, and memory only goes on.                           *)
LEMMA OrdersInvariant == Spec => []OrdersInv /\ [][Onward]_vars
BY OrdersInit, OrdersStep, PTL DEF Spec

(* The programs with strong enough orders assert in vain and never race,   *)
(* the singleton's for any number of threads.                              *)
THEOREM OrdersSufficeHolds == Spec => []OrdersSuffice
BY OrdersInvariant, OrdersInvImplies, PTL

(* However many threads call getInstance, one Singleton is constructed and *)
(* each that returns has got it.                                           *)
THEOREM OneInstanceHolds == Spec => []OneInstance
BY OrdersInvariant, OrdersInvImplies, PTL

(* However many threads print under the spin lock, no line is broken up.   *)
THEOREM PrintsWholeHolds == Spec => []PrintsWhole
BY OrdersInvariant, OrdersInvImplies, PTL

(* Messages are only ever added to the end of a location's modification    *)
(* order, whatever the program, and no thread's view of a location goes    *)
(* back: what a thread has overtaken it never reads again.                 *)
THEOREM NeverBack == Spec => [][Onward]_vars
BY OrdersInvariant, PTL

--------------------------------------------------------------------------------
(* The interrupt flag.                                                     *)

(* A target is where its kind of wait can be.                              *)
PlaceFitsMode ==
  \A t \in Targets :
    /\ flagPc[t] \in {"poll", "pollwait", "pollfinal"} => mode[t] = "future"
    /\ flagPc[t] \notin {"idle", "poll", "pollwait", "pollfinal", "returned", "caught", "done"} => mode[t] # "future"

(* A target has the caller's lock wherever it is not asleep or waking.     *)
CallersLock ==
  \A t \in Targets :
    /\ flagPc[t] \in {"enter", "register", "test", "sleep", "final", "unwind", "anytest", "anysleep", "anyfinal"} => lk = t
    /\ flagPc[t] \in {"returned", "caught"} /\ mode[t] # "future" => lk = t

(* Only the target keeps its flag's mutex over several steps.              *)
FlagsMutex ==
  \A t \in Targets :
    cv_mtx_[t] = IF flagPc[t] \in {"anytest", "anysleep", "anyfinal"} THEN t ELSE Free

(* A pointer is set exactly while the guard or custom_lock is alive.       *)
Pointers ==
  \A t \in Targets :
    /\ cv_[t] <=> flagPc[t] \in {"test", "sleep", "timed", "relock", "final", "unwind"}
    /\ cv_any_[t] <=> flagPc[t] \in {"anytest", "anysleep", "anyblocked", "anyrelock", "anyfinal"}

(* A target that has not ended has a wait left.                            *)
RoundsLeft == \A t \in Targets : flagPc[t] # "done" => rounds[t] < Rounds

(* NoLostInterrupt from the moment the decision to sleep is taken.         *)
NotificationDue ==
  \A t \in Targets : flagPc[t] \in {"anysleep", "anyblocked"} /\ flag_[t] => setting[t] = "notify"

(* The inductive invariant.                                                *)
FlagIInv ==
  /\ Flag!TypeOK
  /\ PlaceFitsMode
  /\ CallersLock
  /\ FlagsMutex
  /\ Pointers
  /\ RoundsLeft
  /\ NotificationDue

--------------------------------------------------------------------------------
(* The steps.                                                              *)

(* A timed wait starts or throws; the caller keeps its lock.               *)
LEMMA EnterKeeps == ASSUME FlagIInv, NEW t \in Targets, Flag!Enter(t) PROVE FlagIInv'
<1> USE FlagAssumption DEF FlagIInv
<1>1. Flag!TypeOK'
  BY DEF Flag!Enter, Flag!Goto, Flag!InterruptionPoint, Flag!flag, Flag!client, Flag!TypeOK, RoundsLeft, Flag!Modes
<1>2. PlaceFitsMode'
  BY DEF Flag!Enter, Flag!Goto, Flag!InterruptionPoint, Flag!flag, Flag!client, Flag!TypeOK, PlaceFitsMode, Flag!Modes
<1>3. CallersLock'
  BY DEF Flag!Enter, Flag!Goto, Flag!InterruptionPoint, Flag!flag, Flag!client, Flag!TypeOK, PlaceFitsMode, CallersLock, FlagAssumption
<1>4. FlagsMutex'
  BY DEF Flag!Enter, Flag!Goto, Flag!InterruptionPoint, Flag!flag, Flag!client, Flag!TypeOK, FlagsMutex
<1>5. Pointers'
  BY DEF Flag!Enter, Flag!Goto, Flag!InterruptionPoint, Flag!flag, Flag!client, Flag!TypeOK, Pointers
<1>6. NotificationDue'
  BY DEF Flag!Enter, Flag!Goto, Flag!InterruptionPoint, Flag!flag, Flag!client, Flag!TypeOK, FlagsMutex, Pointers, NotificationDue, FlagAssumption
<1>7. RoundsLeft'
  BY DEF Flag!Enter, Flag!Goto, Flag!InterruptionPoint, Flag!flag, Flag!client, Flag!TypeOK, RoundsLeft
<1> QED BY <1>1, <1>2, <1>3, <1>4, <1>5, <1>6, <1>7

(* The pointer to the condition variable is set as the guard is placed.    *)
LEMMA RegisterKeeps == ASSUME FlagIInv, NEW t \in Targets, Flag!Register(t) PROVE FlagIInv'
<1> USE FlagAssumption DEF FlagIInv
<1>1. Flag!TypeOK'
  BY DEF Flag!Register, Flag!Goto, Flag!flag, Flag!client, Flag!TypeOK, RoundsLeft, Flag!Modes
<1>2. PlaceFitsMode'
  BY DEF Flag!Register, Flag!Goto, Flag!flag, Flag!client, Flag!TypeOK, PlaceFitsMode, Flag!Modes
<1>3. CallersLock'
  BY DEF Flag!Register, Flag!Goto, Flag!flag, Flag!client, Flag!TypeOK, PlaceFitsMode, CallersLock, FlagAssumption
<1>4. FlagsMutex'
  BY DEF Flag!Register, Flag!Goto, Flag!flag, Flag!client, Flag!TypeOK, FlagsMutex
<1>5. Pointers'
  BY DEF Flag!Register, Flag!Goto, Flag!flag, Flag!client, Flag!TypeOK, Pointers
<1>6. NotificationDue'
  BY DEF Flag!Register, Flag!Goto, Flag!flag, Flag!client, Flag!TypeOK, FlagsMutex, Pointers, NotificationDue, FlagAssumption
<1>7. RoundsLeft'
  BY DEF Flag!Register, Flag!Goto, Flag!flag, Flag!client, Flag!TypeOK, RoundsLeft
<1> QED BY <1>1, <1>2, <1>3, <1>4, <1>5, <1>6, <1>7

(* The last look before a timed wait sleeps.                               *)
LEMMA TestKeeps == ASSUME FlagIInv, NEW t \in Targets, Flag!Test(t) PROVE FlagIInv'
<1> USE FlagAssumption DEF FlagIInv
<1>1. Flag!TypeOK'
  BY DEF Flag!Test, Flag!Goto, Flag!InterruptionPoint, Flag!flag, Flag!client, Flag!TypeOK, RoundsLeft, Flag!Modes
<1>2. PlaceFitsMode'
  BY DEF Flag!Test, Flag!Goto, Flag!InterruptionPoint, Flag!flag, Flag!client, Flag!TypeOK, PlaceFitsMode, Flag!Modes
<1>3. CallersLock'
  BY DEF Flag!Test, Flag!Goto, Flag!InterruptionPoint, Flag!flag, Flag!client, Flag!TypeOK, PlaceFitsMode, CallersLock, FlagAssumption
<1>4. FlagsMutex'
  BY DEF Flag!Test, Flag!Goto, Flag!InterruptionPoint, Flag!flag, Flag!client, Flag!TypeOK, FlagsMutex
<1>5. Pointers'
  BY DEF Flag!Test, Flag!Goto, Flag!InterruptionPoint, Flag!flag, Flag!client, Flag!TypeOK, Pointers
<1>6. NotificationDue'
  BY DEF Flag!Test, Flag!Goto, Flag!InterruptionPoint, Flag!flag, Flag!client, Flag!TypeOK, FlagsMutex, Pointers, NotificationDue, FlagAssumption
<1>7. RoundsLeft'
  BY DEF Flag!Test, Flag!Goto, Flag!InterruptionPoint, Flag!flag, Flag!client, Flag!TypeOK, RoundsLeft
<1> QED BY <1>1, <1>2, <1>3, <1>4, <1>5, <1>6, <1>7

(* The sleeper gives the caller's lock up.                                 *)
LEMMA SleepKeeps == ASSUME FlagIInv, NEW t \in Targets, Flag!Sleep(t) PROVE FlagIInv'
<1> USE FlagAssumption DEF FlagIInv
<1>1. Flag!TypeOK'
  BY DEF Flag!Sleep, Flag!Goto, Flag!flag, Flag!client, Flag!TypeOK, RoundsLeft, Flag!Modes
<1>2. PlaceFitsMode'
  BY DEF Flag!Sleep, Flag!Goto, Flag!flag, Flag!client, Flag!TypeOK, PlaceFitsMode, Flag!Modes
<1>3. CallersLock'
  BY DEF Flag!Sleep, Flag!Goto, Flag!flag, Flag!client, Flag!TypeOK, PlaceFitsMode, CallersLock, FlagAssumption
<1>4. FlagsMutex'
  BY DEF Flag!Sleep, Flag!Goto, Flag!flag, Flag!client, Flag!TypeOK, FlagsMutex
<1>5. Pointers'
  BY DEF Flag!Sleep, Flag!Goto, Flag!flag, Flag!client, Flag!TypeOK, Pointers
<1>6. NotificationDue'
  BY DEF Flag!Sleep, Flag!Goto, Flag!flag, Flag!client, Flag!TypeOK, FlagsMutex, Pointers, NotificationDue, FlagAssumption
<1>7. RoundsLeft'
  BY DEF Flag!Sleep, Flag!Goto, Flag!flag, Flag!client, Flag!TypeOK, RoundsLeft
<1> QED BY <1>1, <1>2, <1>3, <1>4, <1>5, <1>6, <1>7

(* A timed wait is over and wants the lock.                                *)
LEMMA TimeoutKeeps == ASSUME FlagIInv, NEW t \in Targets, Flag!Timeout(t) PROVE FlagIInv'
<1> USE FlagAssumption DEF FlagIInv
<1>1. Flag!TypeOK'
  BY DEF Flag!Timeout, Flag!Goto, Flag!flag, Flag!client, Flag!TypeOK, RoundsLeft, Flag!Modes
<1>2. PlaceFitsMode'
  BY DEF Flag!Timeout, Flag!Goto, Flag!flag, Flag!client, Flag!TypeOK, PlaceFitsMode, Flag!Modes
<1>3. CallersLock'
  BY DEF Flag!Timeout, Flag!Goto, Flag!flag, Flag!client, Flag!TypeOK, PlaceFitsMode, CallersLock, FlagAssumption
<1>4. FlagsMutex'
  BY DEF Flag!Timeout, Flag!Goto, Flag!flag, Flag!client, Flag!TypeOK, FlagsMutex
<1>5. Pointers'
  BY DEF Flag!Timeout, Flag!Goto, Flag!flag, Flag!client, Flag!TypeOK, Pointers
<1>6. NotificationDue'
  BY DEF Flag!Timeout, Flag!Goto, Flag!flag, Flag!client, Flag!TypeOK, FlagsMutex, Pointers, NotificationDue, FlagAssumption
<1>7. RoundsLeft'
  BY DEF Flag!Timeout, Flag!Goto, Flag!flag, Flag!client, Flag!TypeOK, RoundsLeft
<1> QED BY <1>1, <1>2, <1>3, <1>4, <1>5, <1>6, <1>7

(* A timed wait has the lock back.                                         *)
LEMMA RelockKeeps == ASSUME FlagIInv, NEW t \in Targets, Flag!Relock(t) PROVE FlagIInv'
<1> USE FlagAssumption DEF FlagIInv
<1>1. Flag!TypeOK'
  BY DEF Flag!Relock, Flag!Goto, Flag!flag, Flag!client, Flag!TypeOK, RoundsLeft, Flag!Modes
<1>2. PlaceFitsMode'
  BY DEF Flag!Relock, Flag!Goto, Flag!flag, Flag!client, Flag!TypeOK, PlaceFitsMode, Flag!Modes
<1>3. CallersLock'
  BY DEF Flag!Relock, Flag!Goto, Flag!flag, Flag!client, Flag!TypeOK, PlaceFitsMode, CallersLock, FlagAssumption
<1>4. FlagsMutex'
  BY DEF Flag!Relock, Flag!Goto, Flag!flag, Flag!client, Flag!TypeOK, FlagsMutex
<1>5. Pointers'
  BY DEF Flag!Relock, Flag!Goto, Flag!flag, Flag!client, Flag!TypeOK, Pointers
<1>6. NotificationDue'
  BY DEF Flag!Relock, Flag!Goto, Flag!flag, Flag!client, Flag!TypeOK, FlagsMutex, Pointers, NotificationDue, FlagAssumption
<1>7. RoundsLeft'
  BY DEF Flag!Relock, Flag!Goto, Flag!flag, Flag!client, Flag!TypeOK, RoundsLeft
<1> QED BY <1>1, <1>2, <1>3, <1>4, <1>5, <1>6, <1>7

(* A timed wait ends in its interruption point.                            *)
LEMMA FinalKeeps == ASSUME FlagIInv, NEW t \in Targets, Flag!Final(t) PROVE FlagIInv'
<1> USE FlagAssumption DEF FlagIInv
<1>1. Flag!TypeOK'
  BY DEF Flag!Final, Flag!Goto, Flag!InterruptionPoint, Flag!flag, Flag!client, Flag!TypeOK, RoundsLeft, Flag!Modes
<1>2. PlaceFitsMode'
  BY DEF Flag!Final, Flag!Goto, Flag!InterruptionPoint, Flag!flag, Flag!client, Flag!TypeOK, PlaceFitsMode, Flag!Modes
<1>3. CallersLock'
  BY DEF Flag!Final, Flag!Goto, Flag!InterruptionPoint, Flag!flag, Flag!client, Flag!TypeOK, PlaceFitsMode, CallersLock, FlagAssumption
<1>4. FlagsMutex'
  BY DEF Flag!Final, Flag!Goto, Flag!InterruptionPoint, Flag!flag, Flag!client, Flag!TypeOK, FlagsMutex
<1>5. Pointers'
  BY DEF Flag!Final, Flag!Goto, Flag!InterruptionPoint, Flag!flag, Flag!client, Flag!TypeOK, Pointers
<1>6. NotificationDue'
  BY DEF Flag!Final, Flag!Goto, Flag!InterruptionPoint, Flag!flag, Flag!client, Flag!TypeOK, FlagsMutex, Pointers, NotificationDue, FlagAssumption
<1>7. RoundsLeft'
  BY DEF Flag!Final, Flag!Goto, Flag!InterruptionPoint, Flag!flag, Flag!client, Flag!TypeOK, RoundsLeft
<1> QED BY <1>1, <1>2, <1>3, <1>4, <1>5, <1>6, <1>7

(* The guard takes the pointer back, on a return and on a throw.           *)
LEMMA UnwindKeeps == ASSUME FlagIInv, NEW t \in Targets, Flag!Unwind(t) PROVE FlagIInv'
<1> USE FlagAssumption DEF FlagIInv
<1>1. Flag!TypeOK'
  BY DEF Flag!Unwind, Flag!Goto, Flag!flag, Flag!client, Flag!TypeOK, RoundsLeft, Flag!Modes
<1>2. PlaceFitsMode'
  BY DEF Flag!Unwind, Flag!Goto, Flag!flag, Flag!client, Flag!TypeOK, PlaceFitsMode, Flag!Modes
<1>3. CallersLock'
  BY DEF Flag!Unwind, Flag!Goto, Flag!flag, Flag!client, Flag!TypeOK, PlaceFitsMode, CallersLock, FlagAssumption
<1>4. FlagsMutex'
  BY DEF Flag!Unwind, Flag!Goto, Flag!flag, Flag!client, Flag!TypeOK, FlagsMutex
<1>5. Pointers'
  BY DEF Flag!Unwind, Flag!Goto, Flag!flag, Flag!client, Flag!TypeOK, Pointers
<1>6. NotificationDue'
  BY DEF Flag!Unwind, Flag!Goto, Flag!flag, Flag!client, Flag!TypeOK, FlagsMutex, Pointers, NotificationDue, FlagAssumption
<1>7. RoundsLeft'
  BY DEF Flag!Unwind, Flag!Goto, Flag!flag, Flag!client, Flag!TypeOK, RoundsLeft
<1> QED BY <1>1, <1>2, <1>3, <1>4, <1>5, <1>6, <1>7

(* custom_lock takes the flag's mutex and sets the pointer.                *)
LEMMA AnyLockKeeps == ASSUME FlagIInv, NEW t \in Targets, Flag!AnyLock(t) PROVE FlagIInv'
<1> USE FlagAssumption DEF FlagIInv
<1>1. Flag!TypeOK'
  BY DEF Flag!AnyLock, Flag!Goto, Flag!flag, Flag!client, Flag!TypeOK, RoundsLeft, Flag!Modes
<1>2. PlaceFitsMode'
  BY DEF Flag!AnyLock, Flag!Goto, Flag!flag, Flag!client, Flag!TypeOK, PlaceFitsMode, Flag!Modes
<1>3. CallersLock'
  BY DEF Flag!AnyLock, Flag!Goto, Flag!flag, Flag!client, Flag!TypeOK, PlaceFitsMode, CallersLock, FlagAssumption
<1>4. FlagsMutex'
  BY DEF Flag!AnyLock, Flag!Goto, Flag!flag, Flag!client, Flag!TypeOK, FlagsMutex
<1>5. Pointers'
  BY DEF Flag!AnyLock, Flag!Goto, Flag!flag, Flag!client, Flag!TypeOK, Pointers
<1>6. NotificationDue'
  BY DEF Flag!AnyLock, Flag!Goto, Flag!flag, Flag!client, Flag!TypeOK, FlagsMutex, Pointers, NotificationDue, FlagAssumption
<1>7. RoundsLeft'
  BY DEF Flag!AnyLock, Flag!Goto, Flag!flag, Flag!client, Flag!TypeOK, RoundsLeft
<1> QED BY <1>1, <1>2, <1>3, <1>4, <1>5, <1>6, <1>7

(* The look at the flag, under cv_mtx_: who goes on to sleep was not       *)
(* interrupted.                                                            *)
LEMMA AnyTestKeeps == ASSUME FlagIInv, NEW t \in Targets, Flag!AnyTest(t) PROVE FlagIInv'
<1> USE FlagAssumption DEF FlagIInv
<1>1. Flag!TypeOK'
  BY DEF Flag!AnyTest, Flag!Goto, Flag!InterruptionPoint, Flag!AnyDestruct, Flag!flag, Flag!client, Flag!TypeOK, RoundsLeft, Flag!Modes
<1>2. PlaceFitsMode'
  BY DEF Flag!AnyTest, Flag!Goto, Flag!InterruptionPoint, Flag!AnyDestruct, Flag!flag, Flag!client, Flag!TypeOK, PlaceFitsMode, Flag!Modes
<1>3. CallersLock'
  BY DEF Flag!AnyTest, Flag!Goto, Flag!InterruptionPoint, Flag!AnyDestruct, Flag!flag, Flag!client, Flag!TypeOK, PlaceFitsMode, CallersLock, FlagAssumption
<1>4. FlagsMutex'
  BY DEF Flag!AnyTest, Flag!Goto, Flag!InterruptionPoint, Flag!AnyDestruct, Flag!flag, Flag!client, Flag!TypeOK, FlagsMutex
<1>5. Pointers'
  BY DEF Flag!AnyTest, Flag!Goto, Flag!InterruptionPoint, Flag!AnyDestruct, Flag!flag, Flag!client, Flag!TypeOK, Pointers
<1>6. NotificationDue'
  BY DEF Flag!AnyTest, Flag!Goto, Flag!InterruptionPoint, Flag!AnyDestruct, Flag!flag, Flag!client, Flag!TypeOK, FlagsMutex, Pointers, NotificationDue, FlagAssumption
<1>7. RoundsLeft'
  BY DEF Flag!AnyTest, Flag!Goto, Flag!InterruptionPoint, Flag!AnyDestruct, Flag!flag, Flag!client, Flag!TypeOK, RoundsLeft
<1> QED BY <1>1, <1>2, <1>3, <1>4, <1>5, <1>6, <1>7

(* The wait set is joined as both mutexes are given up.                    *)
LEMMA AnySleepKeeps == ASSUME FlagIInv, NEW t \in Targets, Flag!AnySleep(t) PROVE FlagIInv'
<1> USE FlagAssumption DEF FlagIInv
<1>1. Flag!TypeOK'
  BY DEF Flag!AnySleep, Flag!Goto, Flag!flag, Flag!client, Flag!TypeOK, RoundsLeft, Flag!Modes
<1>2. PlaceFitsMode'
  BY DEF Flag!AnySleep, Flag!Goto, Flag!flag, Flag!client, Flag!TypeOK, PlaceFitsMode, Flag!Modes
<1>3. CallersLock'
  BY DEF Flag!AnySleep, Flag!Goto, Flag!flag, Flag!client, Flag!TypeOK, PlaceFitsMode, CallersLock, FlagAssumption
<1>4. FlagsMutex'
  BY DEF Flag!AnySleep, Flag!Goto, Flag!flag, Flag!client, Flag!TypeOK, FlagsMutex
<1>5. Pointers'
  BY DEF Flag!AnySleep, Flag!Goto, Flag!flag, Flag!client, Flag!TypeOK, Pointers
<1>6. NotificationDue'
  BY DEF Flag!AnySleep, Flag!Goto, Flag!flag, Flag!client, Flag!TypeOK, FlagsMutex, Pointers, NotificationDue, FlagAssumption
<1>7. RoundsLeft'
  BY DEF Flag!AnySleep, Flag!Goto, Flag!flag, Flag!client, Flag!TypeOK, RoundsLeft
<1> QED BY <1>1, <1>2, <1>3, <1>4, <1>5, <1>6, <1>7

(* Both mutexes are taken back.                                            *)
LEMMA AnyRelockKeeps == ASSUME FlagIInv, NEW t \in Targets, Flag!AnyRelock(t) PROVE FlagIInv'
<1> USE FlagAssumption DEF FlagIInv
<1>1. Flag!TypeOK'
  BY DEF Flag!AnyRelock, Flag!Goto, Flag!flag, Flag!client, Flag!TypeOK, RoundsLeft, Flag!Modes
<1>2. PlaceFitsMode'
  BY DEF Flag!AnyRelock, Flag!Goto, Flag!flag, Flag!client, Flag!TypeOK, PlaceFitsMode, Flag!Modes
<1>3. CallersLock'
  BY DEF Flag!AnyRelock, Flag!Goto, Flag!flag, Flag!client, Flag!TypeOK, PlaceFitsMode, CallersLock, FlagAssumption
<1>4. FlagsMutex'
  BY DEF Flag!AnyRelock, Flag!Goto, Flag!flag, Flag!client, Flag!TypeOK, FlagsMutex
<1>5. Pointers'
  BY DEF Flag!AnyRelock, Flag!Goto, Flag!flag, Flag!client, Flag!TypeOK, Pointers
<1>6. NotificationDue'
  BY DEF Flag!AnyRelock, Flag!Goto, Flag!flag, Flag!client, Flag!TypeOK, FlagsMutex, Pointers, NotificationDue, FlagAssumption
<1>7. RoundsLeft'
  BY DEF Flag!AnyRelock, Flag!Goto, Flag!flag, Flag!client, Flag!TypeOK, RoundsLeft
<1> QED BY <1>1, <1>2, <1>3, <1>4, <1>5, <1>6, <1>7

(* custom_lock is destroyed, on a return and on a throw.                   *)
LEMMA AnyFinalKeeps == ASSUME FlagIInv, NEW t \in Targets, Flag!AnyFinal(t) PROVE FlagIInv'
<1> USE FlagAssumption DEF FlagIInv
<1>1. Flag!TypeOK'
  BY DEF Flag!AnyFinal, Flag!Goto, Flag!InterruptionPoint, Flag!AnyDestruct, Flag!flag, Flag!client, Flag!TypeOK, RoundsLeft, Flag!Modes
<1>2. PlaceFitsMode'
  BY DEF Flag!AnyFinal, Flag!Goto, Flag!InterruptionPoint, Flag!AnyDestruct, Flag!flag, Flag!client, Flag!TypeOK, PlaceFitsMode, Flag!Modes
<1>3. CallersLock'
  BY DEF Flag!AnyFinal, Flag!Goto, Flag!InterruptionPoint, Flag!AnyDestruct, Flag!flag, Flag!client, Flag!TypeOK, PlaceFitsMode, CallersLock, FlagAssumption
<1>4. FlagsMutex'
  BY DEF Flag!AnyFinal, Flag!Goto, Flag!InterruptionPoint, Flag!AnyDestruct, Flag!flag, Flag!client, Flag!TypeOK, FlagsMutex
<1>5. Pointers'
  BY DEF Flag!AnyFinal, Flag!Goto, Flag!InterruptionPoint, Flag!AnyDestruct, Flag!flag, Flag!client, Flag!TypeOK, Pointers
<1>6. NotificationDue'
  BY DEF Flag!AnyFinal, Flag!Goto, Flag!InterruptionPoint, Flag!AnyDestruct, Flag!flag, Flag!client, Flag!TypeOK, FlagsMutex, Pointers, NotificationDue, FlagAssumption
<1>7. RoundsLeft'
  BY DEF Flag!AnyFinal, Flag!Goto, Flag!InterruptionPoint, Flag!AnyDestruct, Flag!flag, Flag!client, Flag!TypeOK, RoundsLeft
<1> QED BY <1>1, <1>2, <1>3, <1>4, <1>5, <1>6, <1>7

(* A poll of the flag.                                                     *)
LEMMA PollKeeps == ASSUME FlagIInv, NEW t \in Targets, Flag!Poll(t) PROVE FlagIInv'
<1> USE FlagAssumption DEF FlagIInv
<1>1. Flag!TypeOK'
  BY DEF Flag!Poll, Flag!Goto, Flag!flag, Flag!client, Flag!TypeOK, RoundsLeft, Flag!Modes
<1>2. PlaceFitsMode'
  BY DEF Flag!Poll, Flag!Goto, Flag!flag, Flag!client, Flag!TypeOK, PlaceFitsMode, Flag!Modes
<1>3. CallersLock'
  BY DEF Flag!Poll, Flag!Goto, Flag!flag, Flag!client, Flag!TypeOK, PlaceFitsMode, CallersLock, FlagAssumption
<1>4. FlagsMutex'
  BY DEF Flag!Poll, Flag!Goto, Flag!flag, Flag!client, Flag!TypeOK, FlagsMutex
<1>5. Pointers'
  BY DEF Flag!Poll, Flag!Goto, Flag!flag, Flag!client, Flag!TypeOK, Pointers
<1>6. NotificationDue'
  BY DEF Flag!Poll, Flag!Goto, Flag!flag, Flag!client, Flag!TypeOK, FlagsMutex, Pointers, NotificationDue, FlagAssumption
<1>7. RoundsLeft'
  BY DEF Flag!Poll, Flag!Goto, Flag!flag, Flag!client, Flag!TypeOK, RoundsLeft
<1> QED BY <1>1, <1>2, <1>3, <1>4, <1>5, <1>6, <1>7

(* A poll of the future.                                                   *)
LEMMA PollWaitKeeps == ASSUME FlagIInv, NEW t \in Targets, Flag!PollWait(t) PROVE FlagIInv'
<1> USE FlagAssumption DEF FlagIInv
<1>1. Flag!TypeOK'
  BY DEF Flag!PollWait, Flag!Goto, Flag!flag, Flag!client, Flag!TypeOK, RoundsLeft, Flag!Modes
<1>2. PlaceFitsMode'
  BY DEF Flag!PollWait, Flag!Goto, Flag!flag, Flag!client, Flag!TypeOK, PlaceFitsMode, Flag!Modes
<1>3. CallersLock'
  BY DEF Flag!PollWait, Flag!Goto, Flag!flag, Flag!client, Flag!TypeOK, PlaceFitsMode, CallersLock, FlagAssumption
<1>4. FlagsMutex'
  BY DEF Flag!PollWait, Flag!Goto, Flag!flag, Flag!client, Flag!TypeOK, FlagsMutex
<1>5. Pointers'
  BY DEF Flag!PollWait, Flag!Goto, Flag!flag, Flag!client, Flag!TypeOK, Pointers
<1>6. NotificationDue'
  BY DEF Flag!PollWait, Flag!Goto, Flag!flag, Flag!client, Flag!TypeOK, FlagsMutex, Pointers, NotificationDue, FlagAssumption
<1>7. RoundsLeft'
  BY DEF Flag!PollWait, Flag!Goto, Flag!flag, Flag!client, Flag!TypeOK, RoundsLeft
<1> QED BY <1>1, <1>2, <1>3, <1>4, <1>5, <1>6, <1>7

(* A wait on a future ends in its interruption point.                      *)
LEMMA PollFinalKeeps == ASSUME FlagIInv, NEW t \in Targets, Flag!PollFinal(t) PROVE FlagIInv'
<1> USE FlagAssumption DEF FlagIInv
<1>1. Flag!TypeOK'
  BY DEF Flag!PollFinal, Flag!Goto, Flag!InterruptionPoint, Flag!flag, Flag!client, Flag!TypeOK, RoundsLeft, Flag!Modes
<1>2. PlaceFitsMode'
  BY DEF Flag!PollFinal, Flag!Goto, Flag!InterruptionPoint, Flag!flag, Flag!client, Flag!TypeOK, PlaceFitsMode, Flag!Modes
<1>3. CallersLock'
  BY DEF Flag!PollFinal, Flag!Goto, Flag!InterruptionPoint, Flag!flag, Flag!client, Flag!TypeOK, PlaceFitsMode, CallersLock, FlagAssumption
<1>4. FlagsMutex'
  BY DEF Flag!PollFinal, Flag!Goto, Flag!InterruptionPoint, Flag!flag, Flag!client, Flag!TypeOK, FlagsMutex
<1>5. Pointers'
  BY DEF Flag!PollFinal, Flag!Goto, Flag!InterruptionPoint, Flag!flag, Flag!client, Flag!TypeOK, Pointers
<1>6. NotificationDue'
  BY DEF Flag!PollFinal, Flag!Goto, Flag!InterruptionPoint, Flag!flag, Flag!client, Flag!TypeOK, FlagsMutex, Pointers, NotificationDue, FlagAssumption
<1>7. RoundsLeft'
  BY DEF Flag!PollFinal, Flag!Goto, Flag!InterruptionPoint, Flag!flag, Flag!client, Flag!TypeOK, RoundsLeft
<1> QED BY <1>1, <1>2, <1>3, <1>4, <1>5, <1>6, <1>7

(* The caller gives its lock up.                                           *)
LEMMA LeaveKeeps == ASSUME FlagIInv, NEW t \in Targets, Flag!Leave(t) PROVE FlagIInv'
<1> USE FlagAssumption DEF FlagIInv
<1>1. Flag!TypeOK'
  BY DEF Flag!Leave, Flag!Goto, Flag!flag, Flag!client, Flag!TypeOK, RoundsLeft, Flag!Modes
<1>2. PlaceFitsMode'
  BY DEF Flag!Leave, Flag!Goto, Flag!flag, Flag!client, Flag!TypeOK, PlaceFitsMode, Flag!Modes
<1>3. CallersLock'
  BY DEF Flag!Leave, Flag!Goto, Flag!flag, Flag!client, Flag!TypeOK, PlaceFitsMode, CallersLock, FlagAssumption
<1>4. FlagsMutex'
  BY DEF Flag!Leave, Flag!Goto, Flag!flag, Flag!client, Flag!TypeOK, FlagsMutex
<1>5. Pointers'
  BY DEF Flag!Leave, Flag!Goto, Flag!flag, Flag!client, Flag!TypeOK, Pointers
<1>6. NotificationDue'
  BY DEF Flag!Leave, Flag!Goto, Flag!flag, Flag!client, Flag!TypeOK, FlagsMutex, Pointers, NotificationDue, FlagAssumption
<1>7. RoundsLeft'
  BY DEF Flag!Leave, Flag!Goto, Flag!flag, Flag!client, Flag!TypeOK, RoundsLeft
<1> QED BY <1>1, <1>2, <1>3, <1>4, <1>5, <1>6, <1>7

(* A wait ends for no reason.                                              *)
LEMMA AnySpuriousKeeps == ASSUME FlagIInv, NEW t \in Targets, Flag!AnySpurious(t) PROVE FlagIInv'
<1> USE FlagAssumption DEF FlagIInv
<1>1. Flag!TypeOK'
  BY DEF Flag!AnySpurious, Flag!Goto, Flag!flag, Flag!client, Flag!TypeOK, RoundsLeft, Flag!Modes
<1>2. PlaceFitsMode'
  BY DEF Flag!AnySpurious, Flag!Goto, Flag!flag, Flag!client, Flag!TypeOK, PlaceFitsMode, Flag!Modes
<1>3. CallersLock'
  BY DEF Flag!AnySpurious, Flag!Goto, Flag!flag, Flag!client, Flag!TypeOK, PlaceFitsMode, CallersLock, FlagAssumption
<1>4. FlagsMutex'
  BY DEF Flag!AnySpurious, Flag!Goto, Flag!flag, Flag!client, Flag!TypeOK, FlagsMutex
<1>5. Pointers'
  BY DEF Flag!AnySpurious, Flag!Goto, Flag!flag, Flag!client, Flag!TypeOK, Pointers
<1>6. NotificationDue'
  BY DEF Flag!AnySpurious, Flag!Goto, Flag!flag, Flag!client, Flag!TypeOK, FlagsMutex, Pointers, NotificationDue, FlagAssumption
<1>7. RoundsLeft'
  BY DEF Flag!AnySpurious, Flag!Goto, Flag!flag, Flag!client, Flag!TypeOK, RoundsLeft
<1> QED BY <1>1, <1>2, <1>3, <1>4, <1>5, <1>6, <1>7

(* A wait is called, with the caller's lock taken.                         *)
LEMMA CallKeeps == ASSUME FlagIInv, NEW t \in Targets, NEW m \in Flag!Modes, Flag!Call(t, m) PROVE FlagIInv'
<1> USE FlagAssumption DEF FlagIInv
<1>1. Flag!TypeOK'
  BY DEF Flag!Call, Flag!Goto, Flag!flag, Flag!client, Flag!TypeOK, RoundsLeft, Flag!Modes
<1>2. PlaceFitsMode'
  BY DEF Flag!Call, Flag!Goto, Flag!flag, Flag!client, Flag!TypeOK, PlaceFitsMode, Flag!Modes
<1>3. CallersLock'
  BY DEF Flag!Call, Flag!Goto, Flag!flag, Flag!client, Flag!TypeOK, PlaceFitsMode, CallersLock, FlagAssumption
<1>4. FlagsMutex'
  BY DEF Flag!Call, Flag!Goto, Flag!flag, Flag!client, Flag!TypeOK, FlagsMutex
<1>5. Pointers'
  BY DEF Flag!Call, Flag!Goto, Flag!flag, Flag!client, Flag!TypeOK, Pointers
<1>6. NotificationDue'
  BY DEF Flag!Call, Flag!Goto, Flag!flag, Flag!client, Flag!TypeOK, FlagsMutex, Pointers, NotificationDue, FlagAssumption
<1>7. RoundsLeft'
  BY DEF Flag!Call, Flag!Goto, Flag!flag, Flag!client, Flag!TypeOK, RoundsLeft
<1> QED BY <1>1, <1>2, <1>3, <1>4, <1>5, <1>6, <1>7

(* The flag is set, and the notification is now due.                       *)
LEMMA SetStoreKeeps == ASSUME FlagIInv, NEW t \in Targets, Flag!SetStore(t) PROVE FlagIInv'
<1> USE FlagAssumption DEF FlagIInv
<1>1. Flag!TypeOK'
  BY DEF Flag!SetStore, Flag!flag, Flag!client, Flag!TypeOK, RoundsLeft, Flag!Modes
<1>2. PlaceFitsMode'
  BY DEF Flag!SetStore, Flag!flag, Flag!client, Flag!TypeOK, PlaceFitsMode, Flag!Modes
<1>3. CallersLock'
  BY DEF Flag!SetStore, Flag!flag, Flag!client, Flag!TypeOK, PlaceFitsMode, CallersLock, FlagAssumption
<1>4. FlagsMutex'
  BY DEF Flag!SetStore, Flag!flag, Flag!client, Flag!TypeOK, FlagsMutex
<1>5. Pointers'
  BY DEF Flag!SetStore, Flag!flag, Flag!client, Flag!TypeOK, Pointers
<1>6. NotificationDue'
  BY DEF Flag!SetStore, Flag!flag, Flag!client, Flag!TypeOK, FlagsMutex, Pointers, NotificationDue, FlagAssumption
<1>7. RoundsLeft'
  BY DEF Flag!SetStore, Flag!flag, Flag!client, Flag!TypeOK, RoundsLeft
<1> QED BY <1>1, <1>2, <1>3, <1>4, <1>5, <1>6, <1>7

(* The notification finds the sleeper: it holds no cv_mtx_ and is          *)
(* registered.                                                             *)
LEMMA SetNotifyKeeps == ASSUME FlagIInv, NEW t \in Targets, Flag!SetNotify(t) PROVE FlagIInv'
<1> USE FlagAssumption DEF FlagIInv
<1>1. Flag!TypeOK'
  BY DEF Flag!SetNotify, Flag!WakeAll, Flag!flag, Flag!client, Flag!TypeOK, RoundsLeft, Flag!Modes
<1>2. PlaceFitsMode'
  BY DEF Flag!SetNotify, Flag!WakeAll, Flag!flag, Flag!client, Flag!TypeOK, PlaceFitsMode, Flag!Modes
<1>3. CallersLock'
  BY DEF Flag!SetNotify, Flag!WakeAll, Flag!flag, Flag!client, Flag!TypeOK, PlaceFitsMode, CallersLock, FlagAssumption
<1>4. FlagsMutex'
  BY DEF Flag!SetNotify, Flag!WakeAll, Flag!flag, Flag!client, Flag!TypeOK, FlagsMutex
<1>5. Pointers'
  BY DEF Flag!SetNotify, Flag!WakeAll, Flag!flag, Flag!client, Flag!TypeOK, Pointers
<1>6. NotificationDue'
  BY DEF Flag!SetNotify, Flag!WakeAll, Flag!flag, Flag!client, Flag!TypeOK, FlagsMutex, Pointers, NotificationDue, FlagAssumption
<1>7. RoundsLeft'
  BY DEF Flag!SetNotify, Flag!WakeAll, Flag!flag, Flag!client, Flag!TypeOK, RoundsLeft
<1> QED BY <1>1, <1>2, <1>3, <1>4, <1>5, <1>6, <1>7

(* A notification by the client moves one sleeper.                         *)
LEMMA NotifyKeeps == ASSUME FlagIInv, Flag!Notify PROVE FlagIInv'
<1> USE FlagAssumption DEF FlagIInv
<1>1. Flag!TypeOK'
  BY DEF Flag!Notify, Flag!Goto, Flag!flag, Flag!client, Flag!TypeOK, RoundsLeft, Flag!Modes
<1>2. PlaceFitsMode'
  BY DEF Flag!Notify, Flag!Goto, Flag!flag, Flag!client, Flag!TypeOK, PlaceFitsMode, Flag!Modes
<1>3. CallersLock'
  BY DEF Flag!Notify, Flag!Goto, Flag!flag, Flag!client, Flag!TypeOK, PlaceFitsMode, CallersLock, FlagAssumption
<1>4. FlagsMutex'
  BY DEF Flag!Notify, Flag!Goto, Flag!flag, Flag!client, Flag!TypeOK, FlagsMutex
<1>5. Pointers'
  BY DEF Flag!Notify, Flag!Goto, Flag!flag, Flag!client, Flag!TypeOK, Pointers
<1>6. NotificationDue'
  BY DEF Flag!Notify, Flag!Goto, Flag!flag, Flag!client, Flag!TypeOK, FlagsMutex, Pointers, NotificationDue, FlagAssumption
<1>7. RoundsLeft'
  BY DEF Flag!Notify, Flag!Goto, Flag!flag, Flag!client, Flag!TypeOK, RoundsLeft
<1> QED BY <1>1, <1>2, <1>3, <1>4, <1>5, <1>6, <1>7

--------------------------------------------------------------------------------
(* The invariant, and what it is for.                                      *)

(* Everybody begins outside.                                               *)
LEMMA FlagInit == Flag!Init => FlagIInv
<1> SUFFICES ASSUME Flag!Init PROVE FlagIInv
  OBVIOUS
<1> USE FlagAssumption DEF FlagAssumption, Flag!Init
<1>1. Flag!TypeOK
  <2>1. rounds \in [Targets -> 0 .. Rounds] /\ notifies \in 0 .. Notifies
    OBVIOUS
  <2>2. /\ flag_ \in [Targets -> BOOLEAN] /\ cv_ \in [Targets -> BOOLEAN] /\ cv_any_ \in [Targets -> BOOLEAN]
        /\ thrown \in [Targets -> BOOLEAN] /\ ready \in BOOLEAN
    BY Zenon
  <2>3. mode \in [Targets -> Flag!Modes] /\ setting \in [Targets -> {"store", "notify", "done"}]
    BY DEF Flag!Modes
  <2>4. cv_mtx_ \in [Targets -> Targets \cup {Free}] /\ lk \in Targets \cup {Free}
    BY Zenon
  <2> QED BY <2>1, <2>2, <2>3, <2>4 DEF Flag!TypeOK
<1>2. PlaceFitsMode /\ CallersLock /\ FlagsMutex
  BY DEF PlaceFitsMode, CallersLock, FlagsMutex
<1>3. Pointers /\ RoundsLeft /\ NotificationDue
  BY DEF Pointers, RoundsLeft, NotificationDue
<1> QED BY <1>1, <1>2, <1>3 DEF FlagIInv

(* No step leaves the invariant.                                           *)
LEMMA FlagNext == FlagIInv /\ [Flag!Next]_(Flag!vars) => FlagIInv'
<1> SUFFICES ASSUME FlagIInv, [Flag!Next]_(Flag!vars) PROVE FlagIInv'
  OBVIOUS
<1>1. ASSUME NEW t \in Targets, Flag!Step(t) PROVE FlagIInv'
  BY <1>1, EnterKeeps, RegisterKeeps, TestKeeps, SleepKeeps, TimeoutKeeps, RelockKeeps, FinalKeeps,
     UnwindKeeps, AnyLockKeeps, AnyTestKeeps, AnySleepKeeps, AnyRelockKeeps, AnyFinalKeeps, PollKeeps,
     PollWaitKeeps, PollFinalKeeps, LeaveKeeps DEF Flag!Step
<1>2. ASSUME NEW t \in Targets, Flag!AnySpurious(t) PROVE FlagIInv'
  BY <1>2, AnySpuriousKeeps
<1>3. ASSUME NEW t \in Targets, NEW m \in Flag!Modes, Flag!Call(t, m) PROVE FlagIInv'
  BY <1>3, CallKeeps
<1>4. ASSUME NEW t \in Targets, Flag!SetStore(t) \/ Flag!SetNotify(t) PROVE FlagIInv'
  BY <1>4, SetStoreKeeps, SetNotifyKeeps
<1>5. CASE Flag!Notify
  BY <1>5, NotifyKeeps
<1>6. CASE UNCHANGED Flag!vars
  BY <1>6 DEF Flag!vars, FlagIInv, Flag!TypeOK, PlaceFitsMode, CallersLock, FlagsMutex, Pointers, RoundsLeft, NotificationDue
<1> QED BY <1>1, <1>2, <1>3, <1>4, <1>5, <1>6 DEF Flag!Next

(* The inductive invariant holds in every reachable state.                 *)
LEMMA FlagInvariance == Flag!Spec => []FlagIInv
BY FlagInit, FlagNext, PTL DEF Flag!Spec

(* Every variable keeps its type, and however a wait ends the caller has   *)
(* its lock back, and neither the flag's mutex nor a pointer is kept.      *)
THEOREM ConsistentHolds == Flag!Spec => []Consistent
<1>1. FlagIInv => Consistent
  <2> SUFFICES ASSUME FlagIInv PROVE Flag!NothingLeftBehind
    BY DEF FlagIInv, Consistent, Flag!Consistent
  <2> QED BY FlagAssumption
       DEF FlagIInv, Flag!TypeOK, CallersLock, FlagsMutex, Pointers, Flag!NothingLeftBehind, FlagAssumption
<1> QED BY <1>1, FlagInvariance, PTL

(* A target asleep without a time limit although its flag is set has its   *)
(* notification still to come, however many interrupters and notifiers     *)
(* there are.                                                              *)
THEOREM NoLostInterruptHolds == Flag!Spec => []NoLostInterrupt
<1>1. FlagIInv => NoLostInterrupt
  BY DEF FlagIInv, NotificationDue, NoLostInterrupt, Flag!NoLostInterrupt
<1> QED BY <1>1, FlagInvariance, PTL

(* The waits that share the caller's lock exclude one another: two targets *)
(* are never both past a look at the predicate and not yet asleep.         *)
THEOREM CallersExclude ==
  Flag!Spec => [](\A t, u \in Targets :
               flagPc[t] \in {"test", "sleep", "anytest", "anysleep"} /\ flagPc[u] \in {"test", "sleep", "anytest", "anysleep"}
                 => t = u)
<1>1. FlagIInv => \A t, u \in Targets :
               flagPc[t] \in {"test", "sleep", "anytest", "anysleep"} /\ flagPc[u] \in {"test", "sleep", "anytest", "anysleep"}
                 => t = u
  BY DEF FlagIInv, CallersLock
<1> QED BY <1>1, FlagInvariance, PTL

--------------------------------------------------------------------------------

(* A behaviour of which one of the two is a part is one of each, so that   *)
(* what was proved of each holds of it.                                    *)
THEOREM OneKind == AtomicsSpec => Spec /\ Flag!Spec
<1>1. AtomicsInit => Init /\ Flag!Init
  BY DEF AtomicsInit
<1>2. [AtomicsNext]_<<which, vars, interrupts>> => [Next]_vars
  BY DEF AtomicsNext
<1>3. [AtomicsNext]_<<which, vars, interrupts>> => [Flag!Next]_(Flag!vars)
  <2>1. interrupts' = interrupts => Flag!vars' = Flag!vars
    BY DEF interrupts, Flag!vars
  <2> QED
    BY <2>1 DEF AtomicsNext
<1> QED
  BY <1>1, <1>2, <1>3, PTL DEF AtomicsSpec, Spec, Flag!Spec

================================================================================

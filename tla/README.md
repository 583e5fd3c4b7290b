# Verification of LearningModernCpp

The repository is a collection of studies of modern C++. Most of its own code
is small and sequential; what is hard to get right, and hardly testable, is its
concurrent part: the containers and primitives of `multithread/`, the Asio
programs of `asio_test/`, and the ownership of coroutine frames. This directory
models those parts in TLA+, checks them on small instances with TLC, and proves
the safety of each of them for every instance with TLAPS.

Contents: [inventory](#inventory), [modules](#modules-and-the-code),
[runs](#runs), [what disagrees with the code](#disagreements-found),
[fairness](#fairness), [proofs](#proofs),
[limits](#what-is-only-model-checked-and-what-is-left-out).

## Inventory

Paths are relative to `src/`.

### Modelled

**CSP channel** (`multithread/csp_customer_productor.h`). A bounded queue under
one mutex with two condition variables and a `closed_` flag. `send` waits for a
slot, `receive` for a message, `close` notifies everyone. Productors and
customers share the object. Hard: which thread a `notify_one` reaches, the end
of the conversation. Correct if it is a FIFO channel, no wake-up is lost, it
never stalls with work left, and a customer leaves only when nothing can come.

**Thread-safe queue** (`multithread/thread_safe_queue.h`). A linked list with a
dummy node, a mutex for each end, and a condition variable that is waited on
under the one and notified under the other. `push`, `pop`, `try_pop`,
`wait_and_pop`, `empty`. Hard: both ends may be one node; the wait races with
the notification; locks are nested. Correct if the chain of nodes always holds
what was pushed and not popped, no field is read while it may be written, and
nobody sleeps for ever beside a value.

**Thread-safe stack** (`multithread/thread_safe_stack.h`). `std::stack` under
one mutex with one condition variable; the same calls. Correct if no value is
lost or given out twice and no wake-up is lost.

**Lock-free stack** (`multithread/lock_free_stack.h`). A Treiber stack with a
count of the threads inside `pop` and a list of nodes to be deleted later.
Shared: head, list, count, the allocator. Hard: a node may be deleted under a
reader, or come back at the same address between a read and its CAS.

**Interrupt flag** (`multithread/interruptible_thread.h`). A thread-local
`interrupt_flag` with pointers to the condition variable its thread waits on;
`set` on it from another thread; four kinds of interruptible wait. Hard: an
interrupt between the last check and the sleep; unwinding with locks held.
Correct if no interrupt is lost and every exit leaves locks and pointers as
they were.

**Parallel find and traversal** (`multithread/paraller_find.h`,
`parallel_traversal.h`). A range is divided into blocks of equal length for
`std::async` and a rest for the caller; the blocks of `find` share a promise
and a flag. Hard: the arithmetic of the division; a promise may be set once.
Correct if the blocks together do what one loop would.

**Chat** (`asio_test/chat/`). The server keeps, for a room, its participants
and the recent messages, and for a session a queue of messages to write, of
which one at most is being written. The client has a main thread that reads
lines and an io thread that does everything else. They talk in messages of a
four-byte decimal length and a body. Hard: completions come in any order and
with any outcome; history and live messages meet in one queue; connections
go at any moment, amid a message; both ends may be writing at once; a conversion
from text becomes the size of a read.

**Daytime servers** (`asio_test/udp/udp_server_async.cpp`,
`tcp/tcp_server_async.cpp`, `tcp_udp_server_async.cpp`). A receive that is
always outstanding and shares one `endpoint_` with all its successors; an
accept that is always outstanding; answers whose buffers must live until they
are sent. Hard: which object an operation keeps alive, what an error stops.
Correct if everyone is answered once, the right one, whole.

**Sequence generators** (`coroutine/tsequencegenerator/`, and
`coroutine/sequencegenerator/`, the same without a template). A handle, a
promise with the next value, and chains of `map`, each of which owns the
generator before it. Hard: `hasNext` runs ahead of `next`; who destroys a frame.

**Memory orders** (`multithread/sequential_consistent.h`, `acquire_release.h`,
`memory_fence.h`, `6_memory_orders.h`, `spin_lock.h`, `thread_safe_singleton.h`).
Demos in which two to six threads store and load a few atomics, a spin lock and
a double-checked singleton. Hard: what a thread may read depends on the orders
of all the accesses, and x86 shows only a part of it.

### Not modelled

| Part | Files | Why |
|---|---|---|
| Interruptible thread's constructor | `multithread/interruptible_thread.h` | waits on a future before it starts the thread that sets it: nothing behind it is ever reached (see below) |
| Task promise | `coroutine/task/task.h` | in no program: the template is never instantiated and would not compile (`final_suspend` may throw, `then` calls a `get_or_throw` that does not exist) |
| 7in7out | `coroutine/7in7out/` | one function resumes one coroutine a fixed number of times |
| `flat_map`, `from(initializer_list)` | `coroutine/tsequencegenerator/sequencegenerator.h` | undefined in every use: the one needs the end of an inner generator, the other refers to a list that is gone |
| The stack's copy constructor | `multithread/thread_safe_stack.h` | in no program: it locks the mutex of a `const` object, which would not compile |
| Alternating printer | `multithread/test_condition_variable.h` | a condition variable for each of two threads, all under one mutex: a case of what the channel's and the stack's waits contain |
| Semaphore | `multithread/test_semaphore.h` | each thread is joined before the next is created |
| Dichotomy traversal, futures, joins | `multithread/dichotomy_traversal.h`, `3way_async.h`, `shared_future.h`, `join_threads.h` | threads that share nothing, or one atomic sum, and are joined |
| Timers, HTTP clients | `asio_test/timer/`, `http/` | one handler after the other; one outstanding operation |
| Synchronous servers and clients, echo | `asio_test/udp`, `tcp`, `echo` | straight-line input and output |
| Containers | `container/` | sequential value types, within reach of unit tests |
| Language notes | `cpp_syntax/`, `modern_cpp/`, `utils_func/` | syntax and templates |
| `smart_pointer/`, `qt_diy/` | | empty files |
| Asio | `include/asio` | vendored |

The vendored Asio is nearly all of the tree by lines, so the modelled share of the
*tree* is small by nature, although the concurrent code the repository itself
wrote is nearly all covered. What the programs rely on of Asio is modelled where
they use it and mapped to Asio's lines (`async_write`'s pieces, `async_connect`'s
endpoints, `run()`, a reactor's speculative operations); the rest of the library
is not this repository's to verify.

The hazards of each part are listed in `PROJECT.json` at the line where they bite.

## Modules and the code

| Module | Models | State and granularity |
|---|---|---|
| `FifoChannel` | what a channel promises | two sequences: accepted and delivered |
| `CSPChannel` | `csp_customer_productor.h` | `queue_`, `closed_`, a pc per thread; an action is one tenure of `mtx_`, since everything runs under it |
| `ThreadSafeQueue` | `thread_safe_queue.h` | nodes in order of allocation, both ends, both mutexes; an action lies between two points another thread can tell apart, e.g. push is lock, link, fill, advance, notify |
| `ThreadSafeStack` | `thread_safe_stack.h` | `data_`, pc; one tenure of `mtx_` |
| `LockFreeStack` | `lock_free_stack.h` | the three atomics, the allocator, the nodes; an action is one access. Undefined behaviour and uncaught exceptions end the program, with the reason in `outcome` |
| `InterruptFlag` | `interrupt_flag` and the waits | flag, `cv_mtx_`, the pointers (registered or null), the caller's lock, pc by kind of wait |
| `ParallelBlocks` | `paraller_find.h`, `parallel_traversal.h` | the caller's iterators, a pc and two iterators per block, the promise; an action is the visit of an element, `set_value`, or the store to `has_found` |
| `ChatRoom` | what the room promises | one conversation, each participant's share of it, what each was shown |
| `ChatServer` | `chat_server.cpp` | room, sessions, outstanding operations, the clients' wires; an action is one completion handler, since one thread runs the `io_context` |
| `ChatClient` | `chat_client.cpp` | main thread, posted handlers, the operations outstanding and whether they are doomed |
| `ChatSystem` | both programs and the network between them | a `ChatClient`, an instance of `ChatServer`, and a wire each way that holds a few pieces; a step of the network is a step of one of the two, or of both |
| `ChatMessage` | `chat_message.hpp` | functions, extended by `ChatClient`: the header as characters; `sprintf("%4d")`, `atoi` and the conversion to `unsigned` by what they do |
| `DaytimeServers` | the three asynchronous daytime servers, chosen at the start | the socket's buffer, `endpoint_`, the receive, the sends that wait and whether their message is kept, the accept, the connections; an action is one handler or one operation the reactor completes |
| `SequenceGenerator` | `tsequencegenerator/sequencegenerator.h` | a frame and a promise per stage, the handles the user holds; an action is a `hasNext` entered or returned from |
| `ViewMemory` | the C++ memory model (external) | messages per location, views per thread |
| `MemoryOrders` | the six headers on memory orders | each program as instructions of `ViewMemory` |

`ChatServer` implements `ChatRoom` and `CSPChannel` implements `FifoChannel` by
`INSTANCE`. `ChatSystem` replaces the environments of client and server by each
other. Three modules put parts that share nothing beside each other, of which the
initial state picks the one that is used, so that one run asks the questions of both:
`MCContainers` the queue and the stack, `MCTraversals` the blocks and the generators,
`MCAtomics` the memory orders and the interrupt flag. A theorem for each
(`OneOfTwo`, `OneWay`, `OneKind`) says that a behaviour of the run is a behaviour of
both parts, so that what is proved of a part holds of the run. The `MC` modules instantiate a module for TLC;
a definition whose name continues that of another (`Push_Silent`,
`lockInTwoSteps`) is a plausible fault of it, against which the properties have
been tried: each property of each passing run fails for at least one.

What belongs to libraries is modelled from its use: a wait on a condition
variable gives up the mutex and joins the wait set at once, may end
spuriously, and a `notify_one` takes any waiter; an asynchronous operation's
handler runs later, never inside the call, at most once, with success or an
error. The operation itself may be done inside the call: Asio's reactor tries a
receive when it is started, and `DaytimeServers` has both.

`ViewMemory` is a view machine: each location is the sequence of the messages
written to it, and a thread's view says how old a message it may still read. A
release store attaches the view and an acquire load takes it over; fences do the
same for relaxed accesses. Its comment says where it is not exact: stores go
last in the modification order, and loads are not delayed. Neither makes a
difference for these programs, whose locations have one writer at a time (but for
sequentially consistent stores), and whose relaxed loads no store follows.

## Runs

| Run | Instance | Shows |
|---|---|---|
| `csp_channel` | 2 productors, 2 customers, capacity 2, 3 messages each | order and content, no lost wake-up on either side, a customer leaves and the threads rest only when the channel is drained, implements `FifoChannel` with its promise of delivery |
| `csp_customer_hangs` | `main`: 1 + 1 | violated: the customer may sleep on a closed channel |
| `containers` | one container per behaviour, queue or stack: 2 producers of 2 values each, 2 consumers, 1 poller that polls twice | the queue's values come out in order, one behind, its chain is intact, its ends are never read and written at once, no deadlock, a lost notification is made good by the next push; the stack loses and doubles nothing and loses no wake-up |
| `tsq_lost_wakeup` | `main`: 1 + 1 | violated: the consumer may sleep beside a full queue |
| `lfs_safety` | 2 threads that push, one that pops and checks, one that pops and trusts, 3 nodes, 2 rounds; symmetric in the nodes and the pushers | no use after free, no ABA, the list intact, LIFO, the counter exact — and the list of delayed nodes never gets an element |
| `atomics` | a program of `MemoryOrders`, each in turn; or the interrupt flag with 2 targets, 2 waits each of four kinds, 1 notification | asserts of programs with strong enough orders hold and they do not race; one singleton; the spin lock excludes; every program ends. No interrupt lost between check and sleep; every exit restores locks and pointers; an interrupted wait ends with the exception |
| `traversals` | up to 7 elements, any matches, 0 to 4 hardware threads, blocks of 2 at least; or up to 3 stages, 7 calls, sources of 0 to 3 values and endless | the elements are visited in order and once; find returns the first match and sets its promise once. No value skipped, repeated or mapped twice; frames are destroyed once, unless a finite source has run off its end |
| `chat_server` | 2 sessions, 4 pieces each, history of 1 | one write at a time and none forgotten, participants are read, a queue is the rest of the session's share, implements `ChatRoom`; a session whose client is gone is released; clients that read hear everything |
| `chat_system` | the client with 2 lines and 2 endpoints, the server with another participant, one piece per direction on the wire, all headers over five characters | the client's lines keep their order and end to end nothing of the conversation is lost, doubled or reordered while the connection lasts; the two ends agree on where a message begins; no decoded length exceeds the buffer; the end of input ends the program; a server that goes ends the io thread; a line of a client that stays comes back to it, although both ends write into full buffers |
| `servers` | 2 clients, 3 datagrams, 2 pieces, 2 failing accepts | every datagram answered once, in order, to its sender, intact unless it had to wait in the server that does not keep it; what was received is answered even if the next receive fails; accepts go on after failures |

`Consistent` joins a module's type invariant with the structural one that goes
with it (each value in one place, the counter and the list, locks and pointers
restored, everyone in the room read, a write under way while lines are queued).

*Bounds.* Two threads of a kind and a third with other calls are the smallest
instances in which a notification can reach the wrong one, a woken thread can
be overtaken, and a mutex can be contended while another is held; capacities
and histories are smaller than the traffic, so that queues fill and history is
trimmed. Three nodes for two rounds make the allocator reuse
addresses. Two pieces are one message; four are two, or one and a header
refused: two sessions with four pieces have the second message of one
trimmed from under the other's joining. One piece per direction on the wire is
what makes both ends of `chat_system` block in the middle of a message. The five
characters of a header are a
digit, a small and a large one, a blank, a sign and a letter: every branch of
`atoi`; the lengths encoded have one to three digits and go beyond the limit. The
word in `ChatMessage` has 16 bits for the code's 32, wide enough for any number of
four characters. Seven elements in blocks of two make up to four blocks, and
quotients with and without remainder; 0 hardware threads is the division by zero.
Three datagrams are one answered, one being answered and one that overwrites
`endpoint_`. Three stages are a source, a map with a map above and one without.
The programs of `MemoryOrders` are finite and checked as they are.
Symmetry is used where a run has no liveness property, over threads and nodes
that no definition distinguishes.

`CHECK_DEADLOCK FALSE` stands only where the system really stops: threads end,
clients go, or a consumer may wait for ever (which the properties then address).

## Disagreements found

The first two are runs expected to be violated, and findings in `PROJECT.json`.

1. `csp_customer_productor.h:41`: `receive` does not wake on `close`, so
   `customer.join()` may never return.
2. `thread_safe_queue.h:32`: `push` notifies without the mutex the waiter tests
   under; the notification can be lost and `t_pop.join()` never returns. The
   proofs and `NextPushWakes` say how bad it is: the list stays right, and any
   later push repairs it.

Seen on reading, with no interleaving for a run to add:

- `interruptible_thread.h:107`: the constructor waits for a promise that only
  the thread it has yet to start would set, so it never returns.
- `lock_free_stack.h:21`: `push` does not store the value, so its test's
  assertion cannot hold. `:74` dereferences null when two poppers overlap;
  `LockFreeStack` stops there, and `DelayListStaysEmpty`, a part of `Consistent`,
  records why.
- `tsequencegenerator/sequencegenerator.h:163`: "after coroutine executed, invoke
  form outside throw exception". No exception: a coroutine that ends destroys its
  own frame, and `hasNext` goes on to use it. `FramesDestroyedOnce` says this is the
  only way to come to that.
- `paraller_find.h:33`: with `hardware_concurrency()` at 0, which the standard
  allows, the length of a block is a division by zero. `LikeOneLoop` lets that
  outcome (`crashed`) pass.
- `tcp_udp_server_async.cpp:88`: a send that has to wait sends what is no longer
  its message (`EachAnswered` allows it in this server only); and its TCP half opens an
  acceptor and never accepts.

Some comments on memory orders claim more than the code does. They have no run
of their own, but `MemoryOrders` has behaviours against each:
`memory_fence.h:36` (the two readers may disagree), `acquire_release.h:116` and
`:141` (a load nobody tests, and fences that pair with nothing, guarantee
nothing), `6_memory_orders.h:110` (any output is possible). These programs are
checked for `Terminates` only; `Sound` names those whose asserts are checked.

Not a finding but worth knowing: the queue's consumer can leave while values
are still to come (`thread_safe_queue.h:109`), and a chat client that ends its
input loses the lines queued behind the outstanding write (`chat_client.cpp:36`).

## Fairness

Every fair specification asks for no more than this:

- *Threads* (`WF` on a thread's steps): a thread that can go on eventually does;
  where it needs a mutex that others keep taking (`InterruptFlag`), strong
  fairness, i.e. a mutex does not starve a thread. Spurious wake-ups are allowed
  and never assumed. In `containers` the queue's producers, consumers and pollers are
  made to go on when they can; of the stack only safety is checked.
- *Completion handlers*: an operation that can complete eventually does, and
  its handler runs: `run()` does not idle while a handler is due. In `ChatSystem`
  that is one condition for each of the two programs, and one for the wire in each
  direction: a piece on it arrives if the other end reads. A write to a client that
  is still there need never complete by itself, for the client may not read;
  `EverybodyHears`, the one property about clients that do, has that as its premise
  (`AttentiveClients`). In `DaytimeServers` nothing is assumed of writes to
  connections, and a datagram socket that is full drains.
- *The environment* — clients, users, servers, interrupters before they begin —
  owes nothing.
- *Stores become visible* after a finite time (`MCAtomics`), as the standard
  recommends ([atomics.order]); otherwise no spin loop ends.

## Proofs

All for arbitrary sets of threads and arbitrary bounds, from the assumptions the
modules name.

**`CSPChannelProofs`**: `Typing`, `FifoContentsHolds`, `NoLostWakeups`,
`CustomerLeavesDrainedHolds`, `RestsOnlyWhenDrainedHolds`,
`ImplementsFifoChannel`. The inductive invariant adds to the checked ones that
`close` is the last thing a productor does (`DoneMeansClosed`) and that a
productor in its loop has a message left (`LoopIndex`); the two are what keeps
a customer from leaving early and the messages within their set. The heart is
the counting of wake-ups: *while somebody sleeps, the woken of its kind are at
least as many as the messages (slots)*. A push adds a message and wakes one;
a pop consumes both; a thread that goes back to sleep found nothing, when the
bound is 0. Three lemmas on cardinalities (`LoseOne`, `GainOne`,
`WokenCounted`) carry that argument. That the threads rest only when all is
drained follows from the invariant without a step of its own, and the
refinement maps each push, pop and close to a step or a stutter.

**`ContainersProofs`**, the queue: `Typing`, `OneBehindHolds`, `ListIntactHolds`,
`EndsApartHolds`. The inductive invariant adds `Roles` (which thread may be
where), `Owners` (who owns a mutex stands inside it), `PushInProgress` (how far
the one push under way has got: allocated, filled, published) and `TakeHasNode`
(whoever is about to take a node has seen one, and it is still there, because
only the owner of `head_mtx_` removes any). `EndsApart`, that no node field is
read while it may be written, follows: a reader stands strictly before the
tail, and a writer at or behind it. The proof has a lemma per action.

The same module has the stack: `StackConsistentHolds`, `StackNoLostWakeupHolds`. A
push hands out a new value because `Numbered` bounds the numbers of the values
pushed by their producers' counters; the wake-ups are counted as in
`CSPChannelProofs`, with one kind of sleeper. `OneOfTwo` says that a behaviour of the
`containers` run is one of each container, so that what is proved of the two
specifications holds of the one that run checks. All of it rests on
`ThreadSafeQueueAssumption` (one role per thread, finitely many consumers), the
assumption that run evaluates.

`NoDeadlock` is stated with `ENABLED` and stays with TLC; `LocksNestOneWay` proves what
it is for: unless everyone is asleep or done, somebody has the mutexes its next step
needs, since the owner of `tail_mtx_` waits for nothing and the owner of `head_mtx_`
for `tail_mtx_` at most.

**`LockFreeStackProofs`**: `ConsistentHolds`, `ReclamationSafeHolds`,
`LastInFirstOutHolds`, for any finite sets of threads and nodes and any number
of rounds. `LastInFirstOut` says of a step that there is a list the head leads to
before it, and that afterwards the head leads to the same, to the same with a node
in front, or to what is left without the front. The invariant divides the
nodes: a thread's own (`OwnNodes`: allocated and not yet pushed, or popped and
not yet deleted), those on the one list (`SharedList`), and the free ones; and
`EyedNodes` says that the node a popper has read from the head is not free, not
about to be deleted, in no pusher's hand, and keeps the next it had. That is
inductive because of `CounterAgrees`: a node is deleted only by a thread that
found itself alone inside `pop` when it looked, after the node was off the list, so
that nobody has it in the eye and nobody who comes later can get it (lemma `Alone`);
the popper that is not alone comes to the null dereference, where the program ends.

**`AtomicsProofs`**, the memory orders: `OrdersSufficeHolds`, `OneInstanceHolds`,
`PrintsWholeHolds`, `NeverBack`. Of the programs they assume `ProgramsAssumption`, which
the run evaluates: instructions access locations there are and jump to a place
(`WellFormed`), and a program with a name the properties speak of is that program
(`Known`), the spin lock and the singleton with any set of threads. The argument has
two layers. `Machine` holds for every program: `ViewsWithin` says that all views, of
threads, of messages and of the mutex, are of messages there are, and `StepViews` that
a step only moves views onward, which is `NeverBack`. On top of it is an invariant for
each program, by the places of its threads. The singleton's, `OnceBuilt`, is that there
are at most two messages on either location and that the message of `atm_` that says
*built* carries a view in which the instance is seen (`Built`); that the mutex passes on
all its owners have seen (`Guarded`); and that a thread past either check has taken over
such a view (`Fits`), so that its plain read of the pointer does not race and finds 1.
For the spin lock, `Whole` says that the flag's last message is a 1 while someone is
inside, that nobody else is, and that what is printed is whole lines and the part of one
that belongs to the thread inside (`Lines`). `NeverAsserts`, `Relays` and `Ascends` are
those of the three demos; the first two rest on a sequentially consistent load's reading
the last message (`ReadsLast`), the third on two loads of one location never going back.

The same module has the interrupt flag: `ConsistentHolds`, `NoLostInterruptHolds`,
`CallersExclude`. The invariant says of each target by its place whether it has
the caller's lock (`CallersLock`), its flag's mutex (`FlagsMutex`) and which
pointer is registered (`Pointers`), and extends `NoLostInterrupt` to the moment
the decision to sleep is taken (`NotificationDue`). That one is inductive because
`cv_mtx_` is held from the look at the flag to the joining of the wait set: `set`
can store in between, but not notify, and when it does notify it finds the
sleeper registered.

**`TraversalsProofs`**, the blocks: `LikeOneLoopHolds`, `AloneWithinRange`, for every
length, set of matches, number of hardware threads and minimum. `Division` places block
*i* at *i* times the quotient; that it stays inside the range is `BlocksFit`, from the
fact that a quotient times its divisor does not exceed the dividend. `Alone` says nobody
runs but the block waited for, `Frontier` that it stands exactly where the
visits have got to, and `Findings` that what the promise holds is the last element
visited, and the first match.

The same module has the generators: `EachValueOnceHolds`, `FramesDestroyedOnceHolds`,
`TakesInOrder`, for any number of stages, sources of any length and any calls. At most
one stage has a value that nobody has taken, and `OneAhead` says where: at the last one
between calls, at the one that has just returned *true*, or nowhere beyond the stage that
is being asked. Without it a second `hasNext` could run a stage again whose value is
still to be taken. `Counted` ties that value to the number of values received and to
what the source has made, and `Frames` says that while the user holds a handle it is the
last stage's, and that a frame is gone then only if its source never had a value.

**`DaytimeServersProofs`**: `EachAnsweredHolds`. The senders of the answers given,
of those that wait and the one in hand are, in that order, the senders of the
datagrams taken. `SendEffect` and `ReceiveEffect` are the two statements of
`handleReceive`: after the first nothing is in hand, and it addresses `endpoint_`
before the second may overwrite it. `KeptByUdpOnly` says whose waiting answers
may be garbled.

**`ChatServerProofs`**: `ConsistentHolds`, `QueueIsRestOfShareHolds`,
`ImplementsChatRoom`, for any sessions, any history of at least one message and any
number of pieces. `RecentIsEnd` (the history is exactly the end of the
conversation) is why the share a newcomer is given has no gap before the live
messages; `Shares` extends it to sessions that have left with messages in their
queue: what was written and what is queued are the conversation from the first
message the session got to the last before it left. `PutBound` (no more is read
than was put on the wire) keeps the numbers of messages in their type. The proof
that the handlers implement `ChatRoom` is by cases: accepting is joining, a body read is
saying, each failure that takes a session out is leaving, a write that is done is
showing, and the rest are stutters.

**`ChatSystemProofs`** has the client, alone and with the server: `ClientConsistentHolds`,
`LinesInOrderHolds`, `EndsAgreeHolds`, `ConversationKeptHolds`, `ServerKeepsRoom`,
`HeaderSafeHolds`. The client's invariant is `ClientIInv`, the checked properties and
`ReadsWhenConnected`. The server's is the one of `ChatServerProofs`, taken over by an
instance (`SrvN`) in which the client may put on the wire all that it can ever
put (`MostPieces`): a step of the two together is then a step of the server, or one
that puts pieces on its wire, and `ServerKeepsRoom` says that the refinement survives.
What joins them is `UpStream` and `DownStream`, one for each direction: while the
connection stands, the pieces read and those on the wire are, counted in halves of messages,
exactly the messages written and the half that is under way; afterwards they are
no more than that. From the parity of that count follows where a message begins, for
both ends. `StrangerAlone` keeps the server out of it while the client is
with another one. It is here that `kMaxRecentMsgs` has to be at least 1, as in the
code.

For `HeaderSafe` the same module proves what `decodeHeader` does with *any*
header (`AnyHeaderFitsHolds`) and that every length survives its encoding, whatever
its digits (`EveryLengthSurvivesHolds`). A header is read by four steps of a scanner, without
recursion, so no induction is needed: `ScanLast` is the step, by the last digit
of a number, and `HeaderWritten` says that `encodeHeader` writes a header of
that form for any number of at most four digits (as `kMaxBodyLength < 10000` ensures).

## What is only model-checked and what is left out

Liveness under fairness and anything with `ENABLED` is beyond the proof system
here. Model-checked only are therefore every property with `~>` or fairness
(`ChannelFairSpec`, `NextPushWakes`, `InterruptThrows`, `GoneIsReleased`,
`EverybodyHears`, `EndOfInputReturns`, `GoneStopsThread`, `LinesComeBack`,
`ServesUntilError`, `Terminates`), and the queue's `NoDeadlock`, of which
`LocksNestOneWay` is the part that can be said without `ENABLED`. The proofs about the
memory orders are about the view machine; that it allows what C++ allows for these
programs is argued above, not proved.

Left out of the models: printing, sleeping and time (a time limit may pass at
any moment); allocation failure; exceptions from a value's copy, from a comparison or
from resources; what happens after undefined behaviour in `LockFreeStack` and
`SequenceGenerator`; in
`ChatServer`, several servers in one process, which share nothing; in
`InterruptFlag`, `interrupt` on a thread that has ended; `demo2` of
`memory_fence.h`, which spins on plain `bool`s
(undefined, and the compiler may make it endless).

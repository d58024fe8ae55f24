# TLA+ models of ccml

ccml is a small C++ library for distributed machine learning: threads and
queues, a socket server with an RPC layer on top, a memory pool, matrices, and
utilities for flags, logging and start-up. These modules model the parts that
have state and interleavings, check them with TLC on small instances, and prove
the most important results with TLAPS for every value of the constants.

Source paths below are relative to the repository's `src/`. There are no tests and no
documents besides comments, so the comments and the `CC_CHECK`s are the only
statements of intent.

One fact matters everywhere: **`CC_CHECK` and `LOG(FATAL)` only log**
(`utils/Logging.h:33`, `:79`, `utils/Logging.cpp:151`). A failed check does not
stop the program, so every model goes on after it as the code does.

## 1. Inventory

| Component | State | Operations | What is hard | What makes it correct |
|---|---|---|---|---|
| `Queue` (`core/Queue.h`) | deque, counter, mutex, condition variable | `enqueue` (2), `dequeue`, `wait_empty`, `size`, `empty` | two kinds of waiter on one condition variable; counter separate from the deque and read without the mutex; spurious wakeups | it is an atomic FIFO queue; no lost wakeup; no `front()` of an empty deque |
| `ThreadWorker`, `Thread` (`core/Thread.h`) | `_empty`, `_stopping` (bare bools), job queue, thread | `add_job`, `wait`, `stop`, destructor, `run` | flag and queue change in separate unprotected steps on both sides | jobs run in order, once; the destructor drops no job; waiters wake; the thread is gone before its members |
| `RWLock`, `ReadLockGuard`, `LockedCondition` (`core/Locks.h`) | POSIX rwlock; mutex + condition | lock, lock_shared, unlock; wait, notify | used by the two above and below | |
| `StorageEngine` (`math/Storage.cpp`) | pointer to the allocator, rwlock | `get_cpu_allocator`, destructor | double-checked creation | one allocator, no race on the pointer, no deadlock between readers who become writers |
| `PoolAllocator`, `CpuAllocator` | stacks of buffers per size, retained bytes, limit | `alloc`, `free`, `free_all`, destructor | recycling over a long life; the limit; failing system allocation | a buffer has one owner, the right size, and is not leaked; the limit holds |
| `MemoryHandle` | size, buffer | construct, destroy | rounding to size classes | construct and destroy agree on the class |
| `SocketChannel`, `MessageReader` | socket; message lengths | `read`, `write`, `readv`, `writev`, `write_message`, `read_message` | partial transfers, end of stream, failures, the caller's array changed in place | bytes in order, none lost or doubled; array restored; terminates |
| `SocketServer`, `SocketWorker`, `SocketClient` (`core/LightServer.cpp`) | listener, `_stopping`, a detached thread per connection | accept loop, serve loop, connect, destructor | shutdown by connecting to itself; detached workers with a pointer to the server; descriptors never closed | nobody forgotten, answered once; the destructor returns, and what can still use the server after it was there before its flag was up |
| `ProtoServer`, `ProtoClient` | map of names to functions | register, dispatch, send, recv | message boundaries kept only if every block is read with its own length | the function called is the one named; boundaries kept |
| `ParameterServer` | declarations only; `ParameterServerMain.cpp` has the main loop over a vector of servers | start a server per device and port, join them | index arithmetic over devices and ports | every slot is filled once before it is joined |
| `ThreadLocal` (`core/ThreadLocal.h`) | a POSIX key, an object per thread | get, set, thread exit | the object's life is the thread's | made once, deleted once |
| `CustomStackTrace` (`utils/CustomStackTrace.h`) | thread-local stacks of names, maps from thread ids to them, a mutex | push, pop, clear, empty, dump | a mutex that guards the maps and not the stacks; entries of threads that ended; ids used again; pops out of order | nobody uses a deleted stack or one that its thread is changing; a dump names the layers a thread is in; calls return |
| `Util` | list of init functions, done flag | register, sort and run, `init_main` | registration order across files, registration during and after the run | each runs once, by priority |
| `CommandLineParser` | flags, a registry per type | parse, compact `argv` | in-place compaction; several notations and types tried in turn | the last argument about a flag wins; what no flag knows is kept, in order |
| `StringUtils` | none | `starts_with`, `split`, conversions | boundaries, widths and signs | |
| `Logging` | minimum level, descriptors per severity | read the environment, initialise, send | two loops that share a list of files; levels outside the table | a more severe message goes wherever a less severe one goes |
| Matrices (`BaseMatrix`, `MatrixOps`) | shape, stride, bare pointer | about a hundred element-wise operations, all through four `apply` functions, and three loops | offsets of one operand used for another, unsigned arithmetic, checks that only log | what the checks of dimensions pass stays inside the operands; they refuse no legal call but those known |
| `Vector` (`math/Vector.h`) | shared handle, bare data pointer, size | create, share, resize, sub_vec, sub_vec_from, destructor | a bare pointer that outlives its memory; resize that keeps it | an owner has room; a view is valid while its source is owned |
| `Version`, `TypeDefs`, `DisableCopy`, `Flags` | none | | | |

How they interact: a `ThreadWorker` owns a `Queue` and a `LockedCondition`; a
`SocketServer` is a `Thread` that makes a `SocketWorker` (a `Thread`, with a
`SocketChannel`) per connection and calls back into the `ProtoServer` derived
from it; a `MemoryHandle` gets its buffer from the `PoolAllocator` that the
`StorageEngine` makes once; a `Vector` shares a `MemoryHandle` with others; the engine is
made by an init function of `Util`, which runs them after flags and log are set up; a
`CustomStackTrace` keeps its stacks in `ThreadLocal`s.

## 2. Modules

| Module | Models | |
|---|---|---|
| `FifoQueue` | abstract | what `Queue` promises: each call atomic, FIFO |
| `Queue` | `core/Queue.h` | one action per step between two points where another thread can see the state |
| `QueueProofs` | | the safety invariants and the refinement |
| `ThreadWorker` | `core/Thread.h:39-85` over `LockedCondition` | the job queue is the atomic queue that `Queue` implements |
| `ThreadWorkerProofs` | | the safety properties |
| `RWLock` | `core/Locks.h:23-57` | readers pass waiting writers, as the default POSIX lock lets them |
| `OnceCell` | abstract | what `get_cpu_allocator` promises |
| `StorageEngine` | `math/Storage.cpp:31-45`, instance of `RWLock` | |
| `PoolAllocator` | `math/PoolAllocator.cpp`, `math/Allocator.h` | actions only; `MemoryHandle` drives them |
| `MemoryHandle` | `math/MemoryHandle.cpp`, extends `PoolAllocator` | |
| `SocketChannel` | `core/SocketChannel.cpp:20-100` | one transfer, any way the system call may answer |
| `ProtoRpc` | `core/ProtoServer.cpp`, `.h`, messages of `core/SocketChannel.cpp:102-166` | one client, the worker of its connection |
| `ChannelProofs` | | the safety properties of `SocketChannel`, failures of calls included, and of `ProtoRpc` |
| `LightServer` | `core/LightServer.cpp` | accepting thread, workers, destructor, clients |
| `LightServerProofs` | | the safety properties |
| `ThreadLocal` | `core/ThreadLocal.h` | actions only; threads that end, and ids that are used again |
| `StackTrace` | `utils/CustomStackTrace.h`, extends `ThreadLocal` | reaching an object and using it are two steps |
| `StackTraceProofs` | | the safety properties, and that maps stand still under a walk |
| `Vector` | `math/Vector.h`, extends `MemoryHandle` | vectors that share and look into the memory of handles |
| `MemoryProofs` | | the safety properties of `StorageEngine`, handles and vectors, where the pool's counter can go wrong, that the engine implements `OnceCell`, and that vectors use handles as `MemoryHandle` allows |
| `BaseMatrix` | `math/BaseMatrix.cpp`, `.h` | the window of each operand that an operation's kernel gets, and the three loops |
| `BaseMatrixProofs` | | the safety properties, for matrices of any shape |
| `StringUtils` | `utils/StringUtils.cpp`, `.h` | pure operators |
| `CommandLine` | `utils/CommandLineParser.cpp`, extends `StringUtils` | the loop over `argv`, an argument per step |
| `Logging` | `utils/Logging.cpp` | environment, table of descriptors |
| `InitFunctions` | `utils/Util.cpp` | register, sort, run |
| `ParameterServerMain` | `utils/Util.cpp` `init_main`, `core/ParameterServerMain.cpp` | composes the three above, and the loops that start servers |
| `ParameterServerMainProofs` | | the safety properties of all four, for any arguments, flags, levels, functions, ports and devices |

`MC*` modules add the values of constants that are sequences or records, and the symmetry sets of
the memory pool and the vectors. Runs that check liveness use no symmetry. In every module the variables are the
members of the code's classes (`num_elements` is `_num_elements`), `pc`
variables say which statement a thread is about to execute, and a comment marks
the variables that are history only. Operators called "mutant of" are altered
forms of the definition after them. They are used by no specification: each
is a plausible slip, and with it in place the property named for it in
`PROJECT.json` fails.

### Correspondence, where it is not one to one

* **Queue.** `Lock`, `Sleep` and `Unlock` stand for the mutex in all three
  operations. `Insert`/`CountInserted` and `Remove`/`CountRemoved` are separate
  because `size()` and `empty()` read the counter without the mutex. A woken
  sleeper competes for the mutex again (`"acquire"`) and re-evaluates its predicate.
* **ThreadWorker.** An element counts as enqueued when the queue's counter
  includes it, because `empty()` reads the counter and `dequeue()` waits on it.
  `ClearEmpty`/`SendJob` are the two statements of `add_job`; `Probe`/`Notify`
  the two at the end of `run`. A job may itself call `add_job` (`JobClearsEmpty`,
  `JobSendsJob`). The bare bools are read and written as if atomic: for the
  compilers in use they are single bytes around calls that the compiler does not see
  through; the language calls the race undefined.
  *Preconditions*: the owner calls `stop()` at most once, and no client is in a
  call when the destructor starts. Breaking them is undefined whatever the class does.
* **StorageEngine.** `Construct` and `Publish` are the two halves of line 41.
* **PoolAllocator.** `alloc` and `free` hold one mutex throughout, or (limit 0)
  touch only the system's thread-safe allocator, so each is one step.
  `heap` is the system's own record of blocks. When `posix_memalign` fails the
  code returns a pointer that was never written; the model records `failed`
  and stops, because everything after is undefined.
* **SocketChannel.** Reading and writing are one algorithm, `wire` being the bytes
  that went through it. `size` wraps like `size_t` does. `length` is signed, and a
  negative one counts as huge where the code casts it.
* **LightServer.** A message is one unit, since `SocketChannel` has the
  transfers. The kernel's part is external: the backlog, that a waiting
  accept has its descriptor reserved, that closing the listener resets what is
  in the backlog, and that writing to a connection whose reset has arrived raises
  SIGPIPE, which the program neither blocks nor ignores. A failing `socket` leaves
  `accept` with -1 (`listener = "bad"`), a failing `gethostbyname` a null pointer that is
  dereferenced (`crashed = "host"`).
  Destruction begins with the derived object: `Destroy` is the end of `ProtoServer`'s functions and
  of its `handle_request`, and `RaiseStopping` the first statement of `~SocketServer`, with whatever
  the other threads do in between. A worker that calls into what is gone ends the model (`crashed = "dangling"`).
  The `memset` at line 126 clears the `std::string` with the host's name instead of the address. The padding that it
  leaves unset is ignored by the kernel; whether the process survives a
  zeroed string depends on the library (`crashed = "string"`). It is left open for the destructor's connect; a client
  that does not survive it is one that connects and leaves. *Precondition*: the
  server was started before it is destroyed.

* **ProtoRpc.** The stream is a sequence of units: a header (with the lengths that
  follow it) or a byte. A reader is its lengths, its index and the length
  that `get_next_block_length` returns now: chosen when the reader moves, because
  behind the vector lies an arbitrary number that does not change meanwhile.
  Connections share nothing but the table of functions, so one is enough.
  *Assumed of users*: a function calls back once, one that has the reader
  reads all blocks first, and so does the caller of `recv`; names are registered before
  the server starts. A huge length that makes `std::string` throw is out of bounds
  (`MaxGarbage`); what the worker does after taking bytes for a header is `"lost"`.
* **StackTrace.** Each access to an object is two steps, `Reach` or `Visit` (the pointer is taken)
  and the use, and `acc` has the pointers between them, so that two threads in one
  object are a state. A race, a deleted object and `top()` of an empty `std::stack` are
  undefined: the model stops there (`Broken`), and the properties say how it can get there. A
  `pop` is called for a layer that was pushed, in any order.
* **Vector.** The static `create`s are declared in the repository and not defined, so `New` and `Share`
  are translated from their declarations and the constructors that they can call. Copying the
  shared pointer and releasing the old one are two steps (`dropped`), so that the
  handle is destroyed after its last user is gone. What a caller of `create` with an offset passes is inside the
  memory; what a caller of `sub_vec` passes need not be, since the code checks it, and only logs.
  `kind`, `source` and `loose` are history: how the vector got its data, from whose
  memory, and whether a failed check or a resize has since made the view meaningless.
* **BaseMatrix.** The kernels that the `apply` functions would call are commented out; a call ends in
  `kernel`, the windows that they would get. Two names in `apply_binary` do not exist and the
  file would not compile with them: `b._weight` is read as `b._height`, and the call without
  broadcast flags as neither operand being repeated. Complaints are of two kinds: about
  dimensions (`misfit`), and that an operand is sparse (`sparse`). The second is kept apart because the check at
  line 67 is inverted, so that all operations of two matrices through `apply_binary` log it of dense operands.
  `zero_at_offset` stores an `int64_t` number of columns in an `int`; `Offsets` are those that fit. Operations that differ only in the functor are one action. One call per
  behaviour is a bound, and nothing but the loops leaves anything behind for a second.
* **Start-up.** Strings are sequences of tokens: a character, or a word nothing takes apart. The call of
  `parse_commandline_flags` in `init_main` is commented out (`utils/Util.cpp:75`), so the model has mains that
  parse and mains that do not. `env2bool` reads through a null pointer: each outcome that a
  build can produce is possible (`ReadEnvironment`). An `exit`, an uncaught exception and undefined behaviour end the model's process.
  The order of static objects of different files is any order.

## 3. What the runs check

| Run | Bounds | Shows |
|---|---|---|
| `queue` | 3 threads, 2 values, 2 calls each, 1 spurious wakeup | no lost wakeup; refinement of `FifoQueue`; every call returns that need not wait for good |
| `worker` | owner and 2 clients, 4 jobs | order, destructor, wakeups, the one way `_empty` goes wrong; `wait` and the destructor return |
| `storage` | 4 threads, 2 calls each | no race; refinement of `OnceCell`; every call returns |
| `memory` | 4 buffers, 3 handles, 4 size classes (one on each branch of the rounding), limit 2500 | one owner, room, no leak; where the counter drifts |
| `channel` | every array of at most 4 blocks of 0 to 2 bytes, windows of 2 blocks, 2 failures, `size_t` of 4 bits | order, the caller's array put back, what failures do, termination |
| `rpc` | 3 requests, a plain, an extended and an unknown name, messages of 0 and 1 byte, 1 extra block | boundaries, the right function and reply, one message on its way, every request answered, as long as lengths are right |
| `rpc_wrong_function` (violation) | 2 requests, a name that begins with another's | a function is called that was not named |
| `server` | 3 clients, 3 descriptors, backlog 2, 1 request each | connections and requests accounted for, who can meet a destroyed server, the destructor returns, clients served |
| `stack_trace` | 2 thread ids, 2 layers, each id used twice, 4 calls | how far the class is safe, what a dump can see, maps stand still under a walk, calls return |
| `vector` | 2 buffers, 2 handles, 3 vectors, lengths 64 and 100 of 4 bytes, windows from 0 and 32, limit 400 | owners have room, views hold while their source is owned |
| `matrix` | 8 matrices in a memory of 8 elements, offsets -1 to 2, `size_t` of 4 bits; one call | calls that pass the checks of dimensions stay inside, which legal ones are refused, loops stay in place |
| `startup` | 6 flags (one per type of argument that differs), up to 2 arguments of 13 kinds or 3 of 4 kinds, 6 environments, 2 init functions, 1 level set by a caller, integers of 4 bits | compaction, last wins, log table, order of init functions, slots |

**Why the bounds are enough.** Three threads are the fewest in which a
notification can reach a consumer, a `wait_empty` caller and an enqueuer at
once; with two there is never a wrong thread to wake. Two calls each, six in
all, let the queue fill, drain and fill again. Four jobs let one be queued, one in hand, one
being added by a client and one by a job. The limit of the pool lies between
the small classes and the large one, so that a single large buffer and a
collection of small ones both reach it. Arrays of four blocks with windows of two have
a window that ends inside the array, one that ends with it, and empty blocks at every position.
Two failing calls are the fewest that can fail in succession or apart. Three requests let
a wrong length or a block left behind by one be met by the next two.
With as many
descriptors as clients the destructor meets the limit both while accept waits and
while it fails. Two threads are enough for `StackTrace`: each of its races is between one that
looks and one that is looked at, and an id that is used twice makes the map stale. Four calls
let two layers be entered and both be left the wrong way round. Three vectors
over two handles are an owner, a view of it, and a third that shares, or takes the view's
place, while a second handle replaces the first; 64 elements are exactly the first size class and
100 need the second, so a resize both fits and does not. The matrices have a
packed and a strided one on the same elements, a row, a column, a single element and an empty
one, so that every operand of four can be the odd one out; with offsets from -1 the
unsigned sums wrap. With three arguments a known one can stand before, between
and behind unknown ones, and two be about one flag; the environments have a named, a
negative and a too large level, and files that can and cannot be opened; devices are
fewer and more than ports. The bounds on calls, jobs, failures and requests are guards,
named in the constants, and no property mentions them.

**Deadlock checking is off** in every run, because the programs really stop:
callers make finitely many calls, a dequeue of an empty queue waits for ever,
a loop returns. What must not wait is stated as liveness instead.

**Fairness.** Weak fairness of the steps of a thread that is inside a call:
a scheduled thread executes its next statement, and a mutex that is free is
given to one of the threads that want it. It is enough for mutexes because calls are
bounded; nothing assumes a fair lock. Jobs return (a job that does not
return is the caller's). In `SocketChannel` the stream moves something sooner
or later while it is up, and nothing makes it end or a call fail. In `StackTrace` the
fairness ends with undefined behaviour. `Vector`, `BaseMatrix` and start-up have no
liveness property and state no fairness. In
`LightServer` clients have no fairness at all; in `ProtoRpc` a client that waits
for a reply goes on waiting, and nothing makes it send.

### What the properties say about the code

* `ThreadWorker`: `_empty` can be true while a job is queued or running
  (a client's `add_job` between `Probe` and `Notify`). Then `wait()` returns early and
  the destructor drops jobs. `StaleOnlyByOverlap` shows that this is the only way
  and `DestructorRunsAll` that without it nothing is dropped. A worker that
  was never given a job has `_empty = false` for ever: `wait()` on it, and its
  destructor, hang; hence `sent # <<>>` in the liveness properties.
* `PoolAllocator`: `alloc` on a hit overwrites the counter of retained bytes with the size of
  one buffer (`math/PoolAllocator.cpp:38`), and `free` never looks at the
  limit, so the pool can retain more than the documented `pool_limit_size`, even right
  after the miss that enforces it. `DriftsOnlyByReuse` and the invariant `CountedIfPooled`
  bound the damage: a hit is the only cause, and the counter is never 0 while
  something is retained, so purging remains possible.
* `SocketChannel`: without failures the transfer is exact. A call that fails
  inside a block has one byte moved twice, and the total returned hides it
  (`CompleteMeansAll`); between two blocks the position is lost and the loop calls
  for ever; before the first byte the sum wraps and the loop returns `SIZE_MAX`.
  At the end of the stream `readv` loops for ever (so `Returns` excludes it).
* `ProtoRpc`: `get_block_length` is off by one, so a request is read correctly
  only if all its blocks, and whatever lies behind the lengths, have the same length. `exact`
  records that this was so, and the properties say what the protocol then
  keeps. An unknown function ends the client, because the reply has no block, and
  leaves blocks in the stream, as a plain function does that is sent extra ones.
  `CrashesOnlyWhen` shows that the end of the server and an unknown function are the
  only other ways to end the client.
* `LightServer`: what can touch the destroyed server is bounded by the moment at which `_stopping` goes
  up, after the derived object has ended: no worker starts from then on but one that was about to, so that
  without a connection in use at that moment the destroyed server is not touched again (`QuietShutdown`). Before that moment nothing is promised:
  the derived object is gone, the accepting thread still sees `_stopping` down, and a client that
  connects then gets a worker whose call of `handle_request` fails, even if the server was idle when
  its destruction began. The destructor returns unless its own connect fails, which it does
  before `listen`, after a failed `socket` or `bind`, or with the last descriptor reserved
  by the waiting accept (`DestructorReturns`). A connection taken by the
  last accept is dropped without being closed.
* `CustomStackTrace`: threads that enter and leave layers and dump only themselves are safe;
  `empty()` and a dump of all threads race with the threads whose stacks they read, and use
  deleted stacks after a thread has ended (`OwnUseIsSafe`). When an id is used again the map keeps the deleted
  object and never has the new one (`InMapUnlessReused`). A layer left out of order stays on the
  stack. The only writer of the trace is never called: `install_failure_writer` ignores it.
* `Vector`: `MeetByIntent` and the other two hold for whatever sequence of calls. A view
  keeps nothing alive, and a vector that was a view and is resized within its own handle keeps
  pointing into the other's memory (`loose`).
* `BaseMatrix`: although `MatrixOffset` initialises `_aRow` with `bRow`
  and the checks mix operands, no caller uses row offsets, and `SilentMeansInside` holds.
  `add_at_offset` is refused on every call that needs it: both its branches ask for
  all columns of `a`. Every operation through `apply_binary` is told that its second operand is
  sparse (line 67 lacks the `!` that the other checks have), which is a bug: the message is
  "Sparse Matrix/Vector is not support." (line 16), and no matrix is sparse. `LegalCallsFit` says exactly which legal calls are complained of, and of what. `sigmoid` computes each element from `out[1]`, and
  `binary_label_cross_entropy` never reads `c`. On operands with a stride the loops run over
  the gaps, which is why `LoopsStayInPlace` is about packed ones.
* Start-up: reading a boolean from the environment is undefined, because an `=` should be `==` (`utils/Logging.cpp:39`), and a negative
  minimum level indexes before the table. An init function that registers another may move the
  vector that is iterated, and what is registered later never runs. In
  `ParameterServerMain.cpp:41` the address comes from `devices[i]`, `i` being the port's index, while the
  log at line 43 names `devices[j]`: with several devices two servers ask for one address and
  port, and with more ports than devices the vector is read past its end
  (`EverySlotServes` states exactly how far it goes right).

## 4. What is proved

All proofs are for any number of threads, clients, jobs, calls, messages, buffers, handles, classes, vectors and
sizes. Assumptions: the named `ASSUME`s (a model value is not a thread; sizes
are positive; an id of a thread is used at least once, and the backlog has room for one; every request's class is in `Classes`, and there are finitely many classes, which are
numbers of a `size_t`; every length of a vector, in
bytes, is in `Requests`; matrices lie within memory, and their sizes and offsets are ints, the largest below half of
`size_t`'s largest; the blocks of a transfer together have fewer bytes than `size_t` counts; names and contents of messages are sequences of bytes, a byte is not taken
for a header, and a name is registered in one way; each flag's name is an
identifier of its own and none is another's with `no` in front; the flags that main reads are defined, with defaults
of their types; numerals and levels are integers), nothing else.

* **`QueueProofs`.** `IInv` is type correctness, mutual exclusion
  (`queue_lock` is the one thread in the critical section), the counter in
  the three cases of `CountMatches`, and `NoLostWakeup`. The counter needs mutual
  exclusion (two threads in `"count"` would be two off), and underflow needs
  the counter. `Refinement`: each step is a step of `FifoQueue` or leaves
  `elements`, `Stage`, `op` and `val` unchanged; `Insert` maps to `Enqueue`, `Remove` to
  `Dequeue`, `SeeEmpty` to `WaitEmpty`, and only the last two need the invariant.
* **`ThreadWorkerProofs`.** The core of `IInv` is conservation: `sent` is
  `executed`, then the job in hand, then `jobs`, so that order and
  completeness are about one sequence; the empty function is only ever last and
  only when `_stopping`; the protocol of the owner ties `dtor`, its program counter and
  `_stopping` to the state of the thread; while not `raced`, `_empty` implies
  that nothing is on its way.
* **`MemoryProofs`.** For the engine, `EngineInv` relates the lock to the program counters
  (readers are those in the read section, the writer the one in the write
  section) and the pointer to the writer's progress; the refinement of `OnceCell` follows. For handles, `IInv` says that the stacks are injective
  over all positions of all classes and disjoint from the buffers of
  handles, and that block sizes are those of their class. `AllocSizeSound` is
  the lemma about the rounding for every size; lemmas about popping and
  pushing a sequence carry the rest. `DriftsOnlyByReuse` compares the counter with a sum over the
size classes, which is a recursive function on sets. `SumIsCells` equates it with the cardinality of a set
that has as many elements as the terms say; the cardinality satisfies the sum's equation, and there is
no least subset on which another solution differs. With that a `free` adds its size to both, a
purge makes both zero, and only a hit is left. `MemoryRefinement` is that every step of vectors is a step of
  `MemoryHandle` or none: above all, the handle that is released was dropped while it lived,
  and nobody else destroys it. With it `IInv` also holds of the memory under
  vectors and need not be proved again. `VInv` binds each vector to a live handle: its own, whose buffer
  its `data` is, or the one that its view was taken from; as long as nothing made the window
  loose, the window ends inside that handle's size class (`FitsIn`). `Whole` is stated about the
  size class and not the size, because `resize` looks at the class and leaves the handle's size as it is.
  A step changes one vector (`OneBecomes`), makes one handle that no vector had, or
  destroys one that no vector has (`ReleaseLast`, where `Users(dropped) = {}` is what
  saves the others). The three properties follow from `VInv` and the handles' block sizes.
* **`LightServerProofs`.** `IInv` places every connection, including that a client without an end of one
  is nowhere; `Once` says that a client is in the backlog at most once, without which accepting it
  would not take it out; `Account` adds up each client's requests; `_stopping` is up exactly from the
  destructor's first statement on and whenever the accepting thread closes (`Stopped`). `Quiet` is
  `QuietShutdown` itself, and is inductive with these: the accepting thread spawns once `_stopping` is up only if
  it was about to when it went up, and only a worker in use can call into the server.
* **`StackTraceProofs`.** Until a call has looked at more than its own thread, every pointer in use is to
  an object of the thread that uses it (`Uses`), so that two threads never meet in one. An object exists only
  while its thread runs; and while no id has come back, the map has the object of the life that is running
  (`Objects`), so that a pointer out of the map is to an object that exists. `OnStack` ties the layers that a thread
  is in to its stack; it is the one part that needs the program not to be broken yet, in `pop`.
  That maps stand still needs `Locked`: whoever walks has the mutex.

* **`BaseMatrixProofs`.** The checks are about sizes and columns, the properties about floats in
  memory. An element's place is `row * stride + column`, and a window of whole rows has one row and one
  column for each of its floats: this lemma (`RowAndColumn`) turns the code's comparisons into
  the inclusion that `SilentMeansInside` states. The operations differ in the operands that they
  have and in the windows that they ask for, so it is proved operation by operation, as is `LegalCallsFit`.
  The loops need `LInv`: while one runs, what it has touched is below its index, and
  its index is at most the number of elements.
* **`ChannelProofs`.** `IInv` ties the bytes moved to where the loop stands: in place (`Placed`: the
  bytes moved are the first ones of the stream, and the vector describes the rest), one call
  into a failure (`Adrift`), adding lengths up until it finds the block that is unfinished (`Counting`),
  past that block's start (`Losing`), or at its end (`Finished`). Failures are in it,
  so the three properties are proved with them. The central lemma is
  `WindowInStream`: a part of a block is the part of the stream that starts as many bytes later as the blocks
  before it have. It is about `FlattenSeq`, which folds over the sequence; where a fact about all
  lengths is needed, it is proved for one set of sequences at a time, as the absence of a least length that breaks it.
  For `ProtoRpc`, `RpcInv` says where the message of a call is (`Place`): nowhere while the client rests
  (`AtRest`), in the stream to the worker (`Asked`), in the worker's hand (`Served`), in the stream back
  (`Returning`), in the client's hand (`Taken`), or gone, a reply without blocks that ended the client (`Refused`). Whoever reads a message has read its first
  blocks, and what the stream has next is exactly the rest, flattened (`Reading`); in front of a message that
  nobody has begun to read lies only what a destroyed reader left, bytes without a header (`Left`). All this holds while lengths
  were right (`exact`), because a wrong one takes a wrong number of bytes. The lemmas under it are about the stream:
  the lengths in a header add up to the bytes that follow it (`LengthsAddUp`), a block cut off in front leaves the
  other blocks flattened, and the first header is where the bytes before it end.
* **`ParameterServerMainProofs`.** A process from its start on, for every registry of flags, list of arguments,
  environment, set of init functions, number of ports and list of devices. `IInv` has a part per component. `ParseInv`: from `i` on the array is
  as it was given, behind the program are the arguments kept so far, each in the place that counting
  gives it (`LoopInv`), and flags are what the last argument about them says (`Latest`). What it rests on
  is that an argument concerns one flag at most (`ValueFacts`, `SwitchFacts`): the
  first `=` ends a name, dashes cannot begin one, and here `NamesAssumption` is needed, since with flags `x` and
  `nox` the argument `-nox` would be about both, and the code would ask the first. That every argument is
  still in the array follows from a swap being a bijection of places (`SwapKeepsCounts`). `LogInv`: a
  severity's list is stderr, then the files from the minimum up to its own (`FdsFacts`). `RunInv`: while the
  loop runs, what has run is the sorted part of the list up to `next`, and functions registered behind
  `end` do not disturb it (`Underway`). `ServeInv`: slots are filled one behind the other, so that
  `started` counts them, and the two loop indices give the next one (`Position`).

Every safety invariant and every action property of the runs that pass is proved.
**Only model-checked** is liveness (`AllServed`, `WaitReturns`, `DestructorReturns`, `CallsReturn`, `Returns`,
`ClientsServed`, `Answered`), because the prover does not reason about fairness.

## 5. Not modelled, and the plan

What is left to model, all of it without a caller in the repository: `notify_one` and
`get_mutex` of `LockedCondition`; `set` and the conversions of `ThreadLocal`; `ends_with` and `to` of
`StringUtils`; `aggregate` of `BaseMatrix`; joining or detaching a `Thread` that was never
started; `ReadWriteBuffer` of `core/ParameterServer.h`, a member of a class without methods.

Left out for good: floating-point arithmetic, the wording of logs, `Version`,
`TypeDefs`, `DisableCopy`, the declarations of `ParameterServer` without a
definition, host names and socket options.

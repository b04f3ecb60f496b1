# Verification of scan_unchecked

`scan_unchecked` is one Rust program, `src/main.rs`. It walks the directory
`library` (a copy of the Rust standard library), records every function whose
name contains "unchecked", looks in the same file for the function without
"_unchecked" in its name, and writes a table of the outcome to
`safe_version_results.txt`. The repository also holds the input of the program:
`library/`, the sources of the Rust standard library.

This directory holds TLA+ models of the whole program and of those parts of
`library/` whose correctness depends on the order of steps: locks, parking,
`Once`, scoped threads, `Arc`, channels, and the collections that move elements
while user code runs. TLC runs check them on small instances; TLAPS proofs cover
the program and the mutex for all instances.

1. [The program](#the-program)
2. [The library](#the-library)
3. [What TLC checks](#what-tlc-checks)
4. [What is proved](#what-is-proved)
5. [What is not modelled](#what-is-not-modelled)

## The program

| Part | Code | Module | State and actions |
|---|---|---|---|
| `FunctionVisitor` | main.rs 8-39 | `Visitor` | set of names; one action per visit |
| search for one safe version | main.rs 91-141 | `SafeLookup` | the two loops, their flags and breaks; one action per arm |
| what is computed from one file | main.rs 13-39, 91-141 | `SourceFile` | trees, `Collect`, `SafeName`, `Verdict`, without loops |
| directory tree, path conversions | main.rs 64-76 | `FileTree` | `Resolve`, `Listing`, `is_dir`, `IsRs`, `Display` |
| `process_directory` | main.rs 63-82 | `Scanner` | frames of the recursion; list, take up an entry, return |
| `process_file` | main.rs 41-61 | `Scanner` | read and parse, lock and insert, return |
| `check_for_safe_versions` | main.rs 84-145 | `Scanner` | lock, one function per round, return |
| `main`, the report | main.rs 148-178 | `Scanner` | create, lines in parts, closing message, ends |
| the report as its reader sees it | main.rs 164-175 | `ReportSpec` | abstract: kept, partial, complete |
| table layout | main.rs 158-172 | `TableLayout` | widths in bytes, padding in characters |
| syn, anyhow | external | in `SourceFile`, `Visitor` | as main.rs uses them |

How the parts fit: `Scanner` is the composition. Where `process_file` runs the
visitor it uses `Collect`, and where the check searches a file it uses
`Verdict`. `Visitor` and `SafeLookup` show that the code's step-by-step walks
compute exactly those two operators, so `Scanner` does not repeat their steps.
Both walks work on a parsed tree that nobody else can reach; doing each in one
step of `Scanner` hides no interleaving.

### How the models of the program represent the code

* **Identifiers** are sequences of tokens: "_", "unchecked" and other words.
  `contains`, `==` and `replace` see nothing finer. `SafeName` follows
  `str::replace` from left to right.
* **Syntax trees** are sequences of nodes with the index of the enclosing node.
  Kinds: free function, impl and its methods, trait and its functions, and any
  other node that can enclose items (modules, blocks, constants). Macro bodies
  are plain tokens to syn and so hold no nodes.
* **Visits** happen in any order in `Visitor`; syn's order is depth first. A visit
  only inserts into a set, and the model has the code's order among its own.
* **Files** have an inode whose contents change; a path is resolved name by name
  through links, up to the kernel's limit. The shape of the tree is fixed.
* **The recursion** of `process_directory` is a stack of frames, each the set of
  entries that its loop has still to do.
* **Iteration order** of `read_dir` and of both hash sets is a free choice at
  every step.
* **Failures**: any system call may fail and any file may not parse, which `?`
  turns into the end of the run ("err"). Two failures are swallowed: an entry that
  `read_dir` cannot produce is left out, and `is_dir` answers false for a directory
  whose metadata cannot be read, which is then passed over, or opened as a file if
  it is named like one. `println!` may panic, as does
  `to_str().unwrap()` on a directory that is not UTF-8 ("panic"). The process may
  be killed at any step ("killed"). All three empty its memory.
* **The report** is a sequence of lines with a flag for one that is there in part,
  since `writeln!` on a bare `File` makes several writes.
* **History**: `seen` has what each file held during the run, `walked` and
  `skipped` what the walk took up and what `read_dir` did not produce, `missed` the
  directories that `is_dir` did not recognise. No guard reads them.
* **Table layout**: a text is its number of characters and of bytes; `pad` follows
  `Formatter::pad` of `core::fmt`. The layout has no effect on which rows are
  written, so it is a module of its own.

Definitions whose comment begins with "Faulty" are variants of the definition
below them with a plausible mistake in them. No specification uses them; each
one put in the place of the original makes TLC report a violation of a property,
which shows that the property depends on that code.

## The library

| Part | Code (under `library/`) | Module | Promise it is checked against |
|---|---|---|---|
| `Mutex` and its poison flag | std sys/sync/mutex/futex.rs, sync/mutex.rs, sync/poison.rs | `FutexMutex` | `LockSpec` |
| `RwLock` on a futex | std sys/sync/rwlock/futex.rs | `FutexRwLock` | `LockSpec` |
| `RwLock` with a queue | std sys/sync/rwlock/queue.rs | `QueueRwLock` | `LockSpec` |
| `Condvar` on a futex | std sys/sync/condvar/futex.rs, sync/condvar.rs | `Condvar` (operators), `CondvarWait` | invariants |
| `Barrier` | std sync/barrier.rs | `Barrier`, on `Condvar` | invariants |
| thread parking | std sys/sync/thread_parking/{futex,pthread}.rs | `FutexParker`, `PthreadParker` | `ParkSpec` |
| scoped threads | std thread/scoped.rs, thread/mod.rs | `ScopedThreads` | invariants |
| `Once` | std sys/sync/once/{futex,queue}.rs | `FutexOnce`, `QueueOnce` | `OnceSpec` |
| `Arc`, `Weak` | alloc sync.rs | `Arc` | invariants |
| queues of blocked channel calls | std sync/mpmc/{waker,context}.rs | `Waker`, `SyncWaker` (operators) | through the channels |
| rendezvous channel | std sync/mpmc/zero.rs | `ZeroChannel`, on `Waker` | invariants |
| bounded channel | std sync/mpmc/array.rs | `ArrayChannel`, on `SyncWaker` | `ChannelSpec` |
| unbounded channel | std sync/mpmc/list.rs | `ListChannel`, on `SyncWaker` | `ChannelSpec` |
| handles of a channel | std sync/mpmc/counter.rs | `ChannelCounter` | invariants |
| `VecDeque` | alloc collections/vec_deque/ | `VecDeque` | `DequeSpec` |
| `Vec` with holes | alloc vec/{mod,drain,splice,extract_if}.rs | `VecGuards` | invariants |

How the parts build on each other: a module on top of a lock or of parking uses
what that is shown to promise. `Barrier` and `CondvarWait` take a mutex as one
step that waits until it is free (`LockSpec`); `Waker`, `ScopedThreads`,
`QueueOnce` and `QueueRwLock` park on a token (`ParkSpec`); `SyncWaker`, whose
mutex is held for a few lines without waiting, does those lines in one step.
The channels take the waker's operators, so that a blocked send or receive is
the same code in all three.

### How the models of the library represent the code

* **Threads** have a program counter; one action is what the code does between two
  accesses to shared memory. A value that was loaded is kept until it is used.
* **Memory order**: all accesses are in one order (sequential consistency). The
  models show that the algorithms are right, not that Relaxed is strong enough.
* **Compare and exchange**: a weak one that fails for no reason goes back to where
  the loop began, which is a step the model has anyway.
* **Futex**: compare and sleep is one step, as the kernel promises. A sleeper may
  be woken for no reason (`Interrupt`, `Stir`), a timed one by its deadline.
* **Time**: a deadline may pass at any moment.
* **Spinning** is a step that reloads the word.
* **Lock words**: `FutexMutex`, `FutexRwLock` and `FutexOnce` keep them as numbers,
  with fewer bits for the reader count. `QueueRwLock`, `QueueOnce` and the lists
  keep flags and pointer apart; a node is named by the thread whose stack it is on.
* **Positions** of `ArrayChannel` are numbers that wrap around, with the mark kept
  apart; a block of `ListChannel` is named by its turn in the list.
* **Closures and destructors** return or panic, as they like. A destructor that
  panics ends the loop that drops the messages of a channel (the rest is leaked, and
  with it the channel, whose counter never learns of the disconnect), keeps the
  memory of an `Arc` (the implicit `Weak` is never dropped), and aborts the process
  where it is the result of a scoped thread.
* **Scoped threads**: f and the closure of any thread of the scope spawn, join, drop
  join handles and pass them on. `join` is one step, taken when the thread has ended.
  A handle inside the result of another thread is left out.
* **Elements** of the collections are numbers that tell them apart; memory that
  holds no element is a `Hole`, and `copy` moves whatever is there. The first
  state of `VecDeque` is any layout of a small buffer, each of which some pushes
  and pops lead to.
* **Bounds**: `MaxCalls` (`MaxSends`, `MaxRecvs`) calls per thread, `MaxHandles`,
  `MaxCap`, `MaxLen`, `MaxNew`; `Bits` and `Width` are the widths of counters,
  `LAP` the size of a block. When all calls are made, `Over` stutters.

## What TLC checks

### The program

| Run | Configuration | Properties | Distinct states |
|---|---|---|---|
| visitor | `MCVisitor.cfg` | `CollectsAll`, `Finishes` | 114 052 |
| lookup | `MCSafeLookup.cfg` | `VerdictReached`, `OutcomeMeaning`, `SafeNameRight` | 365 462 |
| edits | `MCEdits.cfg` | `RowsJustified`, `OneRowPerFunction`, `QuietRunExact`, `TypeOK` | 261 439 |
| restarts | `MCRestarts.cfg` | `SuccessIsComplete`, `ReportKept`, `NoSelfDeadlock`, `ImplementsReport`, `EveryRunEnds` | 195 039 |
| links | `MCLinks.cfg` | `WalkClosed`, `NoPathTwice`, `QuietRunExact`, `EveryRunEnds` | 137 712 |

All of these pass.

* **visitor**: every tree of up to four nodes over a plain and an unchecked name.
  Four nodes are enough for an impl in a function in a module, and for a function
  in a method of an impl. The visitor ends with the unchecked functions and impl
  methods of the file, at any depth.
* **lookup**: every such tree with safe and unsafe functions, and two recorded
  names. Two impls with a method each, and functions before, between and after
  impls, all occur. The tree need not contain the recorded name: the file may have
  changed since it was recorded. Besides, every identifier of up to five tokens
  that contains "unchecked" is searched for in the smallest trees: two adjacent
  matches, `__unchecked`, and a match that appears only after another was removed.
* **edits**: `library/{a.rs, notes, sub/b.rs}` with `notes` a second name of the
  file behind `a.rs`. Two edits at any point cover a file that changes between its
  two readings, and again between two functions of the check.
* **restarts**: two files, three runs, one edit. An unfinished run can follow a
  finished one, and a finished run an unfinished one.
* **links**: two links from `library` to itself, one of them named like a Rust file
  and one with a name that is not UTF-8, of which a path may follow one (the kernel's
  limit is 40; one round shows the recursion into the cycle and its end); a dangling
  link named like a Rust file; and a file whose name is not UTF-8 and turns into the name of another.

Bounds: `MaxRuns`, `MaxEdits` and `MaxLinks` are named constants; the proofs hold
for all their values.

Fairness: `WF_vars(Program)`. The program is one thread that the system keeps
scheduling and whose calls return; weak fairness of its own steps says no more.
Nothing is assumed of edits, kills and restarts. `Visitor` is sequential code, with
weak fairness of its only process.

### The library and the table

Two runs, each with one component at work in every behaviour; `part`, chosen in
the first state, says which. The state spaces add up rather than multiply, and a
promise that two implementations share is one property over both.

| Run | Configuration | Properties | Distinct states |
|---|---|---|---|
| sync | `MCSync.cfg` | `WordsExact`, `SleepersRemembered`, `PoisonSeen`, `QueueWellFormed`, `NodesAlive`, `OpensWhenFull`, `ScopeOutlivesThreads`, `ImplementsLock`, `ImplementsRwLock`, `ImplementsParking`, `ImplementsOnce`, `EveryoneReturns` | 397 124 |
| data | `MCData.cfg` | `WordsExact`, `NobodyOverslept`, `NothingLost`, `MemorySound`, `VectorRestored`, `TableReadable`, `ImplementsChannel`, `ImplementsDeque`, `CallsReturn` | 182 468 |

Both pass. What the properties of **sync** show:

* `ImplementsLock`, `ImplementsRwLock`: whoever gets a mutex or either
  reader-writer lock gets it as `LockSpec` allows, one writer or any readers.
* `SleepersRemembered`, `PoisonSeen`: on the mutex a sleeper always has a marked
  word or a wake-up under way, and a guard over torn data comes with the poison
  error, panics inside and outside of sections and while unwinding included.
* `WordsExact`: besides the types, the reader counter of the futex lock is exact at
  its limit, readers do not overtake waiting writers, and no parker stays marked as
  parked after its owner has returned.
* `QueueWellFormed`, `NodesAlive`: the invariants that the header of
  `rwlock/queue.rs` states, and that no thread follows a pointer to a node whose
  owner has gone on (also in `once/queue.rs`).
* `ImplementsParking`: a token, consumed once and never lost, with deadlines that
  pass while an `unpark` is under way.
* `ImplementsOnce`: one closure at a time, none after success, poison seen.
* `OpensWhenFull`: a barrier opens for full groups, over several generations.
* `ScopeOutlivesThreads`: a scope ends after all its threads, those that its threads
  spawned while it waited included, and passes a panic on.
* `EveryoneReturns`: no wake-up is lost in any of them, and a wait that heeds
  poisoning does not outlast it.

What the properties of **data** show:

* `ImplementsChannel`: a bounded and an unbounded channel are queues.
* `NobodyOverslept`: nobody sleeps beside a channel that is ready for the call.
* `NothingLost`: no message is lost or doubled by a deadline, a disconnect and a
  pairing in any order; none is left behind when the channel goes, except those
  after a message whose destructor panics, as array.rs 485-487 says.
* `MemorySound`: packets on stacks, slots, blocks, channel counters, `ArcInner` and
  the data behind a `&mut` are alive and, where they must be, exclusive.
* `WordsExact`: the two counts of an `Arc`, and that each copy of a deque stays in
  the buffer and does not overlap where it may not, besides the types.
* `CallsReturn`: every call returns, and memory is freed in the end, unless a
  destructor panicked on the way.
* `ImplementsDeque`: a `VecDeque` is a sequence, whatever the layout of its ring.
* `VectorRestored`: after a panic or a leak in retain, dedup, extract_if, drain or
  splice no element is dropped twice or readable after its drop, and what is kept
  keeps its order.
* `TableReadable`: rows of the report are aligned and nothing is cut.

Bounds of **sync**: three threads for each part, which a lost wake-up needs. The
mutex is called twice by each thread, one of which may panic; the other locks once.
On the lock with a queue three threads read and write, with at most two nodes in the
queue; four threads that write have three, and so a node in the middle. The reader counter has two bits, so three readers
reach its limit. The barrier takes two of three threads, twice each. Three takers
(one with a deadline) and two posters, one post each, use the condition variable.
The parkers' owner makes three (futex) or two (pthread) calls against two threads.
The Once of the futex has all four kinds of calls by each thread; on the one with a
queue the first thread calls `call_once` or `call_once_force`, the second
`call_once_force` or `wait`, the third any of the four, so that each call meets each
other one. The scope has two threads besides the main one, either of which may spawn
the other.

Bounds of **data**: two senders and a receiver with or without deadlines on the
rendezvous channel and on a buffer of one slot; one sender and two receivers on a
buffer of two slots (three messages, so the positions wrap around) and on the list
(blocks of two slots instead of 31, so a block ends after two messages). A sender and
a receiver also use a list with blocks of one slot, where the head moves on to a
block that already has a successor. The lists have one sender; with two of them the
double deallocation that first_block shows would end the run. `Trying`
are threads that only make the calls that do not block. Three threads with three
handles or references. Every layout of rings of up to seven elements, with one call
on each; vectors of up to five elements and four new ones; tables of up to two
rows, of texts shorter and longer than the titles in one and in three bytes per
character.

Fairness: weak fairness of the steps of each thread within a call. The system keeps
scheduling a thread that can run; a sleeping one is not enabled until a wake-up,
its token or its deadline enables it. New calls, panics, wake-ups for no reason and
deadlines are not required to happen. Three assumptions are about the users: the
holder of a lock lets it go, the threads around the condition variable do carry on,
and both ends of a channel are dropped at last (without the last a `recv` on an
empty channel rightly waits forever).

### Where the code and its comments differ

Five runs are expected to end in a violation. Each states what a comment says.

| Run | Comment | What the code does |
|---|---|---|
| trait_functions | 51, 54: go through all items, record the unchecked functions found | functions declared in a trait are not recorded, e.g. `__iterator_get_unchecked` |
| all_items | 101: go through all items of the file for a safe version | traits, modules and blocks are passed over; the committed table has None for `forward_unchecked`, next to a safe `forward` in the trait |
| safe_version | 101, as above | an unsafe function of the name that comes earlier makes the row say "(unsafe)" although a safe one is in reach |
| own_name | 91: generate the name of the safe version | a name without "_" before "unchecked" stays as it is |
| first_block | list.rs 553-555: swap, and late allocations are deallocated in Drop | the loop after the swap only loads `head.block`; a first block that is published late is deallocated there and again by `Channel::drop` |

The first four are about `main.rs`. `first_block` needs two senders and a receiver
that leaves within the first send: the first sender has installed the block at the
tail and not yet at the head, the second sender has taken a slot in it.

## What is proved

All theorems are about the same modules that TLC runs, for every value of the
constants that meets the named assumptions (`WordAssumption`, `AstsAssumption`,
`LookupAssumption`, `FileTreeAssumption`, `ScannerAssumption`,
`MutexAssumption`): every set of trees, every directory tree, any number of runs
and edits, any number of threads and calls.

| Module | Theorem | Statement |
|---|---|---|
| `VisitorProofs` | `VisitorTyped`, `VisitorCorrect` | `TypeOK`, `CollectsAll` |
| `SafeLookupProofs` | `LookupTyped`, `LookupCorrect`, `LookupMeaning` | `TypeOK`, `VerdictReached`, `OutcomeMeaning` |
| `ScannerTyping` | `ScannerTyped` | `TypeOK` |
| `ScannerWalk` | `WalkIsClosed`, `WalkTakesUpOnce` | `WalkClosed`, `NoPathTwice` |
| `ScannerReport` | `RowsAreJustified`, `RowsAreUnique`, `SuccessMeansComplete`, `ReportIsKept`, `MutexIsFree` | the properties of those names |
| `ScannerReport` | `ProgramImplementsReport` | `ImplementsReport` |
| `ScannerExact` | `QuietRunsAreExact` | `QuietRunExact` |
| `FutexMutexProofs` | `MutexTyped`, `NoWakeupLost`, `PoisonIsSeen`, `MutexImplementsLock` | `TypeOK`, `SleepersRemembered`, `PoisonSeen`, `ImplementsLock` |

The arguments:

* **Visitor.** `IInv` says that there is a set V of visited nodes that, with the
  pending ones, holds the file's own items and all children of its members, and
  that the recorded names are those V accounts for. `CollectsAll` alone speaks
  only of the end. When nothing is pending, V is closed, and `TreeConnected` (by
  a least node outside V) makes it the whole tree.
* **SafeLookup.** `IInv` relates the flags to the candidates passed so far: those
  in impls up to the current item, or up to the one before while the inner loop
  runs. No top-level match lies behind the search, because such a match ends it.
  `LookupMeaning` adds that candidates are visible, and that a visible function
  implies a candidate (by a least match).
* **Types of Scanner.** `TypeInv` adds that only directories are listed and that
  what is visited is a tree; without it the entries and the recorded names would
  have no type.
* **The walk.** `WalkInv` says that each entry of a directory that was taken up, and
  recognised as one, is done, dropped or in a frame; that the frame at depth k holds paths of length k;
  and that what was taken up is closed under parents. The last two keep frames
  apart and make the directory about to be listed fresh, which is what rules out
  a second visit even when links lead in circles.
* **The report.** `ReportInv` ties the check's progress to the recorded set (rows
  for exactly the functions that are no longer pending), the lines to the rows,
  every recorded function to a version in `seen`, and the guard to the program
  counter.
* **Exactness.** `ExactInv` joins the two and adds that directories which were not
  recognised were taken up, so that a new path changes nothing about earlier ones; and
  that, as long as no file changed, the recorded set is what the files taken up so far
  call for; while one file is being processed it lies between that set without and
  with the file.
* **Refinement of the report.** `ProgramImplementsReport` maps the lines on disk, the
  part of the run and what it announced to `ReportSpec`; with `ReportInv` each step
  of the program is a step of that specification or leaves the report alone.
* **Mutex.** `LockInv` says that the word is UNLOCKED exactly when nobody owns the
  lock, that at most one thread does, and `SleepersRemembered`: with sleepers the
  word is CONTENDED or a thread is on its way to mark or to wake. None of the three
  is inductive without the others. `PoisonInv` says that data left torn has its
  flag set or the guard that will set it alive, and that who panicked before taking
  a guard still panics. The refinement maps owners to the lock's holder.

Checked by TLC only:

* liveness (`Finishes`, `EveryRunEnds`, `EveryoneReturns`, `CallsReturn`), which is
  beyond the proof system;
* `SafeNameRight`, which needs induction over what a recursive function computes;
* everything about the library other than the mutex.

## What is not modelled

Of the program:

* The wording of messages.
* Changes to the shape of the directory tree during a run; only contents change, and
  any access may fail, `is_dir` included.
* Limits on the length of a path and on the depth of the call stack.
* Comparison of names below the level of tokens, and raw identifiers.

Of the library:

* The greater part by far. Of its 316 000 lines the models stand for about 4 400.
  Most of the rest has no state that steps could bring into disorder: trait
  implementations repeated for every integer and tuple size, intrinsics, vendor
  SIMD, Unicode tables, formatting and parsing of floats, doc text and examples,
  and one system call per function for each of a dozen platforms. A model of such
  code would repeat it line by line and have nothing to say about it.
* State worth a model that has none yet: `BTreeMap` and `BinaryHeap`, the sorting
  algorithms, `LinkedList` cursors, the `mpsc` wrappers, `ReentrantLock`, thread
  local destructors, buffered readers and writers, `Command` and its pipes.
* Weak memory: the models order all accesses, so they cannot show that an `Acquire`
  or `Release` in the code is needed or enough.
* Other platforms' locks and parkers (Windows, SGX, Xous, ...).
* `mem::forget` of guards of locks, of scoped join handles and of `Arc`s; threads of
  a scope that join each other in a circle; counts
  that only overflow after 2^31 or 2^63 operations. One such case was seen while
  modelling: when `increment_num_running_threads` refuses a thread (scoped.rs 55),
  `overflow()` takes the increment back and the packet of the refused thread is
  dropped as well (thread/mod.rs 1676), so the count is one short. It takes more
  than `usize::MAX / 2` threads; the runs stay below the limit.

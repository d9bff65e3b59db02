# TLA+ models of the xv6 kernel with kernel threads

The repository is xv6, a small Unix for x86 multiprocessors, with a thread
extension: `clone`, `texit`, `tsleep`, `twakeup` and `thread_yield` in the
kernel, and a user-level queue, semaphore and thread library.  This directory
holds TLA+ models of its components, TLC configurations that check them on
small instances, and proofs checked by TLAPS for every size of the instance.

## The system and its models

| part | source | module | relies on |
|---|---|---|---|
| scheduling, spinlocks, interrupts | `proc.c`, `spinlock.c`, `trap.c` | Sched | the hardware |
| process table, threads | `proc.c`, `sysproc.c`, `trap.c`, `init.c` | ProcTable | Sched: critical sections and sleep are atomic |
| page allocator, page tables, `exec` | `kalloc.c`, `vm.c`, `proc.c`, `exec.c` | Memory | ProcTable: one call at a time per process |
| disk driver, buffer cache | `ide.c`, `bio.c` | Bcache, BlockStore | Sched |
| log and recovery | `log.c` | Log, AtomicDisk | Bcache: sectors have one contents |
| inodes, directories, files, their calls | `fs.c`, `file.c`, `sysfile.c` | Files | Log: transactions are atomic |
| pipes | `pipe.c` | Pipe, ByteFifo | Sched |
| console input, keyboard, serial line, clock | `console.c`, `kbd.c`, `uart.c`, `trap.c`, `sysproc.c` | Devices, LineInput | Sched |
| shell, init, descriptor tables | `sh.c`, `init.c`, `sysfile.c` | Shell | Pipe, Files, ProcTable |
| parser, path splitter, pattern matcher | `sh.c`, `fs.c`, `grep.c` | Text | |
| string routines, printf | `string.c`, `ulib.c`, `printf.c`, `console.c` | Strings | |
| user allocator, queue | `umalloc.c`, `queue.c` | Heap | |
| thread library and its programs | `thread.c`, `frisbee.c`, `test_sleep.c`, `test_yield.c` | Threads | Heap, ProcTable |

A module takes as one step what the module it relies on shows to be atomic; the
header comment of each module says what its steps are.  `PROJECT.json` lists all
parts of the repository under `components` with what is left out of each, and
under `hazards` what can go wrong in them that a test would hardly reach.

**Log.**  `home`, `logData` and `head` are the disk; `lh`, `busy`, `cache`,
`dirty`, `tail` and the program counters are memory.  `BeginTrans` and
`BeginSleep` are the two ways through `begin_trans`; `Modify` stands for a file
system call that changes a block it has read; `LogWrite` and `LogWritePanic` are
`log_write`; `CommitTrans`, `WriteHead`, `Install`, `Erase` and `EndTrans` are
`commit_trans`, one disk write per action.  `Crash` may come before any of them,
also during recovery (`ReadHead`, `RecoverInstall`, `RecoverErase`).  `Fill` and
`Evict` are what the log needs of `bio.c`.  A sector write is taken to be atomic.
**AtomicDisk** is what the log promises: transactions, one at a time, that become
durable all at once, and crashes that lose exactly what was not committed.  The
committed contents are what a replay of the on-disk header would leave.

**ProcTable.**  A critical section of `ptable.lock` is one action; what `fork`,
`clone` and `allocproc` do to a new slot without the lock are actions of their
own, and so are the error returns.  `loc` says where a process is in the kernel.
Address spaces are named by the pid of the process they were made for.

**Sched** is a level below: CPUs, spinlocks with their `pushcli` nesting,
interrupts that come in anywhere they are enabled, and context switches.  Each
context (process, or scheduler thread of a CPU) has a stack of frames.  The
processes run the sleeping side of a driver and the disk interrupt the waking
side, so that the interleavings inside `sleep`, `wakeup`, `sched` and
`scheduler` are those that the other modules take as atomic.

**Memory.**  `mem` has the free list and every page table, `proc` the fields of
the process table that concern memory.  Every `kalloc` may be the one that finds
nothing, and the failure paths are those of the code: `mem.lost` collects the
pages they drop, `mem.odd` the events after which less is promised.

**Bcache** models `bio.c` on top of `ide.c`: `bget` with its sleepers and its
recycling of the least recently used buffer, `bwrite`, `brelse`, the request
queue of `iderw`, `idestart` and `ideintr`, and a drive that works on its own.
`Pin` is what `log_write` does to a buffer.  A member of `Proc` is one use of a
buffer, from `bread` to `brelse`: a process that has two buffers, as in
`log_write` and `install_trans`, is two members.  When no buffer can be recycled
`bget` panics with `bcache.lock` held (`BgetPanic`), and whoever needs that lock
then spins for ever.  **BlockStore** is what it promises:
one current contents per sector, given to one process at a time.

**Files.**  `disk` is what the cache shows, `committed` what a crash leaves;
`icache` and `ftable` are the tables of `fs.c` and `file.c`; `proc` has a
process's working directory, descriptor and, inside a call, its inode pointers.
A call is split wherever it gives up an inode lock or waits for one or for the
log: `NamexStep` is one turn of the loop of `namex`, `LinkIncr`, `LinkParent`,
`LinkEntry` and `LinkBad` are `sys_link`, and so on.  `iput` is `IputStart` and
`IputFree`, with `icache.lock` given up in between.  `quirks` records what the
properties make exceptions for: a write outside of a transaction, an entry made
in a removed directory, and a block of the log area handed out by `balloc`.

**Pipe** has counters that wrap around; **ByteFifo** is the queue of bytes it
implements.  Test of `proc->killed` and sleep are two steps: `kill` takes
another lock.

**Devices** has the ring of the console between the keyboard decoder, the serial
line and the readers, and the clock between the timer interrupt and `sys_sleep`.
**LineInput** is what a reader may rely on.

**Shell** runs command lines: processes with descriptor tables, `fork1`,
`runcmd` by cases, pipes that are written and read, `init` that starts the shell
again.  A `fork` may fail, for want of a slot or of memory: the shell exits then,
and so does `init`, which ends the system (`panic: init exiting`).  **Text** and
**Strings** are algorithms as operators, each with a reference definition built
another way (`Ref...`); Shell's runs try them on every short string, in a state in
which init has not been started (`off`).

**Threads** is a step machine for each program, over the allocator and the queue
of **Heap**.  A call of the allocator or the queue takes two steps, as nothing
protects it.  `broke` records what the library cannot prevent: a failed `malloc`
or `clone`, a wakeup before the sleep, two calls of the allocator at once or a
`free` of what `malloc` did not give (after which memory is unpredictable and the
behaviour ends).  Two accidents of addresses are part of the model, since the
programs live with them.  `thQ2` is a pointer nobody sets, and `exec` maps an empty page at address
0 (`exec.c:38`): the queue's words are the first words of that page.  And `frisbee` clears 64 entries of `slist`, which has `numthreads`
(`frisbee.c:50`).  In the executable of `fs.img` (built with `-O0`) the tenth of
these stores clears the pointer to `slist` itself, so that the rest of them, and
later the stacks' addresses, go to address 0 and the words after it, on top of
`thQ2`; another compiler may place the loop variable or the end of the stack's page
there instead.  `ClearSlist` takes each of the three, and `Slot` and `SetSlot` are the
entries of `slist` as they lie over the queue.

The modules named `...Proofs`, `BcacheRefines` and `Rings` (lemmas about rings and
wrapping counters, for pipes and the console) hold the theorems.  The `MC` modules give TLC the sets, symmetries and views of the configurations.
Definitions whose comment starts with `Mutant:` are variants with a plausible
bug, used to show that the properties can fail; no specification uses them.

## What TLC checks

| run | instance | shows |
|---|---|---|
| `log` | 2 processes, 3 blocks, 2 values, log of 3 sectors | one transaction at a time, write-ahead, `Log` implements `AtomicDisk` with crashes at every point; sleepers in `begin_trans` wake |
| `proc_fork` | 3 slots, 2 CPUs, pids to 4, no threads | no orphans, nobody waits in vain, killed processes exit, init reaps what it inherits, no deadlock |
| `proc_threads` | 4 slots, 2 CPUs, pids to 4, all thread calls, failing clones | no lost wakeup in `wait`, unique pids, slots with one owner, address spaces freed once, no killed process asleep in `wait` |
| `sched` | 1 or 2 CPUs, 2 processes | no panic in the locking code, no process on two CPUs, no lost wakeup, interrupts as the caller left them; every sleeper runs again |
| `pipe` | 2 writers, 1 reader, which with one of the writers may be killed, ring of 2, counters modulo 4 | FIFO of bytes, nobody asleep without reason, nothing used after `kfree` |
| `bcache` | 2 buffer uses, 3 buffers, 4 sectors, 2 pinned buffers, with and without read errors | one buffer per sector, queue and drive agree, no lost release, no panic but `bget`'s; without errors valid buffers agree with the disk and `Bcache` implements `BlockStore` |
| `files` | 2 processes, 3 inodes, 3 blocks, a crash, three sets of calls | reference counts are exact on every path, the committed image is a sound tree, which panics can happen, no deadlock of inode locks and log |
| `files_stray` | the same, no crash | **violated** (`InTransaction`): an inode is freed outside of a transaction |
| `memory` | 17 pages, 3 slots | every page has one holder, sizes match the mappings, a call that fails takes nothing from anybody |
| `shell` | 7 command lines, 2 in a row; about 9500 strings | parser, paths, matcher and printf agree with their references; programs are wired as the line says, the prompt comes back after the foreground is done |
| `devices` | ring of 2, counters modulo 4, 2 readers or 2 sleepers | `Devices` implements `LineInput`, no reader sleeps over a line, modifiers follow the keys, sleeps last long enough and end |
| `threads` | 3 threads (2 in test_yield), 2 passes, heap of 30 units | the allocator loses nothing and gives nothing twice, the queue is a queue, stacks outlive their threads, throws alternate, main gets past its waits |

`SchedSound`, `PipeSound`, `CacheSound`, `TableSound` and `FamilySound` are
conjunctions; each conjunct has its own definition and comment in the module.

### Where code and comments, or code and expectation, differ

`files_stray` is kept as a run: `log.c` says that each system call that might
write the file system should be surrounded with `begin_trans()` and
`commit_trans()`, but `iput` may free an inode, and path lookups, `chdir`, `exec`
and `exit` call it outside of a transaction.  The other places the models show,
and how the properties account for them:

- `clone` by a thread reads its main process and stores it as the parent later
  (`proc.c:265`); if that process exits in between, the thread is nobody's
  child.  `NoOrphans` is checked in the run without `clone`.
- `clone` that fails in `copyout` (`proc.c:329`) leaves an EMBRYO slot, which
  `wait` counts as a child for ever.  `WaiterHasLiveChild` likewise.
- `texit` hands its children to nobody; the loop is commented out.
- `kill` between the test of `killed` and the sleep in `pipewrite`, `piperead`
  and `consoleread` is not seen until the other side acts.  A killed writer that
  fills the pipe returns without waking the readers: the `killed # {}` in
  `SleepersHaveReason`.
- After a read error `ideintr` marks a buffer valid that was not read.
- `bget` panics rather than waits when all buffers are busy or pinned.  The log
  pins up to `LOGSIZE` = 10 of `NBUF` = 10 buffers, so nothing rules it out; it is
  an action, and no property is against it.
- A main process that exits before its threads is reaped with the page table they
  run on (`proc.c:453`); `PagesOwned` speaks of the states before that.
- `printf.c:38` says "Only understands %d, %x, %p, %s.", but `printf` has a branch
  for `%c`; `cprintf`, of which `console.c:52` says the same, really has none.  `PrintRight` states what the code does.
- `frisbee` writes past `slist`, and its stacks share their words with `thQ2` (see
  above).  After that `free` may get an address that is no block: what `thQ2` leaves
  in an entry is freed as a stack when a thread could not be created.
- `setupkvm`, `allocuvm` and `copyuvm` lose pages when memory runs out in the
  middle (`mem.lost`); `sbrk` down to size 0 is taken for a failure; a thread's
  `sbrk` and `exec` change the address space under the other threads
  (`mem.odd`).
- An entry can be made in a directory that has been removed, and `balloc` can
  hand out blocks of the log area (`quirks`); `..` of a removed directory may
  lead to a freed inode (`NoPanic`).
- `tsleep` loses a `twakeup` that comes first, so `test_sleep` may hang and
  `test_yield` may leave a thread asleep; the allocator and the queue are shared
  without a lock.

### Bounds

- `Log`: a log of three sectors holds two blocks besides its header, so that a
  transaction can fill it, absorb a second write to a logged block and leave one
  block unlogged; two processes contend for it.  Nothing else is bounded.
- `ProcTable`: three slots give init, a parent and a child and let the table run
  full.  A fourth lets a process with a zombie child exit below a parent other
  than init, and lets a thread clone beside its main process; liveness stays with
  three.  `MaxPid` bounds how many slots are handed out; every slot but init's
  can be reused.  `KillPids` of `proc_fork` names init, a child, and a slot that
  is free again.
- `Sched`: two CPUs and two processes give a lock holder, a spinner, and an
  interrupt on either.  The second CPU need never start, so that two processes may
  also have to share one, which is where the order of the scheduler's scan matters.
- `Pipe`: with `PIPESIZE` 2 and writes of up to three bytes a single write wraps
  the ring and sleeps, and with `WORD` 4 the counters wrap.  `WORD` is a multiple
  of `PIPESIZE`, as 2^32 is of 512.
- `Bcache`: there is one sector more than there are buffers, so that `bget` has
  to evict.  `MaxPinned` bounds what the log pins: two pinned buffers and a busy
  one leave none, and the panic of `bget` is reached.
  With read errors no step depends on contents, and the view leaves them out.
- `Files`: each of the three sets of calls puts the two processes into one part
  of the tree: a directory that is removed while entered, a file with two names,
  nested directories with `..`.  Three inodes, one of them the root, one open
  file, and three blocks run out.  `MaxBlocks` 1 bounds a file to one block, so that a
  write of two is in part refused.  A state in `quirks` is not explored further.
- `Memory`: 17 pages are few enough that every allocation of a fork, a clone and an
  exec can be the one that fails.  Sizes that are not page aligned occur, as an
  address is a unit and a page has two.  Addresses stay below `KERNBASE` 12 and
  arithmetic wraps at 64, as a sum of a size and a delta can.  A state after an
  unusual event is not explored further.
- `Shell`: the lines nest each kind of command in others; the console's end
  stands for all that follows.  Six slots are init, the shell and four more, too
  few for the longest pipeline; `fork` may fail with slots left as well.  Strings
  have up to six characters over the alphabet that the algorithm at hand tells
  apart; those with words, blanks and redirections reach `MAXARGS`, which is 3.
- `Devices`: a ring of two is full after two characters, and the counters wrap
  after twice that.  A line being edited has at most one character there before it
  is let in, so `^U` over several of them is left to `ConsoleImplements`, which holds
  for any ring.  Keyboard, serial line and clock share nothing but the ring,
  and are checked in three machines.
- `Threads`: three threads are the smallest number with somebody who neither
  throws nor catches; the heap must grow (`NALLOC` 5) and blocks must be split
  and joined.  `sbrk` may fail at any call.  `QueueRight` is about the two programs
  whose queue has its words to itself, while `malloc` does not fail: `add_q` does not
  test what `malloc` returns.

`CHECK_DEADLOCK FALSE` is set where the system may really stop: with threads
everybody may be in `tsleep`, a shell has no more lines, a program ends, memory
is exhausted and all wait.

### Fairness

- `Log`: a process inside `log_write` or `commit_trans` goes on, a woken process
  runs, and a call that has begun a transaction commits it (strong fairness,
  since it may write any finite number of blocks first).
- `ProcTable`: the clock interrupts whoever runs, the scheduler's scan comes
  round to every RUNNABLE process, a process that gets the CPU again and again
  gets through its system call, and `init.c` calls `wait` in a loop.  No other
  program is forced to do anything.
- `Sched`: each CPU that has started runs (`mpinit` finds at least one), and one that spins for a lock that is free again and
  again gets it (strong fairness; the hardware's `xchg` gives it in practice, no
  more is known).  The clock ticks and the disk completes, on some CPU that has
  interrupts on; pending interrupts are latched.
- `Shell`: every process that can go on does (weak fairness), `init` included;
  the user need not type.
- `Devices`: the clock ticks, and a process that is not asleep runs, although
  others may hold the lock in between (strong fairness).  Nobody has to type.
- `Threads`: every thread that runs is scheduled; a lock is free again and again
  (strong fairness, as for `Sched`).

## What is proved

All of this holds for every value of the constants that the modules'
assumptions allow.

`LogProofs` (any processes, blocks, values and log size):

- `LogInvariant`: the conjunction of `TypeOK`, `OneTransaction`,
  `SleeperHasOwner`, `LoggedIsPinned`, `WriteAhead` and `Quiet` is inductive.
  `WriteAhead` alone is not: installing copies from the log slot, so one needs
  to know which slots are final, which depends on there being one transaction;
  and recovery relies on nothing running beside it (`Quiet`).
  `LogOneTransaction` and `LogWriteAhead` are its conjuncts of interest.
- `LogImplementsAtomicDisk`: the refinement that the run `log` checks.
  `write_head` is the commit, since a replay of the new header gives the current
  view (by `LoggedIsPinned`); installing changes nothing of a replay and once
  all blocks are home the header may be dropped.

`ProcProofs` (any number of slots and CPUs, any subset of the system calls and
any arguments of `kill`):

- `ProcTypeOK`, `ProcWaiterSeesZombie`, `ProcUniquePids`,
  `ProcKilledNotWaiting`.  The inductive invariant adds that a process holds a
  new slot exactly while it builds it (`Holds`), that slots nobody runs in are
  at rest (`AtRest`), that init stays and has no parent (`InitStays`), and that
  nobody is its own parent (`NoSelf`), which `clone` keeps because the slot it
  builds is already marked as a thread (`Marked`).  The interesting case is
  `exit`: a sleeper that is not woken is neither the parent nor, when a zombie
  is handed on, init.
- `ProcTableSound`: the run's `TableSound`, threads included.  The owner of an
  address space is the process it was made for (`Spaces`), so that reaping a thread
  or failing a `clone` frees nothing that is in use.
- `ProcFamilySound`: the run's `FamilySound`, for programs that make no call of
  `clone` or `texit`.  With them it is false (see above), so the theorem assumes
  that the two are not in `Calls`, as in the run `proc_fork`.  `Cradle` says when a
  slot gets its parent: a process under construction has a builder, and a free slot
  has no parent, so that `exit` hands every child on, the ones `fork` has not
  finished included.

`SchedProofs` (any number of processes and CPUs):

- `SchedSafety` and `InterruptSafety`: the run's `SchedSound` and
  `InterruptsRestored`.  The invariant gives every frame of every kernel stack its
  meaning: which stacks a process or a scheduler can have (`Shapes`), who is on which
  CPU and where the others left off (`Placed`), that locks and the depth of
  `pushcli` are those of the frames on the stack (`Locks`), what the interrupt flag,
  `intena` and its copy in `sched` are in each frame (`Flags`), and where a process
  can be between its test and its sleep when it is not yet woken (`Wakes`).  A CPU in
  a frame that holds a lock is the only one in such a frame, a handler can start only
  on a frame that holds none, and `sched` hands `ptable.lock` and the depth 1 of
  `pushcli` from one stack to another.

`PipeProofs` (any processes, any bytes, any ring size, counters that wrap at any
multiple of it):

- `PipeIsSound`: the run's `PipeSound`.  `Inv` adds that whoever has decided to
  sleep still holds the lock (`LockHeld`), that a process inside a call has its
  end of the pipe and something to do (`InCall`), that ends which are held are
  open (`EndsOpen`), and it states the reasons to sleep from the decision on
  (`Reasons`), so that nothing can take the reason away before the sleep.  The
  interesting cases are the writes: one that succeeds needed room, so no writer
  was asleep; one that fails has filled the ring and wakes nobody, so a reader
  asleep would have to be there in spite of a closed read end, or somebody has
  been killed.
- `PipeImplementsFifo`: the ring is the queue of the `Used` bytes from `nread`
  on.  It rests on lemmas about remainders: advancing a counter modulo `WORD`
  changes the distance as if it did not wrap (`Widens`, `Narrows`), an index into
  the ring does not notice the wrap because `WORD` is a multiple of `PIPESIZE`
  (`Advanced`, `WriteIndex`), and places less than `PIPESIZE` apart differ
  (`ModDiff`), so that a write overwrites nothing unread (`FillOld`).

`BcacheProofs` and `BcacheRefines` (any processes, sectors, values and number of
buffers, with read errors or without; `NoCmd` is not a command):

- `BcacheInvariant`: the conjuncts `OneBuffer`, `QueueServed`, `NoLostRelease`,
  `ValidIsDisk` and `NoIdePanic` of the run's `CacheSound`.  They need each other,
  and four facts more: a process inside `bread` has asked for a sector (`Asked`),
  a dirty buffer is valid (`Flags`), at the interrupt the data of a write is on
  the platter (`Written`), and a process that the interrupt woke has its request
  done (`Done`).  The interesting cases are `ideintr`, which starts the next
  request while its wakeup reaches sleepers of `bget` too, and the recycling in
  `bget`, which must not meet a buffer on the queue.  The order of the LRU list
  plays no part.
- `BcacheSafety`: all of `CacheSound`.  What it adds is that `brelse` keeps every
  buffer on the list (`Listed`).  It says nothing of `bget`'s panic, which is a step
  of the specification and keeps the invariant like the others.
- `BcacheImplementsStore`: a sector's contents are those of its valid buffer, or
  what is on the platter (`CurrentIs`, by `OneBuffer`).  A hit on a valid buffer
  and the interrupt that ends a read are `SRead`, `bwrite` and `log_write` are
  `SWrite`, `brelse` is `SRelease`.  The drive's write is invisible since the
  sector's buffer is still dirty, recycling since the buffer is clean.

`DevicesProofs` (any processes, read sizes, delays and characters, any keys with
the scan codes of a keyboard, any ring size, counters that wrap at a larger
multiple of it):

- `KeyboardFlags`: the run's `ShiftRight`.  `Kbd` relates the bytes still on the
  wire to the escape flag: the second byte of a key meets the flag that the first
  one set.
- `ConsoleReadersAwake` and `ConsoleImplements`: the run's `ReadersAwake` and the
  refinement of `LineInput`.  The invariant says that the three indices are in order
  and at most a ring apart (`Indices`), that the part being edited has no end of a
  line (`NoEnds`, which is why `^U` goes back exactly to `w`), and that whoever is
  about to sleep holds the lock and has nothing to read (`Readers`).  What a step
  does to the ring is one of three things: put a character (`PutRing`), cut the line
  (`CutRing`), take from the front (`TakeRing`).
- `SleepersKeepTime`: the action property `SleepTimes`.  The ghost `el` is the
  unsigned difference that `sys_sleep` computes (`Sleepers`) as long as the counter
  does not go round during one sleep, which `Tick` assumes.

Only model-checked: all liveness properties, and `SomebodyMoves` of `Files`,
which uses `ENABLED` (both are out of the prover's reach); the algorithms of
`Text`, `Strings` and `Heap`, which are recursive, and with them `Shell` and
`Threads`, which use them; `Memory`, whose allocation loops are folds, so that what
they compute takes induction; and the other invariants of `Files`.  That reads and
writes of a pipe and requests for a buffer are served in the end is not checked as a
temporal property on these instances, whose behaviour graphs are too large for it;
the invariants (`SleepersHaveReason`, `NoLostRelease`, `QueueServed`) say that nobody
sleeps without somebody who will wake it.

## What is not modelled

- `Files` counts a file's blocks: the indirect block of `bmap` and the bytes that
  `readi` and `writei` move are left out.  A process has one descriptor there;
  tables of descriptors are in `Shell`.
- `Memory` leaves out the contents and flags of pages, `uva2ka`, segments, the
  ELF headers and the argument stack of `exec`.
- `ProcTable` leaves out `procdump` and the in-kernel `thread_yield` with its
  queue (`queue2.c`).  `Log` takes `bget`'s search and waiting as atomic.  `Pipe`
  leaves out the failures of `pipealloc`.  `Bcache` has one device, and a
  process that holds one buffer while it waits for another is two independent uses
  there, so waiting in a circle is not.
- Console output, port I/O, boot, multiprocessor start-up, interrupt controllers
  and `memide.c` are device access that runs once or has no state of its own.
- `semaphore.c` and the programs on it use semaphores through pointers that are
  never set.  Like `thQ2` they all point to the page at address 0, so that a
  program's semaphores are one record in the same words; what these programs then do
  is an accident of the layout of the two structures.
- The remaining utilities make one system call each, or are tests of the kernel;
  `vm2.c` and `exec2.c` are not part of the build.

## Running

    tlc -config Log.cfg MCLog
    tlapm LogProofs.tla

and likewise for the other configurations, each with the `MC` module named in
`PROJECT.json`.  A run takes from seconds to about three minutes; `sched` and
`files` are the longest.  The proofs of a module take from seconds to ten
minutes.  In the longer proof modules `USE ZenonT(30)` makes Zenon the prover of
every leaf that does not name another; leaves with arithmetic or sequences name
the SMT solver.

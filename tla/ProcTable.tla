------------------------------ MODULE ProcTable ------------------------------
(***************************************************************************)
(* The life of processes and threads, proc.c: allocproc, fork, clone,      *)
(* exit, texit, wait, kill, tsleep, twakeup, yield and the choices of      *)
(* scheduler, with the killed checks of trap.c.                            *)
(*                                                                         *)
(* What happens between acquire(&ptable.lock) and the release (or the      *)
(* swtch to the scheduler) is one step; what fork, clone and allocproc do  *)
(* to the new slot without the lock are steps of their own.  loc is where  *)
(* a process is in the kernel.  Everybody who sleeps here sleeps on its    *)
(* own struct proc, so the channel needs no variable.                      *)
(***************************************************************************)
EXTENDS Integers, FiniteSets

CONSTANTS NPROC,     \* slots of ptable.proc
          NCPU,      \* CPUs that run scheduler()
          MaxPid,    \* bound: the programs ask for pids up to this one
          Calls,     \* system calls the programs make
          KillPids,  \* arguments they give to kill()
          BadArgs    \* whether they give clone() a bad stack

ASSUME ProcAssumption ==
  /\ NPROC \in Nat \ {0}
  /\ NCPU \in Nat \ {0}
  /\ MaxPid \in Nat \ {0}
  /\ Calls \subseteq {"fork", "clone", "exit", "texit", "wait", "tsleep"}
  /\ KillPids \subseteq Nat
  /\ BadArgs \in BOOLEAN

VARIABLES
  state, pid, parent, killed, isthread,   \* fields of struct proc
  pgdir,     \* p->pgdir, named by the pid of the process it was made for
  loc,       \* where the process is in the kernel, or "user"
  np, pp,    \* locals of fork and clone
  nextpid,
  mapped,    \* page directories that have not been freed
  panicked

vars == <<state, pid, parent, killed, isthread, pgdir, loc, np, pp,
          nextpid, mapped, panicked>>

Slot == 1 .. NPROC
NoProc == 0
initproc == 1     \* userinit takes the first slot

\* main() has called userinit().
Init ==
  /\ state = [p \in Slot |-> IF p = initproc THEN "RUNNABLE" ELSE "UNUSED"]
  /\ pid = [p \in Slot |-> IF p = initproc THEN 1 ELSE 0]
  /\ parent = [p \in Slot |-> NoProc]
  /\ killed = [p \in Slot |-> FALSE]
  /\ isthread = [p \in Slot |-> FALSE]
  /\ pgdir = [p \in Slot |-> IF p = initproc THEN 1 ELSE 0]
  /\ loc = [p \in Slot |-> "user"]
  /\ np = [p \in Slot |-> NoProc]
  /\ pp = [p \in Slot |-> NoProc]
  /\ nextpid = 2
  /\ mapped = {1}
  /\ panicked = FALSE

Runs(p, l) == ~panicked /\ state[p] = "RUNNING" /\ loc[p] = l

Goto(p, l) == loc' = [loc EXCEPT ![p] = l]

Woken(st, S) ==
  [p \in Slot |-> IF p \in S /\ st[p] = "SLEEPING" THEN "RUNNABLE" ELSE st[p]]

-----------------------------------------------------------------------------
(* Scheduling, and the way into and out of the kernel.                      *)

CpuFree == ~panicked /\ Cardinality({p \in Slot : state[p] = "RUNNING"}) < NCPU

\* scheduler() picks a process that is not inside wait(), whose sleep goes on
\* with ptable.lock held: see Wait.
Schedule(p) ==
  /\ CpuFree
  /\ state[p] = "RUNNABLE"
  /\ loc[p] # "waiting"
  /\ state' = [state EXCEPT ![p] = "RUNNING"]
  /\ loc' = IF loc[p] = "asleep" THEN [loc EXCEPT ![p] = "user"] ELSE loc
  /\ UNCHANGED <<pid, parent, killed, isthread, pgdir, np, pp, nextpid, mapped, panicked>>

\* Clock tick, or thread_yield3.  A killed process in user space exits instead.
Yield(p) ==
  /\ ~panicked
  /\ state[p] = "RUNNING"
  /\ loc[p] = "user" => ~killed[p]
  /\ state' = [state EXCEPT ![p] = "RUNNABLE"]
  /\ UNCHANGED <<pid, parent, killed, isthread, pgdir, loc, np, pp, nextpid, mapped, panicked>>

Allocating == {p \in Slot : loc[p] \in {"fork", "clone"}}

\* init.c makes no thread calls.
CallsOf(p) == IF p = initproc THEN Calls \cap {"fork", "exit", "wait"} ELSE Calls

\* A trap for a system call: trap() checks killed, then syscall() dispatches.
Syscall(p, c) ==
  /\ Runs(p, "user")
  /\ ~killed[p]
  /\ c \in {"fork", "clone"} => nextpid + Cardinality(Allocating) <= MaxPid
  /\ Goto(p, c)
  /\ UNCHANGED <<state, pid, parent, killed, isthread, pgdir, np, pp, nextpid, mapped, panicked>>

\* trap() calls exit() for a killed process on its way to user space.
TrapExit(p) ==
  /\ Runs(p, "user")
  /\ killed[p]
  /\ Goto(p, "exit")
  /\ UNCHANGED <<state, pid, parent, killed, isthread, pgdir, np, pp, nextpid, mapped, panicked>>

-----------------------------------------------------------------------------
(* allocproc                                                                *)

Free == {s \in Slot : state[s] = "UNUSED"}

\* Mutant: allocproc does not advance nextpid.
AllocProc_SamePid(p) ==
  /\ Runs(p, "fork") \/ Runs(p, "clone")
  /\ \E s \in Free :
       /\ \A t \in Free : s <= t
       /\ state' = [state EXCEPT ![s] = "EMBRYO"]
       /\ pid' = [pid EXCEPT ![s] = nextpid]
       /\ np' = [np EXCEPT ![p] = s]
  /\ nextpid' = nextpid
  /\ Goto(p, IF loc[p] = "fork" THEN "copy" ELSE "share")
  /\ UNCHANGED <<parent, killed, isthread, pgdir, pp, mapped, panicked>>

\* The scan for an UNUSED slot, under ptable.lock.
AllocProc(p) ==
  /\ Runs(p, "fork") \/ Runs(p, "clone")
  /\ \E s \in Free :
       /\ \A t \in Free : s <= t
       /\ state' = [state EXCEPT ![s] = "EMBRYO"]
       /\ pid' = [pid EXCEPT ![s] = nextpid]
       /\ np' = [np EXCEPT ![p] = s]
  /\ nextpid' = nextpid + 1
  /\ Goto(p, IF loc[p] = "fork" THEN "copy" ELSE "share")
  /\ UNCHANGED <<parent, killed, isthread, pgdir, pp, mapped, panicked>>

AllocNone(p) ==
  /\ Runs(p, "fork") \/ Runs(p, "clone")
  /\ Free = {}
  /\ Goto(p, "user")
  /\ UNCHANGED <<state, pid, parent, killed, isthread, pgdir, np, pp, nextpid, mapped, panicked>>

\* No memory for the kernel stack (fork or clone) or for the page table (fork):
\* the slot goes back without the lock, and keeps its pid.
NoMemory(p) ==
  /\ Runs(p, "copy") \/ Runs(p, "share")
  /\ state' = [state EXCEPT ![np[p]] = "UNUSED"]
  /\ np' = [np EXCEPT ![p] = NoProc]
  /\ Goto(p, "user")
  /\ UNCHANGED <<pid, parent, killed, isthread, pgdir, pp, nextpid, mapped, panicked>>

-----------------------------------------------------------------------------
(* fork                                                                     *)

ForkCopy(p) ==
  /\ Runs(p, "copy")
  /\ pgdir' = [pgdir EXCEPT ![np[p]] = pid[np[p]]]
  /\ mapped' = mapped \cup {pid[np[p]]}
  /\ parent' = [parent EXCEPT ![np[p]] = p]
  /\ isthread' = [isthread EXCEPT ![np[p]] = FALSE]
  /\ Goto(p, "start")
  /\ UNCHANGED <<state, pid, killed, np, pp, nextpid, panicked>>

\* np->state = RUNNABLE, the end of fork and of clone.  The child's first
\* scheduling goes through forkret to user space.
Start(p) ==
  /\ Runs(p, "start")
  /\ state' = [state EXCEPT ![np[p]] = "RUNNABLE"]
  /\ loc' = [loc EXCEPT ![p] = "user", ![np[p]] = "user"]
  /\ np' = [np EXCEPT ![p] = NoProc]
  /\ UNCHANGED <<pid, parent, killed, isthread, pgdir, pp, nextpid, mapped, panicked>>

-----------------------------------------------------------------------------
(* clone                                                                    *)

\* A stack that is not page aligned: clone returns -1 and keeps the slot.
CloneReject(p) ==
  /\ BadArgs
  /\ Runs(p, "share")
  /\ np' = [np EXCEPT ![p] = NoProc]
  /\ Goto(p, "user")
  /\ UNCHANGED <<state, pid, parent, killed, isthread, pgdir, pp, nextpid, mapped, panicked>>

CloneShare(p) ==
  /\ Runs(p, "share")
  /\ pgdir' = [pgdir EXCEPT ![np[p]] = pgdir[p]]
  /\ parent' = [parent EXCEPT ![np[p]] = p]
  /\ isthread' = [isthread EXCEPT ![np[p]] = TRUE]
  /\ pp' = [pp EXCEPT ![p] = p]
  /\ Goto(p, "walk")
  /\ UNCHANGED <<state, pid, killed, np, nextpid, mapped, panicked>>

\* Whether pp->isthread == 1.  A null pp reads the program's own text, which
\* has no 1 there.
ThreadAt(q) == q # NoProc /\ isthread[q]

\* while(pp->isthread == 1) pp = pp->parent, without ptable.lock.
CloneWalk(p) ==
  /\ Runs(p, "walk")
  /\ ThreadAt(pp[p])
  /\ pp' = [pp EXCEPT ![p] = parent[pp[p]]]
  /\ UNCHANGED <<state, pid, parent, killed, isthread, pgdir, loc, np, nextpid, mapped, panicked>>

\* np->parent = pp.
CloneAdopt(p) ==
  /\ Runs(p, "walk")
  /\ ~ThreadAt(pp[p])
  /\ parent' = [parent EXCEPT ![np[p]] = pp[p]]
  /\ pp' = [pp EXCEPT ![p] = NoProc]
  /\ Goto(p, "push")
  /\ UNCHANGED <<state, pid, killed, isthread, pgdir, np, nextpid, mapped, panicked>>

\* copyout of the argument to the new stack.
ClonePush(p) ==
  /\ Runs(p, "push")
  /\ Goto(p, "start")
  /\ UNCHANGED <<state, pid, parent, killed, isthread, pgdir, np, pp, nextpid, mapped, panicked>>

\* The stack is not mapped: clone returns -1 and keeps the slot.
ClonePushFails(p) ==
  /\ BadArgs
  /\ Runs(p, "push")
  /\ np' = [np EXCEPT ![p] = NoProc]
  /\ Goto(p, "user")
  /\ UNCHANGED <<state, pid, parent, killed, isthread, pgdir, pp, nextpid, mapped, panicked>>

-----------------------------------------------------------------------------
(* exit and texit                                                           *)

\* Mutant: the scans for children stop one slot short of the table's end.
Children_Short(p) == {c \in Slot \ {NPROC} : parent[c] = p}

Children(p) == {c \in Slot : parent[c] = p}

\* Mutant: exit does not tell init about the zombies it inherits.
ExitWakes_NoInit(p) == {parent[p]}

\* Whom exit() wakes: the parent, and init if it inherits a zombie.
ExitWakes(p) ==
  {parent[p]} \cup
  IF \E c \in Children(p) : state[c] = "ZOMBIE" THEN {initproc} ELSE {}

\* Mutant: exit leaves its children alone.
Reparent_Skip(p) == parent

\* The loop of exit(): pass abandoned children to init.
Reparent(p) == [c \in Slot |-> IF parent[c] = p THEN initproc ELSE parent[c]]

Exit(p) ==
  /\ Runs(p, "exit")
  /\ p # initproc
  /\ parent' = Reparent(p)
  /\ state' = [Woken(state, ExitWakes(p)) EXCEPT ![p] = "ZOMBIE"]
  /\ UNCHANGED <<pid, killed, isthread, pgdir, loc, np, pp, nextpid, mapped, panicked>>

\* texit() has the loop over the children commented out.
TExit(p) ==
  /\ Runs(p, "texit")
  /\ p # initproc
  /\ state' = [Woken(state, {parent[p]}) EXCEPT ![p] = "ZOMBIE"]
  /\ UNCHANGED <<pid, parent, killed, isthread, pgdir, loc, np, pp, nextpid, mapped, panicked>>

\* panic("init exiting").
ExitPanic(p) ==
  /\ Runs(p, "exit") \/ Runs(p, "texit")
  /\ p = initproc
  /\ panicked' = TRUE
  /\ UNCHANGED <<state, pid, parent, killed, isthread, pgdir, loc, np, pp, nextpid, mapped>>

\* panic() ends in for(;;), and the other CPUs freeze.
PanicSpin == panicked /\ UNCHANGED vars

-----------------------------------------------------------------------------
(* wait                                                                     *)

Zombies(p) == {c \in Children(p) : state[c] = "ZOMBIE"}

\* p holds ptable.lock at the top of the loop of wait(): on entry, or when
\* the scheduler has resumed it inside sleep().
AtLoop(p) ==
  \/ Runs(p, "wait")
  \/ CpuFree /\ state[p] = "RUNNABLE" /\ loc[p] = "waiting"

\* Mutant: the isthread test is missing.
Freed_Always(c) == {pgdir[c]}

\* A thread's address space belongs to somebody else.
Freed(c) == IF isthread[c] THEN {} ELSE {pgdir[c]}

\* Found one: the first zombie child of the table.
WaitReap(p) ==
  /\ AtLoop(p)
  /\ \E c \in Zombies(p) :
       /\ \A d \in Zombies(p) : c <= d
       /\ state' = [state EXCEPT ![p] = "RUNNING", ![c] = "UNUSED"]
       /\ mapped' = mapped \ Freed(c)
       /\ pid' = [pid EXCEPT ![c] = 0]
       /\ parent' = [parent EXCEPT ![c] = NoProc]
       /\ killed' = [killed EXCEPT ![c] = FALSE]
       /\ loc' = [loc EXCEPT ![p] = "user", ![c] = "user"]
  /\ UNCHANGED <<isthread, pgdir, np, pp, nextpid, panicked>>

\* Nothing to wait for: -1.
WaitFails(p) ==
  /\ AtLoop(p)
  /\ Zombies(p) = {}
  /\ Children(p) = {} \/ killed[p]
  /\ state' = [state EXCEPT ![p] = "RUNNING"]
  /\ Goto(p, "user")
  /\ UNCHANGED <<pid, parent, killed, isthread, pgdir, np, pp, nextpid, mapped, panicked>>

\* Mutant: wait sleeps without looking at killed.
WaitSleep_Deaf(p) ==
  /\ AtLoop(p)
  /\ Zombies(p) = {}
  /\ Children(p) # {}
  /\ state' = [state EXCEPT ![p] = "SLEEPING"]
  /\ Goto(p, "waiting")
  /\ UNCHANGED <<pid, parent, killed, isthread, pgdir, np, pp, nextpid, mapped, panicked>>

\* sleep(proc, &ptable.lock).
WaitSleep(p) ==
  /\ AtLoop(p)
  /\ Zombies(p) = {}
  /\ Children(p) # {} /\ ~killed[p]
  /\ state' = [state EXCEPT ![p] = "SLEEPING"]
  /\ Goto(p, "waiting")
  /\ UNCHANGED <<pid, parent, killed, isthread, pgdir, np, pp, nextpid, mapped, panicked>>

-----------------------------------------------------------------------------
(* kill, tsleep, twakeup                                                    *)

Somebody == \E p \in Slot : Runs(p, "user")

\* Mutant: kill leaves a sleeping process asleep.
KillWakes_None(s) == state

\* Wake process from sleep if necessary.
KillWakes(s) == Woken(state, {s})

\* The first slot with that pid, in use or not.
Kill(x) ==
  /\ Somebody
  /\ \E s \in Slot :
       /\ pid[s] = x
       /\ \A t \in Slot : pid[t] = x => s <= t
       /\ killed' = [killed EXCEPT ![s] = TRUE]
       /\ state' = KillWakes(s)
  /\ UNCHANGED <<pid, parent, isthread, pgdir, loc, np, pp, nextpid, mapped, panicked>>

TSleep(p) ==
  /\ Runs(p, "tsleep")
  /\ state' = [state EXCEPT ![p] = "SLEEPING"]
  /\ Goto(p, "asleep")
  /\ UNCHANGED <<pid, parent, killed, isthread, pgdir, np, pp, nextpid, mapped, panicked>>

TWakeup(tid) ==
  /\ Somebody
  /\ state' = Woken(state, {s \in Slot : pid[s] = tid /\ isthread[s]})
  /\ UNCHANGED <<pid, parent, killed, isthread, pgdir, loc, np, pp, nextpid, mapped, panicked>>

-----------------------------------------------------------------------------
\* What a process does inside a system call, once it is running.
Step(p) ==
  \/ AllocProc(p) \/ AllocNone(p) \/ NoMemory(p)
  \/ ForkCopy(p) \/ Start(p)
  \/ CloneReject(p) \/ CloneShare(p) \/ CloneWalk(p) \/ CloneAdopt(p)
  \/ ClonePush(p) \/ ClonePushFails(p)
  \/ Exit(p) \/ TExit(p) \/ ExitPanic(p)
  \/ WaitReap(p) \/ WaitFails(p) \/ WaitSleep(p)
  \/ TSleep(p)

Next ==
  \/ \E p \in Slot : Schedule(p) \/ Yield(p) \/ TrapExit(p) \/ Step(p)
  \/ \E p \in Slot : \E c \in CallsOf(p) : Syscall(p, c)
  \/ \E x \in KillPids : Kill(x)
  \/ \E x \in 1 .. MaxPid : TWakeup(x)
  \/ PanicSpin

Spec == Init /\ [][Next]_vars

-----------------------------------------------------------------------------
(* Correctness.                                                             *)

TypeOK ==
  /\ state \in [Slot -> {"UNUSED", "EMBRYO", "SLEEPING", "RUNNABLE", "RUNNING", "ZOMBIE"}]
  /\ pid \in [Slot -> Nat]
  /\ parent \in [Slot -> Slot \cup {NoProc}]
  /\ killed \in [Slot -> BOOLEAN]
  /\ isthread \in [Slot -> BOOLEAN]
  /\ pgdir \in [Slot -> Nat]
  /\ loc \in [Slot -> {"user", "fork", "clone", "copy", "share", "walk", "push", "start",
                       "exit", "texit", "wait", "waiting", "tsleep", "asleep"}]
  /\ np \in [Slot -> Slot \cup {NoProc}]
  /\ pp \in [Slot -> Slot \cup {NoProc}]
  /\ nextpid \in Nat \ {0}
  /\ \A p \in Slot : pid[p] < nextpid
  /\ mapped \in SUBSET Nat
  /\ panicked \in BOOLEAN

Alive(p) == state[p] \in {"SLEEPING", "RUNNABLE", "RUNNING"}
Waiting(p) == state[p] = "SLEEPING" /\ loc[p] = "waiting"

\* No lost wakeup between exit (or texit) and wait: a process asleep in wait()
\* has no child that is already a zombie, whoever inherited the child from whom.
WaiterSeesZombie ==
  \A p \in Slot : Waiting(p) => Zombies(p) = {}

\* wait() sleeps only while there is somebody to wait for: "Return -1 if this
\* process has no children."  A slot that can never become a zombie (an EMBRYO
\* left behind) does not count.
WaiterHasLiveChild ==
  \A p \in Slot : Waiting(p) => \E c \in Children(p) : Alive(c)

\* exit() passes children to init, so whoever runs, or is a zombie, has a
\* parent that can still call wait(): "An exited process remains in the zombie
\* state until its parent calls wait() to find out it exited."
NoOrphans ==
  \A c \in Slot \ {initproc} :
    Alive(c) \/ state[c] = "ZOMBIE" => parent[c] # NoProc /\ Alive(parent[c])

\* A slot that allocproc handed out is in the hands of the one fork() or
\* clone() that asked for it, and pids of slots in use are never shared.
UniquePids ==
  /\ \A p, q \in Slot : state[p] # "UNUSED" /\ state[q] # "UNUSED" /\ pid[p] = pid[q]
                        => p = q
  /\ \A p, q \in Slot : np[p] # NoProc => /\ state[np[p]] = "EMBRYO"
                                          /\ np[p] = np[q] => p = q

\* The processes that have an address space of their own; a fork that has
\* copied the parent's counts for its child.
Owns(p) ==
  /\ ~isthread[p]
  /\ \/ state[p] \notin {"UNUSED", "EMBRYO"}
     \/ \E q \in Slot : loc[q] = "start" /\ np[q] = p

\* wait() frees an address space exactly when it reaps the process that owns
\* it: reaping a thread frees nothing, no process runs on freed page tables
\* of its own, and none leak.
SpacesOwned ==
  /\ mapped = {pgdir[p] : p \in {q \in Slot : Owns(q)}}
  /\ \A p, q \in Slot : Owns(p) /\ Owns(q) /\ pgdir[p] = pgdir[q] => p = q

\* kill() and the killed test of wait() are both under ptable.lock, so a killed
\* process is never asleep in wait().
KilledNotWaiting == \A p \in Slot : Waiting(p) => ~killed[p]

\* Slots, pids and address spaces keep their owners, whichever of fork(), clone(),
\* exit(), texit() and wait() take them and give them back.
TableSound == TypeOK /\ UniquePids /\ SpacesOwned

\* Parents and children keep each other, without clone(): every process has a parent
\* to wait for it, and every waiting parent a child to wait for.
FamilySound == NoOrphans /\ WaiterHasLiveChild

-----------------------------------------------------------------------------
(* Liveness.                                                                *)

\* Clock ticks take the CPU from whoever keeps it, the scan of scheduler()
\* comes round to every RUNNABLE process, and a process that gets a CPU again
\* and again gets through its system call.  The clock traps a killed process
\* out of user space.  init.c calls wait() for
\* ever; nobody else is forced to make any call.
Fairness ==
  /\ \A p \in Slot : /\ WF_vars(Yield(p))
                     /\ SF_vars(Schedule(p))
                     /\ SF_vars(Step(p) \/ TrapExit(p))
  /\ SF_vars(Syscall(initproc, "wait"))

LiveSpec == Spec /\ Fairness

\* A killed process gets out of whatever it was doing, and exits.
KilledExits ==
  \A p \in Slot : killed[p] /\ Alive(p) ~> ~Alive(p) \/ panicked

\* init reaps every zombie it is the parent of, the ones it inherited included.
InitReaps ==
  \A c \in Slot : state[c] = "ZOMBIE" /\ parent[c] = initproc
                  ~> state[c] # "ZOMBIE" \/ panicked
=============================================================================

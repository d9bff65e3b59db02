-------------------------------- MODULE Sched --------------------------------
(***************************************************************************)
(* CPUs, spinlocks, interrupts and context switches: spinlock.c, and       *)
(* scheduler, sched, yield, sleep, wakeup and forkret of proc.c, with the  *)
(* clock and the disk interrupt of trap.c.                                 *)
(*                                                                         *)
(* The processes all run the sleeping side of a driver: take lk, sleep on  *)
(* one channel until the flag ready is up, take it down, release lk (the   *)
(* consumer of sleep1.p, iderw, piperead).  The disk interrupt is the      *)
(* waking side, and comes in on whichever CPU has interrupts on.           *)
(*                                                                         *)
(* A context is a process or the scheduler thread of a CPU.  Each has a    *)
(* stack of frames: where it is, and above it the interrupt handler that   *)
(* has interrupted it.  A frame at a label of Acquires or Releases takes   *)
(* two steps, ph 0 and 1, as the C functions do.                           *)
(***************************************************************************)
EXTENDS Integers, Sequences

CONSTANTS NPROC, NCPU

ASSUME SchedAssumption == NPROC \in Nat \ {0} /\ NCPU \in Nat \ {0}

VARIABLES
  state,     \* p->state
  stk,       \* frames of each context, the innermost first
  cur,       \* the context each CPU is executing
  owner,     \* lk->locked and lk->cpu: the CPU that holds the lock
  ncli, intena,
  ion,       \* interrupts are on
  saved,     \* the local intena of sched()
  scan,      \* the scheduler's next slot of ptable
  ready      \* what the sleepers wait for, guarded by lk

vars == <<state, stk, cur, owner, ncli, intena, ion, saved, scan, ready>>

Proc == 1 .. NPROC
Cpu == {-c : c \in 1 .. NCPU}    \* also names the CPU's scheduler context
Ctx == Proc \cup Cpu
Nobody == 0

Acquires == [lock |-> "lk", sleep0 |-> "ptable", intr0 |-> "lk", wake0 |-> "ptable",
             yield0 |-> "ptable", sched0 |-> "ptable"]
Releases == [unlock |-> "lk", sleep1 |-> "lk", sleep3 |-> "ptable", wake2 |-> "ptable",
             intr2 |-> "lk", yield2 |-> "ptable", sched2 |-> "ptable", forkret |-> "ptable"]

\* Mutant: the interrupt handler calls wakeup1() without ptable.lock.
Following_BareWakeup ==
  [user |-> "lock", lock |-> "test", sleep0 |-> "sleep1", sleep1 |-> "sleep2",
   sleep2 |-> "sleep3", sleep3 |-> "lock", unlock |-> "user", forkret |-> "trapret",
   intr0 |-> "intr1", intr1 |-> "wake1", wake0 |-> "wake1", wake1 |-> "intr2",
   wake2 |-> "intr2", intr2 |-> "iret",
   yield0 |-> "yield1", yield1 |-> "yield2", yield2 |-> "iret",
   sti |-> "sched0", sched0 |-> "sched1", sched2 |-> "sti"]

\* The label that follows an acquire, a release or a plain step.
Following ==
  [user |-> "lock", lock |-> "test", sleep0 |-> "sleep1", sleep1 |-> "sleep2",
   sleep2 |-> "sleep3", sleep3 |-> "lock", unlock |-> "user", forkret |-> "trapret",
   intr0 |-> "intr1", intr1 |-> "wake0", wake0 |-> "wake1", wake1 |-> "wake2",
   wake2 |-> "intr2", intr2 |-> "iret",
   yield0 |-> "yield1", yield1 |-> "yield2", yield2 |-> "iret",
   sti |-> "sched0", sched0 |-> "sched1", sched2 |-> "sti"]

Frame(l) == [at |-> l, ph |-> 0]

\* Every process is new, and every CPU is about to enter scheduler().
Init ==
  /\ state = [p \in Proc |-> "RUNNABLE"]
  /\ stk = [x \in Ctx |-> IF x \in Proc THEN <<Frame("forkret"), Frame("user")>>
                                       ELSE <<Frame("sti")>>]
  /\ cur = [c \in Cpu |-> c]
  /\ owner = [l \in {"lk", "ptable"} |-> Nobody]
  /\ ncli = [c \in Cpu |-> 0]
  /\ intena = [c \in Cpu |-> FALSE]
  /\ ion = [c \in Cpu |-> FALSE]
  /\ saved = [p \in Proc |-> FALSE]
  /\ scan = [c \in Cpu |-> 1]
  /\ ready = FALSE

Top(c) == Head(stk[cur[c]])
At(c, l) == Top(c).at = l

\* The current context of c goes on at label l.
Goto(c, l) == stk' = [stk EXCEPT ![cur[c]] = <<Frame(l)>> \o Tail(@)]
Proceed(c) == Goto(c, Following[Top(c).at])
SecondPhase(c) == stk' = [stk EXCEPT ![cur[c]][1].ph = 1]

-----------------------------------------------------------------------------
(* acquire and release                                                      *)

AtAcquire(c, l, ph) ==
  /\ Top(c).at \in DOMAIN Acquires
  /\ Acquires[Top(c).at] = l
  /\ Top(c).ph = ph

AtRelease(c, l, ph) ==
  /\ Top(c).at \in DOMAIN Releases
  /\ Releases[Top(c).at] = l
  /\ Top(c).ph = ph

\* Mutant: acquire does not disable interrupts.
Pushcli_NoCli(c) ==
  /\ ncli' = [ncli EXCEPT ![c] = @ + 1]
  /\ intena' = IF ncli[c] = 0 THEN [intena EXCEPT ![c] = ion[c]] ELSE intena
  /\ UNCHANGED ion

Pushcli(c) ==
  /\ ncli' = [ncli EXCEPT ![c] = @ + 1]
  /\ intena' = IF ncli[c] = 0 THEN [intena EXCEPT ![c] = ion[c]] ELSE intena
  /\ ion' = [ion EXCEPT ![c] = FALSE]

AcquireBegin(c, l) ==
  /\ AtAcquire(c, l, 0)
  /\ owner[l] # c
  /\ Pushcli(c)
  /\ SecondPhase(c)
  /\ UNCHANGED <<state, cur, owner, saved, scan, ready>>

\* The xchg that finds the lock free.
AcquireEnd(c, l) ==
  /\ AtAcquire(c, l, 1)
  /\ owner[l] = Nobody
  /\ owner' = [owner EXCEPT ![l] = c]
  /\ Proceed(c)
  /\ UNCHANGED <<state, cur, ncli, intena, ion, saved, scan, ready>>

ReleaseBegin(c, l) ==
  /\ AtRelease(c, l, 0)
  /\ owner[l] = c
  /\ owner' = [owner EXCEPT ![l] = Nobody]
  /\ SecondPhase(c)
  /\ UNCHANGED <<state, cur, ncli, intena, ion, saved, scan, ready>>

Popcli(c) ==
  /\ ncli' = [ncli EXCEPT ![c] = @ - 1]
  /\ ion' = [ion EXCEPT ![c] = ncli[c] = 1 /\ intena[c]]

ReleaseEnd(c, l) ==
  /\ AtRelease(c, l, 1)
  /\ ~ion[c] /\ ncli[c] > 0
  /\ Popcli(c)
  /\ Proceed(c)
  /\ UNCHANGED <<state, cur, owner, intena, saved, scan, ready>>

\* The panics of acquire, release and popcli.
LockPanics(c, l) ==
  \/ AtAcquire(c, l, 0) /\ owner[l] = c
  \/ AtRelease(c, l, 0) /\ owner[l] # c
  \/ AtRelease(c, l, 1) /\ (ion[c] \/ ncli[c] <= 0)

-----------------------------------------------------------------------------
(* Processes                                                                *)

\* A system call, and the loop test of the sleeper with lk held.
Enter(c) ==
  /\ At(c, "user")
  /\ Proceed(c)
  /\ UNCHANGED <<state, cur, owner, ncli, intena, ion, saved, scan, ready>>

Test(c) ==
  /\ At(c, "test")
  /\ ready' = FALSE
  /\ Goto(c, IF ready THEN "unlock" ELSE "sleep0")
  /\ UNCHANGED <<state, cur, owner, ncli, intena, ion, saved, scan>>

\* What sched() insists on.  The state it wants is set by its callers.
SchedOK(c) == owner["ptable"] = c /\ ncli[c] = 1 /\ ~ion[c]

\* sched(): the process leaves the CPU to the scheduler in state s.
SwitchOut(c, s) ==
  /\ SchedOK(c)
  /\ state' = [state EXCEPT ![cur[c]] = s]
  /\ saved' = [saved EXCEPT ![cur[c]] = intena[c]]
  /\ Proceed(c)
  /\ cur' = [cur EXCEPT ![c] = c]
  /\ UNCHANGED <<owner, ncli, intena, ion, scan, ready>>

\* sleep(), with ptable.lock held and lk released.
Sleep(c) == At(c, "sleep2") /\ SwitchOut(c, "SLEEPING")

YieldCpu(c) == At(c, "yield1") /\ SwitchOut(c, "RUNNABLE")

SchedPanics(c) == (At(c, "sleep2") \/ At(c, "yield1")) /\ ~SchedOK(c)

-----------------------------------------------------------------------------
(* The scheduler thread of a CPU                                            *)

Sti(c) ==
  /\ At(c, "sti")
  /\ ion' = [ion EXCEPT ![c] = TRUE]
  /\ scan' = [scan EXCEPT ![c] = 1]
  /\ Proceed(c)
  /\ UNCHANGED <<state, cur, owner, ncli, intena, saved, ready>>

\* Mutant: sched() does not restore cpu->intena.
Restored_Stale(c, p) == intena

\* cpu->intena = intena, when p comes back in sched(); forkret has none.
Restored(c, p) ==
  IF Head(stk[p]).at = "forkret" THEN intena
  ELSE [intena EXCEPT ![c] = saved[p]]

\* Mutant: the scan begins again at the first slot after every switch.
ScanNext_Restart(i) == 1

ScanNext(i) == i + 1

\* The first RUNNABLE process at or after scan.
Switch(c) ==
  /\ At(c, "sched1")
  /\ \E p \in scan[c] .. NPROC :
       /\ state[p] = "RUNNABLE"
       /\ \A q \in scan[c] .. p - 1 : state[q] # "RUNNABLE"
       /\ state' = [state EXCEPT ![p] = "RUNNING"]
       /\ cur' = [cur EXCEPT ![c] = p]
       /\ scan' = [scan EXCEPT ![c] = ScanNext(p)]
       /\ intena' = Restored(c, p)
  /\ UNCHANGED <<stk, owner, ncli, ion, saved, ready>>

ScanDone(c) ==
  /\ At(c, "sched1")
  /\ \A p \in scan[c] .. NPROC : state[p] # "RUNNABLE"
  /\ Goto(c, "sched2")
  /\ UNCHANGED <<state, cur, owner, ncli, intena, ion, saved, scan, ready>>

-----------------------------------------------------------------------------
(* Interrupts: the gate clears the flag, and iret sets it again.                  *)

Interrupt(c, l) ==
  /\ ion[c]
  /\ ion' = [ion EXCEPT ![c] = FALSE]
  /\ stk' = [stk EXCEPT ![cur[c]] = <<Frame(l)>> \o @]
  /\ UNCHANGED <<state, cur, owner, ncli, intena, saved, scan, ready>>

\* A clock tick ends in yield() when a process is running.
Timer(c) == cur[c] \in Proc /\ Interrupt(c, "yield0")

\* The disk has one request to complete at a time.
DiskIdle == \A x \in Ctx : \A i \in 1 .. Len(stk[x]) :
              stk[x][i].at \notin {"intr0", "intr1", "wake0", "wake1", "wake2", "intr2"}

Disk(c) == ~ready /\ DiskIdle /\ Interrupt(c, "intr0")

SetReady(c) ==
  /\ At(c, "intr1")
  /\ ready' = TRUE
  /\ Proceed(c)
  /\ UNCHANGED <<state, cur, owner, ncli, intena, ion, saved, scan>>

\* Mutant: wakeup1 stops at the first sleeper.
Wakeup_One(c) ==
  /\ At(c, "wake1")
  /\ state' = [p \in Proc |->
                 IF state[p] = "SLEEPING" /\ (\A q \in 1 .. p - 1 : state[q] # "SLEEPING") THEN "RUNNABLE" ELSE state[p]]
  /\ Proceed(c)
  /\ UNCHANGED <<cur, owner, ncli, intena, ion, saved, scan, ready>>

\* wakeup1()
Wakeup(c) ==
  /\ At(c, "wake1")
  /\ state' = [p \in Proc |-> IF state[p] = "SLEEPING" THEN "RUNNABLE" ELSE state[p]]
  /\ Proceed(c)
  /\ UNCHANGED <<cur, owner, ncli, intena, ion, saved, scan, ready>>

\* The end of trapret, after an interrupt or for a new process.
Iret(c) ==
  /\ At(c, "iret") \/ At(c, "trapret")
  /\ ion' = [ion EXCEPT ![c] = TRUE]
  /\ stk' = [stk EXCEPT ![cur[c]] = Tail(@)]
  /\ UNCHANGED <<state, cur, owner, ncli, intena, saved, scan, ready>>

-----------------------------------------------------------------------------
\* What CPU c does next of its own accord.
Run(c) ==
  \/ \E l \in {"lk", "ptable"} : \/ AcquireBegin(c, l) \/ AcquireEnd(c, l)
                                 \/ ReleaseBegin(c, l) \/ ReleaseEnd(c, l)
  \/ Test(c) \/ Sleep(c) \/ YieldCpu(c)
  \/ Sti(c) \/ Switch(c) \/ ScanDone(c)
  \/ SetReady(c) \/ Wakeup(c) \/ Iret(c)

Next == \E c \in Cpu : Run(c) \/ Enter(c) \/ Timer(c) \/ Disk(c)

Spec == Init /\ [][Next]_vars

-----------------------------------------------------------------------------
(* Correctness.                                                             *)

Labels == DOMAIN Following \cup {"test", "sched1", "iret", "trapret"}
Handler == {"intr0", "intr1", "intr2", "wake0", "wake1", "wake2",
            "yield0", "yield1", "yield2", "iret"}

TypeOK ==
  /\ state \in [Proc -> {"SLEEPING", "RUNNABLE", "RUNNING"}]
  /\ \A x \in Ctx : /\ Len(stk[x]) \in 1 .. 3
                    /\ \A i \in 1 .. Len(stk[x]) :
                         stk[x][i] \in [at : Labels, ph : {0, 1}]
  /\ cur \in [Cpu -> Ctx]
  /\ owner \in [{"lk", "ptable"} -> Cpu \cup {Nobody}]
  /\ ncli \in [Cpu -> 0 .. 2]
  /\ intena \in [Cpu -> BOOLEAN]
  /\ ion \in [Cpu -> BOOLEAN]
  /\ saved \in [Proc -> BOOLEAN]
  /\ scan \in [Cpu -> 1 .. NPROC + 1]
  /\ ready \in BOOLEAN

\* None of the panics of acquire, release, popcli and sched can happen: no CPU
\* takes a lock twice or releases another CPU's, and sched() is entered with
\* ptable.lock, no other lock, and interrupts off.
NoPanic ==
  \A c \in Cpu : ~SchedPanics(c) /\ \A l \in {"lk", "ptable"} : ~LockPanics(c, l)

\* A process runs on one CPU at a time, and is RUNNING exactly when it is on
\* one; a context switch leaves no process on two kernel stacks.
OneCpuEach ==
  /\ \A p \in Proc : state[p] = "RUNNING" <=> \E c \in Cpu : cur[c] = p
  /\ \A c, d \in Cpu : cur[c] = cur[d] => c = d

\* sleep() releases lk only once it holds ptable.lock, and wakeup() takes it:
\* with ready up and no wakeup() under way, nobody is asleep.
NoLostWakeup ==
  ready => \/ \A p \in Proc : state[p] # "SLEEPING"
           \/ ~DiskIdle

\* cpu->intena survives context switches: an interrupt handler keeps its
\* interrupts off to the end, and a process that holds no lock outside of a
\* handler has them on.
InterruptsRestored ==
  \A c \in Cpu :
    /\ Top(c).at \in Handler => ~ion[c]
    /\ Len(stk[cur[c]]) = 1 /\ cur[c] \in Proc /\ ncli[c] = 0 => ion[c]

\* All of this together.
SchedSound == TypeOK /\ NoPanic /\ OneCpuEach /\ NoLostWakeup

-----------------------------------------------------------------------------
(* Liveness.                                                                *)

\* mpinit() finds between one and NCPU processors: any but the first may never start.
Boot == -1
NotStarted(c) == c # Boot /\ cur[c] = c /\ At(c, "sti") /\ ~ion[c]

\* A CPU that has started runs, and one that spins for a lock gets it some time, since
\* nobody keeps one; the clock ticks and the disk completes requests, on some CPU.  A
\* pending interrupt is kept until a CPU next has interrupts on.
Fairness ==
  /\ \A c \in Cpu : SF_vars(Run(c)) \/ []NotStarted(c)
  /\ SF_vars(\E c \in Cpu : Timer(c))
  /\ SF_vars(\E c \in Cpu : Disk(c))

LiveSpec == Spec /\ Fairness

\* Whoever sleeps is woken by the disk, and then the scheduler's scan gets to it,
\* whatever the other processes do, on one CPU or with the help of another.
SleeperRuns == \A p \in Proc : state[p] = "SLEEPING" ~> state[p] = "RUNNING"
=============================================================================

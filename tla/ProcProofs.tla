------------------------------ MODULE ProcProofs ------------------------------
(***************************************************************************)
(* Proofs about ProcTable, for any number of slots and CPUs and whatever   *)
(* system calls the programs make, threads included.                       *)
(***************************************************************************)
EXTENDS ProcTable, TLAPS

\* The prover of the leaves that name none.
USE ZenonT(30)

Building == {"copy", "share", "walk", "push", "start"}

(* What makes the invariants inductive.                                     *)

\* init is always there, and nobody's child.
InitStays == Alive(initproc) /\ parent[initproc] = NoProc

\* A process holds a new slot exactly while it is building it.
Holds == \A p \in Slot : loc[p] \in Building <=> np[p] # NoProc

\* Slots that nobody runs in are at rest.
AtRest ==
  \A p \in Slot : /\ state[p] \in {"UNUSED", "EMBRYO"} => loc[p] = "user"
                  /\ state[p] = "ZOMBIE" => loc[p] \in {"exit", "texit"}

\* A thread under construction is marked as one, so that clone() cannot make
\* it its own parent.
Marked == \A p \in Slot : loc[p] \in {"walk", "push"} => isthread[np[p]]

NoSelf == \A p \in Slot : parent[p] # p

\* TypeOK, in two parts.
Flags ==
  /\ killed \in [Slot -> BOOLEAN]
  /\ isthread \in [Slot -> BOOLEAN]
  /\ panicked \in BOOLEAN

Fields ==
  /\ state \in [Slot -> {"UNUSED", "EMBRYO", "SLEEPING", "RUNNABLE", "RUNNING", "ZOMBIE"}]
  /\ pid \in [Slot -> Nat]
  /\ parent \in [Slot -> Slot \cup {NoProc}]
  /\ pgdir \in [Slot -> Nat]
  /\ loc \in [Slot -> {"user", "fork", "clone", "copy", "share", "walk", "push", "start",
                       "exit", "texit", "wait", "waiting", "tsleep", "asleep"}]
  /\ np \in [Slot -> Slot \cup {NoProc}]
  /\ pp \in [Slot -> Slot \cup {NoProc}]
  /\ nextpid \in Nat \ {0}
  /\ \A p \in Slot : pid[p] < nextpid
  /\ mapped \in SUBSET Nat

Inv ==
  /\ Fields /\ Flags
  /\ UniquePids
  /\ WaiterSeesZombie
  /\ KilledNotWaiting
  /\ InitStays /\ Holds /\ AtRest /\ Marked /\ NoSelf

\* The table has a first slot, and NoProc is none of them.
LEMMA SlotFacts == initproc \in Slot /\ NoProc \notin Slot
  BY ProcAssumption, SMTT(30) DEF initproc, NoProc, Slot

\* The parts of the invariant by name, so that a leaf expands what it needs.
LEMMA Parts ==
  ASSUME Inv
  PROVE  /\ Fields /\ Flags /\ UniquePids /\ WaiterSeesZombie /\ KilledNotWaiting
         /\ InitStays /\ Holds /\ AtRest /\ Marked /\ NoSelf
  BY DEF Inv

\* scheduler() gives a CPU to a RUNNABLE process.
LEMMA ScheduleInv ==
  ASSUME Inv, NEW p \in Slot, Schedule(p)
  PROVE  Inv'
<1>1. Fields'
  BY Parts, SlotFacts DEF Fields, Holds, Building, Schedule
<1>2. Flags'
  BY Parts DEF Flags, Schedule
<1>3. UniquePids'
  BY Parts, SMTT(30) DEF UniquePids, Schedule
<1>4. WaiterSeesZombie'
  BY Parts, SMTT(30) DEF WaiterSeesZombie, Waiting, Zombies, Children, Schedule
<1>5. KilledNotWaiting'
  <2>1. \A q \in Slot : Waiting(q)' => Waiting(q)
    BY Parts, SlotFacts DEF Fields, Waiting, Schedule
  <2> QED BY <2>1, Parts DEF KilledNotWaiting, Schedule
<1>6. InitStays' /\ NoSelf' /\ Holds' /\ AtRest' /\ Marked'
  BY Parts, SMTT(30) DEF Marked, AtRest, InitStays, Alive, NoSelf, Holds, Building,
     Schedule
<1> QED BY <1>1, <1>2, <1>3, <1>4, <1>5, <1>6 DEF Inv

\* A clock tick takes it back.
LEMMA YieldInv ==
  ASSUME Inv, NEW p \in Slot, Yield(p)
  PROVE  Inv'
<1>1. Fields'
  BY Parts, SlotFacts DEF Fields, Holds, Building, Yield
<1>2. Flags'
  BY Parts DEF Flags, Yield
<1>3. UniquePids'
  BY Parts, SlotFacts, SMTT(30) DEF Fields, Holds, Building, UniquePids, Yield
<1>4. WaiterSeesZombie'
  BY Parts, SMTT(30) DEF WaiterSeesZombie, Waiting, Zombies, Children, Yield
<1>5. KilledNotWaiting'
  <2>1. \A q \in Slot : Waiting(q)' => Waiting(q)
    BY Parts, SlotFacts DEF Fields, Waiting, Yield
  <2> QED BY <2>1, Parts DEF KilledNotWaiting, Yield
<1>6. InitStays' /\ NoSelf' /\ Holds' /\ AtRest' /\ Marked'
  BY Parts, SMTT(30) DEF Marked, AtRest, InitStays, Alive, NoSelf, Holds, Yield
<1> QED BY <1>1, <1>2, <1>3, <1>4, <1>5, <1>6 DEF Inv

\* trap() sends a killed process to exit().
LEMMA TrapExitInv ==
  ASSUME Inv, NEW p \in Slot, TrapExit(p)
  PROVE  Inv'
<1>1. Fields'
  BY Parts DEF Fields, TrapExit, Goto
<1>2. Flags'
  BY Parts DEF Flags, TrapExit, Runs, Goto
<1>3. UniquePids'
  BY Parts DEF UniquePids, TrapExit
<1>4. WaiterSeesZombie'
  BY Parts, SMTT(30) DEF WaiterSeesZombie, Waiting, Zombies, Children, TrapExit, Goto
<1>5. KilledNotWaiting'
  <2>1. \A q \in Slot : Waiting(q)' => Waiting(q)
    BY Parts, SlotFacts DEF Fields, Waiting, TrapExit, Runs, Goto
  <2> QED BY <2>1, Parts DEF KilledNotWaiting, TrapExit
<1>6. InitStays' /\ NoSelf' /\ Holds' /\ AtRest' /\ Marked'
  BY Parts, SMTT(30) DEF Marked, AtRest, InitStays, Alive, NoSelf, Holds, Building,
     TrapExit, Runs, Goto
<1> QED BY <1>1, <1>2, <1>3, <1>4, <1>5, <1>6 DEF Inv

\* allocproc() takes a slot that nobody holds and a pid nobody has had.
LEMMA AllocProcInv ==
  ASSUME Inv, NEW p \in Slot, AllocProc(p)
  PROVE  Inv'
<1>1. Fields'
  BY Parts, SMTT(30) DEF Fields, AllocProc, Goto, Free
<1>2. Flags'
  BY Parts DEF Flags, AllocProc, Runs, Goto, Free
<1>3. UniquePids'
  BY Parts, SMTT(30) DEF Fields, UniquePids, AllocProc, Free
<1>4. WaiterSeesZombie'
  BY Parts, SMTT(30) DEF WaiterSeesZombie, Waiting, Zombies, Children, AllocProc, Goto
<1>5. KilledNotWaiting'
  <2>1. \A q \in Slot : Waiting(q)' => Waiting(q)
    BY SMTT(30) DEF Waiting, AllocProc, Goto
  <2> QED BY <2>1, Parts DEF KilledNotWaiting, AllocProc
<1>6. InitStays' /\ NoSelf' /\ Holds' /\ AtRest' /\ Marked'
  BY Parts, SlotFacts, SMTT(30) DEF Marked, AtRest, Fields, InitStays, Alive, NoSelf,
     Holds, Building, AllocProc, Runs, Goto, Free
<1> QED BY <1>1, <1>2, <1>3, <1>4, <1>5, <1>6 DEF Inv

\* allocproc() finds no slot.
LEMMA AllocNoneInv ==
  ASSUME Inv, NEW p \in Slot, AllocNone(p)
  PROVE  Inv'
<1>1. Fields'
  BY Parts DEF Fields, AllocNone, Goto
<1>2. Flags'
  BY Parts DEF Flags, AllocNone, Runs, Goto
<1>3. UniquePids'
  BY Parts DEF UniquePids, AllocNone
<1>4. WaiterSeesZombie'
  BY Parts, SMTT(30) DEF WaiterSeesZombie, Waiting, Zombies, Children, AllocNone, Goto
<1>5. KilledNotWaiting'
  <2>1. \A q \in Slot : Waiting(q)' => Waiting(q)
    BY Parts, SlotFacts DEF Fields, Waiting, AllocNone, Runs, Goto
  <2> QED BY <2>1, Parts DEF KilledNotWaiting, AllocNone
<1>6. InitStays' /\ NoSelf' /\ Holds' /\ AtRest' /\ Marked'
  BY Parts, SMTT(30) DEF Marked, AtRest, InitStays, Alive, NoSelf, Holds, Building,
     AllocNone, Runs, Goto
<1> QED BY <1>1, <1>2, <1>3, <1>4, <1>5, <1>6 DEF Inv

\* The slot goes back when memory runs out.
LEMMA NoMemoryInv ==
  ASSUME Inv, NEW p \in Slot, NoMemory(p)
  PROVE  Inv'
<1>1. Fields'
  BY Parts DEF Fields, Holds, Building, NoMemory, Runs, Goto
<1>2. Flags'
  BY Parts DEF Flags, NoMemory, Runs, Goto
<1>3. UniquePids'
  BY Parts, SMTT(30) DEF Fields, UniquePids, NoMemory
<1>4. WaiterSeesZombie'
  BY Parts, SMTT(30) DEF WaiterSeesZombie, Waiting, Zombies, Children, NoMemory, Goto
<1>5. KilledNotWaiting'
  <2>1. \A q \in Slot : Waiting(q)' => Waiting(q)
    BY Parts, SlotFacts DEF Fields, Waiting, NoMemory, Runs, Goto
  <2> QED BY <2>1, Parts DEF KilledNotWaiting, NoMemory
<1>6. InitStays' /\ NoSelf' /\ Holds' /\ AtRest' /\ Marked'
  BY Parts, SMTT(30) DEF Marked, AtRest, Fields, InitStays, Alive, NoSelf, Holds,
     Building, UniquePids, NoMemory, Runs, Goto
<1> QED BY <1>1, <1>2, <1>3, <1>4, <1>5, <1>6 DEF Inv

\* fork() fills in the slot it holds.
LEMMA ForkCopyInv ==
  ASSUME Inv, NEW p \in Slot, ForkCopy(p)
  PROVE  Inv'
<1>1. Fields'
  BY Parts, SMTT(30) DEF Fields, Holds, Building, ForkCopy, Runs, Goto
<1>2. Flags'
  BY Parts DEF Flags, ForkCopy, Runs, Goto
<1>3. UniquePids'
  BY Parts DEF UniquePids, ForkCopy
<1>4. WaiterSeesZombie'
  BY Parts, SMTT(30) DEF WaiterSeesZombie, Waiting, Zombies, Children, ForkCopy, Runs,
     Goto
<1>5. KilledNotWaiting'
  <2>1. \A q \in Slot : Waiting(q)' => Waiting(q)
    BY Parts, SlotFacts DEF Fields, Waiting, ForkCopy, Runs, Goto
  <2> QED BY <2>1, Parts DEF KilledNotWaiting, ForkCopy
<1>6. InitStays' /\ NoSelf' /\ Holds' /\ AtRest' /\ Marked'
  BY Parts, SMTT(30) DEF Marked, AtRest, InitStays, Alive, NoSelf, Holds, Building,
     UniquePids, ForkCopy, Runs, Goto
<1> QED BY <1>1, <1>2, <1>3, <1>4, <1>5, <1>6 DEF Inv

\* fork() and clone() make the slot RUNNABLE and let go of it.
LEMMA StartInv ==
  ASSUME Inv, NEW p \in Slot, Start(p)
  PROVE  Inv'
<1>1. Fields'
  BY Parts, SlotFacts DEF Fields, Holds, Building, Start, Runs
<1>2. Flags'
  BY Parts DEF Flags, Start, Runs
<1>3. UniquePids'
  BY Parts, SlotFacts, SMTT(30) DEF Fields, UniquePids, Start
<1>4. WaiterSeesZombie'
  BY Parts DEF Fields, WaiterSeesZombie, Waiting, Zombies, Children, Start
<1>5. KilledNotWaiting'
  <2>1. \A q \in Slot : Waiting(q)' => Waiting(q)
    BY Parts, SlotFacts DEF Fields, Waiting, Start, Runs
  <2> QED BY <2>1, Parts DEF KilledNotWaiting, Start
<1>6. InitStays' /\ NoSelf' /\ Holds' /\ AtRest' /\ Marked'
  BY Parts, SMTT(30) DEF Marked, AtRest, Fields, InitStays, Alive, NoSelf, Holds,
     Building, UniquePids, Start, Runs
<1> QED BY <1>1, <1>2, <1>3, <1>4, <1>5, <1>6 DEF Inv

\* clone() refuses a bad stack and forgets the slot.
LEMMA CloneRejectInv ==
  ASSUME Inv, NEW p \in Slot, CloneReject(p)
  PROVE  Inv'
<1>1. Fields'
  BY Parts DEF Fields, CloneReject, Goto
<1>2. Flags'
  BY Parts DEF Flags, CloneReject, Runs, Goto
<1>3. UniquePids'
  BY Parts, SMTT(30) DEF UniquePids, CloneReject
<1>4. WaiterSeesZombie'
  BY Parts, SMTT(30) DEF WaiterSeesZombie, Waiting, Zombies, Children, CloneReject, Goto
<1>5. KilledNotWaiting'
  <2>1. \A q \in Slot : Waiting(q)' => Waiting(q)
    BY Parts, SlotFacts DEF Fields, Waiting, CloneReject, Runs, Goto
  <2> QED BY <2>1, Parts DEF KilledNotWaiting, CloneReject
<1>6. InitStays' /\ NoSelf' /\ Holds' /\ AtRest' /\ Marked'
  BY Parts, SMTT(30) DEF Marked, AtRest, Fields, InitStays, Alive, NoSelf, Holds,
     Building, CloneReject, Runs, Goto
<1> QED BY <1>1, <1>2, <1>3, <1>4, <1>5, <1>6 DEF Inv

\* clone() shares the address space and marks the slot as a thread.
LEMMA CloneShareInv ==
  ASSUME Inv, NEW p \in Slot, CloneShare(p)
  PROVE  Inv'
<1>1. Fields'
  BY Parts DEF Fields, Holds, Building, CloneShare, Runs, Goto
<1>2. Flags'
  BY Parts DEF Flags, CloneShare, Runs, Goto
<1>3. UniquePids'
  BY Parts DEF UniquePids, CloneShare
<1>4. WaiterSeesZombie'
  BY Parts, SMTT(30) DEF WaiterSeesZombie, Waiting, Zombies, Children, CloneShare, Runs,
     Goto
<1>5. KilledNotWaiting'
  <2>1. \A q \in Slot : Waiting(q)' => Waiting(q)
    BY Parts, SlotFacts DEF Fields, Waiting, CloneShare, Runs, Goto
  <2> QED BY <2>1, Parts DEF KilledNotWaiting, CloneShare
<1>6. InitStays' /\ NoSelf'
  BY Parts, SlotFacts, SMTT(30) DEF InitStays, Alive, NoSelf, UniquePids, CloneShare,
     Runs
<1>7. Holds' /\ AtRest'
  BY Parts, SMTT(30) DEF Holds, AtRest, Building, CloneShare, Runs, Goto
<1>8. Marked'
  <2>1. isthread'[np'[p]] /\ np' = np
    BY Parts DEF Fields, Flags, Holds, Building, CloneShare, Runs
  <2>2. \A q \in Slot \ {p} : loc'[q] = loc[q]
    BY Parts DEF Fields, CloneShare, Goto
  <2>3. \A q \in Slot \ {p} : loc[q] \in Building => np[q] \in Slot \ {np[p]}
    BY Parts, SMTT(30) DEF Fields, Holds, UniquePids
  <2>4. \A r \in Slot \ {np[p]} : isthread'[r] = isthread[r]
    BY Parts DEF Flags, CloneShare
  <2> QED BY <2>1, <2>2, <2>3, <2>4, Parts DEF Marked, Building
<1> QED BY <1>1, <1>2, <1>3, <1>4, <1>5, <1>6, <1>7, <1>8 DEF Inv

\* clone() looks for the process its thread belongs to.
LEMMA CloneWalkInv ==
  ASSUME Inv, NEW p \in Slot, CloneWalk(p)
  PROVE  Inv'
<1>1. Fields'
  BY Parts DEF Fields, CloneWalk, ThreadAt
<1>2. Flags'
  BY Parts DEF Flags, CloneWalk, Runs, ThreadAt
<1>3. UniquePids'
  BY Parts DEF UniquePids, CloneWalk
<1>4. WaiterSeesZombie'
  BY Parts DEF WaiterSeesZombie, Waiting, Zombies, Children, CloneWalk
<1>5. KilledNotWaiting'
  <2>1. \A q \in Slot : Waiting(q)' => Waiting(q)
    BY Parts, SlotFacts DEF Fields, Waiting, CloneWalk, Runs, ThreadAt
  <2> QED BY <2>1, Parts DEF KilledNotWaiting, CloneWalk
<1>6. InitStays' /\ NoSelf' /\ Holds' /\ AtRest' /\ Marked'
  BY Parts DEF Marked, AtRest, InitStays, Alive, NoSelf, Holds, CloneWalk
<1> QED BY <1>1, <1>2, <1>3, <1>4, <1>5, <1>6 DEF Inv

\* The process clone() settles on is no thread, hence not the new slot.
LEMMA CloneAdoptInv ==
  ASSUME Inv, NEW p \in Slot, CloneAdopt(p)
  PROVE  Inv'
<1>1. Fields'
  BY Parts DEF Fields, Holds, Building, CloneAdopt, Runs, Goto
<1>2. Flags'
  BY Parts DEF Flags, CloneAdopt, Runs, Goto, ThreadAt
<1>3. UniquePids'
  BY Parts DEF UniquePids, CloneAdopt
<1>4. WaiterSeesZombie'
  BY Parts, SlotFacts, SMTT(30) DEF UniquePids, WaiterSeesZombie, Waiting, Zombies,
     Children, CloneAdopt, Goto
<1>5. KilledNotWaiting'
  <2>1. \A q \in Slot : Waiting(q)' => Waiting(q)
    BY SMTT(30) DEF Waiting, CloneAdopt, Goto
  <2> QED BY <2>1, Parts DEF KilledNotWaiting, CloneAdopt
<1>6. InitStays' /\ NoSelf'
  <2>1. np[p] \in Slot /\ np[p] # initproc /\ isthread[np[p]]
    BY Parts, SMTT(30) DEF Fields, Holds, Building, Marked, UniquePids, InitStays,
       Alive, CloneAdopt, Runs
  <2>2. pp[p] # np[p]
    BY <2>1, SlotFacts DEF CloneAdopt, ThreadAt
  <2> QED BY <2>1, <2>2, Parts, SMTT(30) DEF InitStays, Alive, NoSelf, CloneAdopt
<1>7. Holds' /\ AtRest'
  BY Parts, SMTT(30) DEF Holds, AtRest, Building, CloneAdopt, Runs, Goto
<1>8. Marked'
  BY Parts, SMTT(30) DEF Marked, CloneAdopt, Runs, Goto
<1> QED BY <1>1, <1>2, <1>3, <1>4, <1>5, <1>6, <1>7, <1>8 DEF Inv

\* clone() puts the argument on the new stack.
LEMMA ClonePushInv ==
  ASSUME Inv, NEW p \in Slot, ClonePush(p)
  PROVE  Inv'
<1>1. Fields'
  BY Parts DEF Fields, ClonePush, Goto
<1>2. Flags'
  BY Parts DEF Flags, ClonePush, Runs, Goto
<1>3. UniquePids'
  BY Parts DEF UniquePids, ClonePush
<1>4. WaiterSeesZombie'
  BY Parts, SMTT(30) DEF WaiterSeesZombie, Waiting, Zombies, Children, ClonePush, Goto
<1>5. KilledNotWaiting'
  <2>1. \A q \in Slot : Waiting(q)' => Waiting(q)
    BY Parts, SlotFacts DEF Fields, Waiting, ClonePush, Runs, Goto
  <2> QED BY <2>1, Parts DEF KilledNotWaiting, ClonePush
<1>6. InitStays' /\ NoSelf' /\ Holds' /\ AtRest' /\ Marked'
  BY Parts, SMTT(30) DEF Marked, AtRest, InitStays, Alive, NoSelf, Holds, Building,
     ClonePush, Runs, Goto
<1> QED BY <1>1, <1>2, <1>3, <1>4, <1>5, <1>6 DEF Inv

\* clone() cannot write the stack and forgets the slot.
LEMMA ClonePushFailsInv ==
  ASSUME Inv, NEW p \in Slot, ClonePushFails(p)
  PROVE  Inv'
<1>1. Fields'
  BY Parts DEF Fields, ClonePushFails, Goto
<1>2. Flags'
  BY Parts DEF Flags, ClonePushFails, Runs, Goto
<1>3. UniquePids'
  BY Parts, SMTT(30) DEF UniquePids, ClonePushFails
<1>4. WaiterSeesZombie'
  BY Parts, SMTT(30) DEF WaiterSeesZombie, Waiting, Zombies, Children, ClonePushFails,
     Goto
<1>5. KilledNotWaiting'
  <2>1. \A q \in Slot : Waiting(q)' => Waiting(q)
    BY SMTT(30) DEF Waiting, ClonePushFails, Goto
  <2> QED BY <2>1, Parts DEF KilledNotWaiting, ClonePushFails
<1>6. InitStays' /\ NoSelf' /\ Holds' /\ AtRest' /\ Marked'
  BY Parts, SMTT(30) DEF Marked, AtRest, Fields, InitStays, Alive, NoSelf, Holds,
     Building, ClonePushFails, Runs, Goto
<1> QED BY <1>1, <1>2, <1>3, <1>4, <1>5, <1>6 DEF Inv

\* exit() wakes its parent, and init if init inherits a zombie, in the step
\* that makes the zombies theirs.
LEMMA ExitInv ==
  ASSUME Inv, NEW p \in Slot, Exit(p)
  PROVE  Inv'
<1>1. Fields'
  BY Parts, SlotFacts DEF Fields, Exit, Reparent, Woken
<1>2. Flags'
  BY Parts DEF Flags, Exit
<1>3. UniquePids'
  BY Parts, SMTT(30) DEF Fields, UniquePids, Exit, Runs, Woken
<1>4. WaiterSeesZombie'
  <2> SUFFICES ASSUME NEW q \in Slot, Waiting(q)', NEW c \in Slot,
                      parent'[c] = q, state'[c] = "ZOMBIE"
               PROVE  FALSE
    BY DEF WaiterSeesZombie, Zombies, Children
  <2>1. Waiting(q) /\ q \notin ExitWakes(p) /\ q # p
    BY Parts DEF Fields, Waiting, Exit, Woken
  <2>2. c # p
    BY <2>1, Parts DEF Exit, Reparent, ExitWakes, NoSelf
  <2>3. state[c] = "ZOMBIE"
    BY <2>2, Parts DEF Fields, Exit, Woken
  <2>4. parent[c] # q
    BY <2>1, <2>3, Parts DEF WaiterSeesZombie, Zombies, Children
  <2>5. parent[c] = p /\ q = initproc
    BY <2>4 DEF Exit, Reparent
  <2> QED BY <2>1, <2>3, <2>5 DEF ExitWakes, Children
<1>5. KilledNotWaiting'
  <2>1. \A q \in Slot : Waiting(q)' => Waiting(q)
    BY DEF Waiting, Exit, Woken
  <2> QED BY <2>1, Parts DEF KilledNotWaiting, Exit
<1>6. InitStays' /\ NoSelf' /\ Holds' /\ AtRest' /\ Marked'
  BY Parts, SlotFacts, SMTT(30) DEF Marked, AtRest, InitStays, Alive, NoSelf, Holds,
     Exit, Runs, Reparent, Woken
<1> QED BY <1>1, <1>2, <1>3, <1>4, <1>5, <1>6 DEF Inv

\* texit() wakes its parent.
LEMMA TExitInv ==
  ASSUME Inv, NEW p \in Slot, TExit(p)
  PROVE  Inv'
<1>1. Fields'
  BY Parts, SlotFacts DEF Fields, Holds, Building, TExit, Runs, Woken
<1>2. Flags'
  BY Parts DEF Flags, TExit, Runs, Woken
<1>3. UniquePids'
  BY Parts, SMTT(30) DEF Fields, UniquePids, TExit, Runs, Woken
<1>4. WaiterSeesZombie'
  BY Parts DEF WaiterSeesZombie, Waiting, Zombies, Children, TExit, Woken
<1>5. KilledNotWaiting'
  <2>1. \A q \in Slot : Waiting(q)' => Waiting(q)
    BY Parts, SlotFacts DEF Fields, Waiting, TExit, Runs, Woken
  <2> QED BY <2>1, Parts DEF KilledNotWaiting, TExit
<1>6. InitStays' /\ NoSelf' /\ Holds' /\ AtRest' /\ Marked'
  BY Parts, SlotFacts DEF Marked, AtRest, InitStays, Alive, NoSelf, Holds,
     TExit, Runs, Woken
<1> QED BY <1>1, <1>2, <1>3, <1>4, <1>5, <1>6 DEF Inv

\* init exits.
LEMMA ExitPanicInv ==
  ASSUME Inv, NEW p \in Slot, ExitPanic(p)
  PROVE  Inv'
<1>1. Fields'
  BY Parts, SlotFacts DEF Fields, Holds, Building, ExitPanic, Runs
<1>2. Flags'
  BY Parts DEF Flags, ExitPanic, Runs
<1>3. UniquePids'
  BY Parts DEF UniquePids, ExitPanic
<1>4. WaiterSeesZombie'
  BY Parts DEF WaiterSeesZombie, Waiting, Zombies, Children, ExitPanic
<1>5. KilledNotWaiting'
  <2>1. \A q \in Slot : Waiting(q)' => Waiting(q)
    BY Parts, SlotFacts DEF Fields, Waiting, ExitPanic, Runs
  <2> QED BY <2>1, Parts DEF KilledNotWaiting, ExitPanic
<1>6. InitStays' /\ NoSelf' /\ Holds' /\ AtRest' /\ Marked'
  BY Parts DEF Marked, AtRest, InitStays, Alive, NoSelf, Holds, ExitPanic
<1> QED BY <1>1, <1>2, <1>3, <1>4, <1>5, <1>6 DEF Inv

\* wait() frees the slot of a zombie.
LEMMA WaitReapInv ==
  ASSUME Inv, NEW p \in Slot, WaitReap(p)
  PROVE  Inv'
<1>1. Fields'
  BY Parts, SMTT(30) DEF Fields, WaitReap, Zombies, Children
<1>2. Flags'
  BY Parts DEF Flags, WaitReap, AtLoop, Runs, Zombies, Children
<1>3. UniquePids'
  BY Parts, SMTT(30) DEF Fields, UniquePids, WaitReap, AtLoop, Runs, Zombies
<1>4. WaiterSeesZombie'
  BY Parts, SMTT(30) DEF Fields, WaiterSeesZombie, Waiting, Zombies, Children, WaitReap,
     Zombies, Children
<1>5. KilledNotWaiting'
  <2>1. \A q \in Slot : Waiting(q)' => Waiting(q) /\ state'[q] # "UNUSED"
    BY Parts, SlotFacts, SMTT(30) DEF Fields, Waiting, WaitReap, AtLoop, Runs
  <2>2. \A q \in Slot : killed'[q] => killed[q]
    BY Parts DEF Flags, WaitReap
  <2> QED BY <2>1, <2>2, Parts DEF KilledNotWaiting
<1>6. InitStays' /\ NoSelf' /\ Holds' /\ AtRest' /\ Marked'
  BY Parts, SlotFacts, SMTT(30) DEF Marked, AtRest, Fields, InitStays, Alive, NoSelf,
     Holds, Building, WaitReap, AtLoop, Runs, Zombies
<1> QED BY <1>1, <1>2, <1>3, <1>4, <1>5, <1>6 DEF Inv

\* wait() returns -1.
LEMMA WaitFailsInv ==
  ASSUME Inv, NEW p \in Slot, WaitFails(p)
  PROVE  Inv'
<1>1. Fields'
  BY Parts DEF Fields, WaitFails, Goto
<1>2. Flags'
  BY Parts DEF Flags, WaitFails, AtLoop, Runs, Goto
<1>3. UniquePids'
  BY Parts, SMTT(30) DEF UniquePids, WaitFails, AtLoop, Runs
<1>4. WaiterSeesZombie'
  BY Parts, SMTT(30) DEF WaiterSeesZombie, Waiting, Zombies, Children, WaitFails, Goto
<1>5. KilledNotWaiting'
  <2>1. \A q \in Slot : Waiting(q)' => Waiting(q)
    BY SMTT(30) DEF Waiting, WaitFails, Goto
  <2> QED BY <2>1, Parts DEF KilledNotWaiting, WaitFails
<1>6. InitStays' /\ NoSelf' /\ Holds' /\ AtRest' /\ Marked'
  BY Parts, SMTT(30) DEF Marked, AtRest, InitStays, Alive, NoSelf, Holds, Building,
     WaitFails, AtLoop, Runs, Goto
<1> QED BY <1>1, <1>2, <1>3, <1>4, <1>5, <1>6 DEF Inv

\* wait() sleeps when no child is a zombie and it has not been killed.
LEMMA WaitSleepInv ==
  ASSUME Inv, NEW p \in Slot, WaitSleep(p)
  PROVE  Inv'
<1>1. Fields'
  BY Parts DEF Fields, WaitSleep, Goto
<1>2. Flags'
  BY Parts DEF Flags, WaitSleep, AtLoop, Runs, Goto
<1>3. UniquePids'
  BY Parts, SMTT(30) DEF UniquePids, WaitSleep, AtLoop, Runs
<1>4. WaiterSeesZombie'
  BY Parts, SMTT(30) DEF WaiterSeesZombie, Waiting, Zombies, Children, WaitSleep, Goto
<1>5. KilledNotWaiting'
  <2>1. \A q \in Slot : Waiting(q)' => Waiting(q) \/ q = p
    BY Parts, SlotFacts DEF Fields, Waiting, WaitSleep, Goto
  <2> QED BY <2>1, Parts DEF KilledNotWaiting, WaitSleep
<1>6. InitStays' /\ NoSelf' /\ Holds' /\ AtRest' /\ Marked'
  BY Parts, SMTT(30) DEF Marked, AtRest, InitStays, Alive, NoSelf, Holds, Building,
     WaitSleep, AtLoop, Runs, Goto
<1> QED BY <1>1, <1>2, <1>3, <1>4, <1>5, <1>6 DEF Inv

\* tsleep() puts the caller to sleep.
LEMMA TSleepInv ==
  ASSUME Inv, NEW p \in Slot, TSleep(p)
  PROVE  Inv'
<1>1. Fields'
  BY Parts, SlotFacts DEF Fields, Holds, Building, TSleep, Runs, Goto
<1>2. Flags'
  BY Parts DEF Flags, TSleep, Runs, Goto
<1>3. UniquePids'
  BY Parts, SMTT(30) DEF UniquePids, TSleep, Runs
<1>4. WaiterSeesZombie'
  BY Parts, SMTT(30) DEF WaiterSeesZombie, Waiting, Zombies, Children, TSleep, Runs, Goto
<1>5. KilledNotWaiting'
  <2>1. \A q \in Slot : Waiting(q)' => Waiting(q)
    BY Parts, SlotFacts DEF Fields, Waiting, TSleep, Runs, Goto
  <2> QED BY <2>1, Parts DEF KilledNotWaiting, TSleep
<1>6. InitStays' /\ NoSelf' /\ Holds' /\ AtRest' /\ Marked'
  BY Parts, SMTT(30) DEF Marked, AtRest, InitStays, Alive, NoSelf, Holds, Building,
     TSleep, Runs, Goto
<1> QED BY <1>1, <1>2, <1>3, <1>4, <1>5, <1>6 DEF Inv

\* A system call begins.
LEMMA SyscallInv ==
  ASSUME Inv, NEW p \in Slot, NEW c \in CallsOf(p), Syscall(p, c)
  PROVE  Inv'
<1>0. c \in {"fork", "clone", "exit", "texit", "wait", "tsleep"}
  BY ProcAssumption DEF CallsOf
<1>1. Fields'
  BY <1>0, Parts DEF Fields, Syscall, Goto
<1>2. Flags'
  BY Parts DEF Flags, Syscall, Runs, Goto
<1>3. UniquePids'
  BY Parts DEF UniquePids, Syscall
<1>4. WaiterSeesZombie'
  BY <1>0, Parts, SMTT(30) DEF WaiterSeesZombie, Waiting, Zombies, Children, Syscall,
     Goto
<1>5. KilledNotWaiting'
  <2>1. \A q \in Slot : Waiting(q)' => Waiting(q)
    BY <1>0, Parts, SlotFacts DEF Fields, Waiting, Syscall, Runs, Goto
  <2> QED BY <2>1, Parts DEF KilledNotWaiting, Syscall
<1>6. InitStays' /\ NoSelf' /\ Holds' /\ AtRest' /\ Marked'
  BY <1>0, Parts, SMTT(30) DEF Marked, AtRest, InitStays, Alive, NoSelf, Holds,
     Building, Syscall, Runs, Goto
<1> QED BY <1>1, <1>2, <1>3, <1>4, <1>5, <1>6 DEF Inv

\* kill() wakes the process it marks.
LEMMA KillInv ==
  ASSUME Inv, NEW x \in KillPids, Kill(x)
  PROVE  Inv'
<1>1. Fields'
  BY Parts, SMTT(30) DEF Fields, Kill, KillWakes, Woken
<1>2. Flags'
  BY Parts DEF Flags, Kill, KillWakes, Woken
<1>3. UniquePids'
  BY Parts, SMTT(30) DEF Fields, UniquePids, Kill, KillWakes, Woken
<1>4. WaiterSeesZombie'
  BY Parts, SMTT(30) DEF WaiterSeesZombie, Waiting, Zombies, Children, Kill, KillWakes,
     Woken
<1>5. KilledNotWaiting'
  <2>1. PICK s \in Slot : killed' = [killed EXCEPT ![s] = TRUE] /\ state' = KillWakes(s)
    BY DEF Kill
  <2>2. \A q \in Slot : Waiting(q)' => Waiting(q) /\ q # s
    BY <2>1, Parts DEF Fields, Waiting, Kill, KillWakes, Woken
  <2>3. \A q \in Slot \ {s} : killed'[q] = killed[q]
    BY <2>1, Parts DEF Flags
  <2> QED BY <2>2, <2>3, Parts DEF KilledNotWaiting
<1>6. InitStays' /\ NoSelf' /\ Holds' /\ AtRest' /\ Marked'
  BY Parts, SlotFacts, SMTT(30) DEF Marked, AtRest, InitStays, Alive, NoSelf, Holds,
     Kill, KillWakes, Woken
<1> QED BY <1>1, <1>2, <1>3, <1>4, <1>5, <1>6 DEF Inv

\* twakeup() wakes threads.
LEMMA TWakeupInv ==
  ASSUME Inv, NEW x \in 1 .. MaxPid, TWakeup(x)
  PROVE  Inv'
<1>1. Fields'
  BY Parts, SlotFacts DEF Fields, Holds, Building, TWakeup, Woken
<1>2. Flags'
  BY Parts DEF Flags, TWakeup, Woken
<1>3. UniquePids'
  BY Parts, SMTT(30) DEF Fields, UniquePids, TWakeup, Woken
<1>4. WaiterSeesZombie'
  BY Parts DEF WaiterSeesZombie, Waiting, Zombies, Children, TWakeup, Woken
<1>5. KilledNotWaiting'
  <2>1. \A q \in Slot : Waiting(q)' => Waiting(q)
    BY Parts, SlotFacts DEF Fields, Waiting, TWakeup, Woken
  <2> QED BY <2>1, Parts DEF KilledNotWaiting, TWakeup
<1>6. InitStays' /\ NoSelf' /\ Holds' /\ AtRest' /\ Marked'
  BY Parts, SlotFacts DEF Marked, AtRest, InitStays, Alive, NoSelf, Holds,
     TWakeup, Woken
<1> QED BY <1>1, <1>2, <1>3, <1>4, <1>5, <1>6 DEF Inv

\* userinit() leaves init RUNNABLE and every other slot free.
LEMMA InitInv == Init => Inv
<1> SUFFICES ASSUME Init PROVE Inv
  OBVIOUS
<1>1. Fields
  BY SlotFacts, SMTT(30) DEF Init, Fields, initproc
<1>2. Flags
  BY DEF Init, Flags
<1>3. UniquePids /\ WaiterSeesZombie /\ KilledNotWaiting
  BY DEF Init, UniquePids, WaiterSeesZombie, KilledNotWaiting, Waiting
<1>4. InitStays /\ Holds /\ AtRest /\ Marked /\ NoSelf
  BY SlotFacts DEF Init, InitStays, Alive, Holds, AtRest, Building, Marked,
     NoSelf
<1> QED BY <1>1, <1>2, <1>3, <1>4 DEF Inv

\* Every step of proc.c keeps the invariant.
LEMMA NextInv == Inv /\ [Next]_vars => Inv'
<1> SUFFICES ASSUME Inv, [Next]_vars PROVE Inv'
  OBVIOUS
<1>1. CASE UNCHANGED vars
  BY <1>1, SMTT(30) DEF vars, Inv, Fields, Flags, UniquePids, WaiterSeesZombie,
     KilledNotWaiting, Waiting, Zombies, Children, InitStays, Alive, Holds,
     AtRest, Marked, NoSelf
<1>2. ASSUME NEW p \in Slot, Schedule(p) \/ Yield(p) \/ TrapExit(p)
      PROVE  Inv'
  BY <1>2, ScheduleInv, YieldInv, TrapExitInv
<1>3. ASSUME NEW p \in Slot, Step(p)
      PROVE  Inv'
  <2>1. CASE AllocProc(p) \/ AllocNone(p) \/ NoMemory(p)
    BY <2>1, AllocProcInv, AllocNoneInv, NoMemoryInv
  <2>2. CASE ForkCopy(p) \/ Start(p)
    BY <2>2, ForkCopyInv, StartInv
  <2>3. CASE CloneReject(p) \/ CloneShare(p) \/ CloneWalk(p)
    BY <2>3, CloneRejectInv, CloneShareInv, CloneWalkInv
  <2>4. CASE CloneAdopt(p) \/ ClonePush(p) \/ ClonePushFails(p)
    BY <2>4, CloneAdoptInv, ClonePushInv, ClonePushFailsInv
  <2>5. CASE Exit(p) \/ TExit(p) \/ ExitPanic(p)
    BY <2>5, ExitInv, TExitInv, ExitPanicInv
  <2>6. CASE WaitReap(p) \/ WaitFails(p) \/ WaitSleep(p)
    BY <2>6, WaitReapInv, WaitFailsInv, WaitSleepInv
  <2>7. CASE TSleep(p)
    BY <2>7, TSleepInv
  <2> QED BY <1>3, <2>1, <2>2, <2>3, <2>4, <2>5, <2>6, <2>7 DEF Step
<1>4. ASSUME NEW p \in Slot, NEW c \in CallsOf(p), Syscall(p, c)
      PROVE  Inv'
  BY <1>4, SyscallInv
<1>5. ASSUME NEW x \in KillPids, Kill(x)
      PROVE  Inv'
  BY <1>5, KillInv
<1>6. ASSUME NEW x \in 1 .. MaxPid, TWakeup(x)
      PROVE  Inv'
  BY <1>6, TWakeupInv
<1> QED BY <1>1, <1>2, <1>3, <1>4, <1>5, <1>6 DEF Next, PanicSpin

\* The invariant holds of every behaviour, whatever the programs call and when.
THEOREM ProcInvariant == Spec => []Inv
<1> QED BY InitInv, NextInv, PTL DEF Spec

\* The types, for tables of any size.
THEOREM ProcTypeOK == Spec => []TypeOK
<1>1. Inv => TypeOK
  BY DEF Inv, Fields, Flags, TypeOK
<1> QED BY <1>1, ProcInvariant, PTL

\* No wakeup is lost between exit or texit and wait, however children are
\* handed on to init.
THEOREM ProcWaiterSeesZombie == Spec => []WaiterSeesZombie
<1>1. Inv => WaiterSeesZombie
  BY DEF Inv
<1> QED BY <1>1, ProcInvariant, PTL

\* allocproc never gives a pid, or a slot, to two owners.
THEOREM ProcUniquePids == Spec => []UniquePids
<1>1. Inv => UniquePids
  BY DEF Inv
<1> QED BY <1>1, ProcInvariant, PTL

\* kill() cannot miss a process that is going to sleep in wait().
THEOREM ProcKilledNotWaiting == Spec => []KilledNotWaiting
<1>1. Inv => KilledNotWaiting
  BY DEF Inv
<1> QED BY <1>1, ProcInvariant, PTL

-----------------------------------------------------------------------------
(* Address spaces.                                                           *)

\* A process that owns its address space is the one it was made for.
Spaces == SpacesOwned /\ \A p \in Slot : Owns(p) => pgdir[p] = pid[p]

\* A step that leaves owners, their spaces and mapped alone.
SameSpaces ==
  /\ mapped' = mapped
  /\ \A q \in Slot : Owns(q)' <=> Owns(q)
  /\ \A q \in Slot : Owns(q) => pgdir'[q] = pgdir[q] /\ pid'[q] = pid[q]

LEMMA SameSpacesKept ==
  ASSUME Inv, Spaces, SameSpaces
  PROVE  Spaces'
<1>1. mapped' = {pgdir'[p] : p \in {q \in Slot : Owns(q)'}}
  BY SMTT(30) DEF Spaces, SpacesOwned, SameSpaces
<1>2. \A p \in Slot : Owns(p)' => pgdir'[p] = pid'[p]
  BY DEF Spaces, SameSpaces
<1>3. \A p, q \in Slot : Owns(p)' /\ Owns(q)' /\ pgdir'[p] = pgdir'[q] => p = q
  BY DEF Spaces, SpacesOwned, SameSpaces
<1>. QED  BY <1>1, <1>2, <1>3 DEF Spaces, SpacesOwned

\* The slot that p builds has no other builder, and nobody runs in it.
LEMMA Builder ==
  ASSUME Inv, NEW p \in Slot, loc[p] \in Building
  PROVE  /\ np[p] \in Slot /\ state[np[p]] = "EMBRYO" /\ loc[np[p]] = "user" /\ np[p] # p
         /\ np[np[p]] = NoProc
         /\ \A q \in Slot : np[q] = np[p] => q = p
         /\ Owns(np[p]) <=> ~isthread[np[p]] /\ loc[p] = "start"
<1>1. np[p] # NoProc /\ np[p] \in Slot
  BY Parts DEF Holds, Fields
<1>2. state[np[p]] = "EMBRYO" /\ \A q \in Slot : np[q] = np[p] => q = p
  BY <1>1, Parts DEF UniquePids
<1>3. loc[np[p]] = "user"
  BY <1>1, <1>2, Parts DEF AtRest
<1>4. np[np[p]] = NoProc /\ np[p] # p
  BY <1>1, <1>3, Parts DEF Holds, Building
<1>5. Owns(np[p]) <=> ~isthread[np[p]] /\ loc[p] = "start"
  BY <1>1, <1>2 DEF Owns
<1>. QED  BY <1>1, <1>2, <1>3, <1>4, <1>5

\* Whoever builds nothing makes no one an owner.
LEMMA SameOwners ==
  ASSUME Inv, UNCHANGED <<isthread, pgdir, mapped>>,
         \A q \in Slot : Owns(q) => pid'[q] = pid[q],
         \A q \in Slot : state'[q] \in {"UNUSED", "EMBRYO"} <=> state[q] \in {"UNUSED", "EMBRYO"},
         \A q \in Slot : loc'[q] = "start" <=> loc[q] = "start",
         \A q \in Slot : loc[q] = "start" => np'[q] = np[q]
  PROVE  SameSpaces
<1>1. ASSUME NEW q \in Slot PROVE Owns(q)' <=> Owns(q)
  <2>1. (\E r \in Slot : loc'[r] = "start" /\ np'[r] = q) <=> (\E r \in Slot : loc[r] = "start" /\ np[r] = q)
    OBVIOUS
  <2>2. state'[q] \notin {"UNUSED", "EMBRYO"} <=> state[q] \notin {"UNUSED", "EMBRYO"}
    OBVIOUS
  <2>. QED  BY <2>1, <2>2 DEF Owns
<1>. QED  BY <1>1 DEF SameSpaces

LEMMA QuietSpaces ==
  ASSUME Inv, NEW p \in Slot,
         \/ Schedule(p) \/ Yield(p) \/ TrapExit(p) \/ AllocNone(p) \/ NoMemory(p)
         \/ CloneReject(p) \/ CloneWalk(p) \/ CloneAdopt(p) \/ ClonePushFails(p)
         \/ Exit(p) \/ TExit(p) \/ ExitPanic(p) \/ WaitFails(p) \/ WaitSleep(p) \/ TSleep(p)
  PROVE  SameSpaces
<1>1. CASE Schedule(p)
  BY <1>1, SameOwners, Parts DEF Schedule, Fields
<1>2. CASE Yield(p)
  BY <1>2, SameOwners, Parts DEF Yield, Fields
<1>3. CASE TrapExit(p) \/ ExitPanic(p)
  BY <1>3, SameOwners, Parts DEF TrapExit, ExitPanic, Goto, Runs, Fields
<1>4. CASE AllocNone(p)
  BY <1>4, SameOwners, Parts DEF AllocNone, Goto, Runs, Fields
<1>5. CASE NoMemory(p)
  <2>1. loc[p] \in {"copy", "share"} /\ np[p] \in Slot /\ state[np[p]] = "EMBRYO"
    BY <1>5, Builder DEF NoMemory, Runs, Building
  <2>. QED  BY <1>5, <2>1, SameOwners, Parts DEF NoMemory, Goto, Runs, Fields
<1>6. CASE CloneReject(p) \/ ClonePushFails(p)
  BY <1>6, SameOwners, Parts DEF CloneReject, ClonePushFails, Goto, Runs, Fields
<1>7. CASE CloneWalk(p) \/ CloneAdopt(p)
  BY <1>7, SameOwners, Parts DEF CloneWalk, CloneAdopt, Goto, Runs, Fields
<1>8. CASE Exit(p) \/ TExit(p)
  BY <1>8, SameOwners, Parts DEF Exit, TExit, Woken, Runs, Fields
<1>9. CASE WaitFails(p) \/ WaitSleep(p)
  BY <1>9, SameOwners, Parts DEF WaitFails, WaitSleep, AtLoop, Goto, Runs, Fields
<1>10. CASE TSleep(p)
  BY <1>10, SameOwners, Parts DEF TSleep, Goto, Runs, Fields
<1>. QED  BY <1>1, <1>2, <1>3, <1>4, <1>5, <1>6, <1>7, <1>8, <1>9, <1>10

LEMMA SyscallSpaces ==
  ASSUME Inv, NEW p \in Slot, NEW c \in CallsOf(p), Syscall(p, c)
  PROVE  SameSpaces
<1>1. c # "start"
  BY ProcAssumption DEF CallsOf
<1>. QED  BY <1>1, SameOwners, Parts DEF Syscall, Goto, Runs, Fields

LEMMA KillSpaces ==
  ASSUME Inv, NEW x, Kill(x)
  PROVE  SameSpaces
  BY SameOwners, Parts DEF Kill, KillWakes, Woken, Fields

LEMMA TWakeupSpaces ==
  ASSUME Inv, NEW x, TWakeup(x)
  PROVE  SameSpaces
  BY SameOwners, Parts DEF TWakeup, Woken, Fields

LEMMA AllocProcSpaces ==
  ASSUME Inv, NEW p \in Slot, AllocProc(p)
  PROVE  SameSpaces
<1>1. PICK s \in Free : /\ state' = [state EXCEPT ![s] = "EMBRYO"]
                        /\ pid' = [pid EXCEPT ![s] = nextpid]
                        /\ np' = [np EXCEPT ![p] = s]
  BY DEF AllocProc
<1>2. s \in Slot /\ state[s] = "UNUSED"
  BY DEF Free
<1>3. ~Owns(s)
  BY <1>2, Parts, SlotFacts DEF Owns, UniquePids
<1>. QED  BY <1>1, <1>2, <1>3, SameOwners, Parts, SMTT(30) DEF AllocProc, Goto, Runs, Fields

LEMMA StartSpaces ==
  ASSUME Inv, NEW p \in Slot, Start(p)
  PROVE  SameSpaces
<1>. PICK n \in Slot : n = np[p]
  BY Builder DEF Start, Runs, Building
<1>1. loc[p] = "start" /\ state[n] = "EMBRYO" /\ n # p /\ loc[n] = "user"
      /\ \A q \in Slot : np[q] = n => q = p
  BY Builder DEF Start, Runs, Building
<1>2. /\ \A q \in Slot \ {n} : state'[q] = state[q]
      /\ state'[n] = "RUNNABLE"
      /\ \A q \in Slot : loc'[q] = IF q \in {p, n} THEN "user" ELSE loc[q]
      /\ \A q \in Slot \ {p} : np'[q] = np[q]
      /\ UNCHANGED <<pid, isthread, pgdir, mapped>>
  BY <1>1, Parts DEF Start, Fields
<1>3. ASSUME NEW q \in Slot, q # n PROVE Owns(q)' <=> Owns(q)
  <2>1. (\E r \in Slot : loc'[r] = "start" /\ np'[r] = q) <=> (\E r \in Slot : loc[r] = "start" /\ np[r] = q)
    BY <1>1, <1>2, <1>3, SMTT(30)
  <2>. QED  BY <2>1, <1>2, <1>3 DEF Owns
<1>4. Owns(n)' <=> Owns(n)
  <2>1. \E r \in Slot : loc[r] = "start" /\ np[r] = n
    BY <1>1
  <2>2. state'[n] \notin {"UNUSED", "EMBRYO"}
    BY <1>2
  <2>3. Owns(n) <=> ~isthread[n]
    BY <2>1 DEF Owns
  <2>4. Owns(n)' <=> ~isthread[n]
    BY <2>2, <1>2 DEF Owns
  <2>. QED  BY <2>3, <2>4
<1>. QED  BY <1>2, <1>3, <1>4 DEF SameSpaces

LEMMA CloneShareSpaces ==
  ASSUME Inv, NEW p \in Slot, CloneShare(p)
  PROVE  SameSpaces
<1>. PICK n \in Slot : n = np[p]
  BY Builder DEF CloneShare, Runs, Building
<1>1. loc[p] = "share" /\ state[n] = "EMBRYO" /\ ~Owns(n)
  BY Builder DEF CloneShare, Runs, Building
<1>2. /\ \A q \in Slot \ {n} : isthread'[q] = isthread[q] /\ pgdir'[q] = pgdir[q]
      /\ isthread'[n] = TRUE
  BY Parts DEF CloneShare, Fields, Flags
<1>3. \A q \in Slot : loc'[q] = "start" <=> loc[q] = "start"
  BY <1>1, Parts DEF CloneShare, Goto, Fields
<1>4. UNCHANGED <<state, np, pid, mapped>>
  BY DEF CloneShare
<1>5. ASSUME NEW q \in Slot, q # n PROVE Owns(q)' <=> Owns(q)
  <2>1. isthread'[q] = isthread[q]
    BY <1>2, <1>5
  <2>. QED  BY <2>1, <1>3, <1>4 DEF Owns
<1>6. ~Owns(n)'
  BY <1>2 DEF Owns
<1>. QED  BY <1>1, <1>2, <1>4, <1>5, <1>6 DEF SameSpaces

LEMMA ClonePushSpaces ==
  ASSUME Inv, NEW p \in Slot, ClonePush(p)
  PROVE  SameSpaces
<1>. PICK n \in Slot : n = np[p]
  BY Builder DEF ClonePush, Runs, Building
<1>1. loc[p] = "push" /\ isthread[n]
  BY Parts DEF ClonePush, Runs, Marked
<1>2. UNCHANGED <<state, pid, isthread, pgdir, np, mapped>>
  BY DEF ClonePush
<1>3. \A q \in Slot : loc'[q] = IF q = p THEN "start" ELSE loc[q]
  BY Parts DEF ClonePush, Goto, Fields
<1>4. ASSUME NEW q \in Slot, q # n PROVE Owns(q)' <=> Owns(q)
  <2>1. (\E r \in Slot : loc'[r] = "start" /\ np[r] = q) <=> (\E r \in Slot : loc[r] = "start" /\ np[r] = q)
    BY <1>1, <1>3, <1>4
  <2>. QED  BY <2>1, <1>2 DEF Owns
<1>5. ~Owns(n) /\ ~Owns(n)'
  BY <1>1, <1>2 DEF Owns
<1>. QED  BY <1>2, <1>4, <1>5 DEF SameSpaces

\* fork() makes the child an owner, of a space that has the child's pid.
LEMMA ForkCopySpaces ==
  ASSUME Inv, Inv', Spaces, NEW p \in Slot, ForkCopy(p)
  PROVE  Spaces'
<1>. PICK n \in Slot : n = np[p]
  BY Builder DEF ForkCopy, Runs, Building
<1>1. loc[p] = "copy" /\ state[n] = "EMBRYO" /\ ~Owns(n)
  BY Builder DEF ForkCopy, Runs, Building
<1>2. /\ pgdir' = [pgdir EXCEPT ![n] = pid[n]]
      /\ mapped' = mapped \cup {pid[n]}
      /\ isthread' = [isthread EXCEPT ![n] = FALSE]
      /\ loc' = [loc EXCEPT ![p] = "start"]
      /\ UNCHANGED <<state, pid, np>>
  BY DEF ForkCopy, Goto
<1>3. /\ \A q \in Slot \ {n} : isthread'[q] = isthread[q] /\ pgdir'[q] = pgdir[q]
      /\ isthread'[n] = FALSE /\ pgdir'[n] = pid[n]
  BY <1>2, Parts DEF Fields, Flags
<1>4. \A q \in Slot : loc'[q] = IF q = p THEN "start" ELSE loc[q]
  BY <1>2, Parts DEF Fields
<1>5. Owns(n)'
  BY <1>2, <1>3, <1>4 DEF Owns
<1>6. ASSUME NEW q \in Slot, q # n PROVE Owns(q)' <=> Owns(q)
  <2>1. (\E r \in Slot : loc'[r] = "start" /\ np[r] = q) <=> (\E r \in Slot : loc[r] = "start" /\ np[r] = q)
    BY <1>1, <1>4, <1>6
  <2>2. isthread'[q] = isthread[q]
    BY <1>3, <1>6
  <2>. QED  BY <2>1, <2>2, <1>2 DEF Owns
<1>7. \A q \in Slot : Owns(q)' => pgdir'[q] = pid'[q]
  BY <1>2, <1>3, <1>6 DEF Spaces
<1>8. mapped' = {pgdir'[q] : q \in {r \in Slot : Owns(r)'}}
  <2>1. mapped = {pgdir[q] : q \in {r \in Slot : Owns(r)}}
    BY DEF Spaces, SpacesOwned
  <2>2. {r \in Slot : Owns(r)'} = {r \in Slot : Owns(r)} \cup {n}
    BY <1>5, <1>6
  <2>. QED  BY <2>1, <2>2, <1>1, <1>2, <1>3, SMTT(30)
<1>9. \A q, r \in Slot : Owns(q)' /\ Owns(r)' /\ pid'[q] = pid'[r] => q = r
  <2>1. \A q \in Slot : Owns(q)' => state'[q] # "UNUSED"
    BY <1>1, <1>2, <1>6, Parts, SlotFacts, SMTT(30) DEF Owns, UniquePids
  <2>2. \A q, r \in Slot : state'[q] # "UNUSED" /\ state'[r] # "UNUSED" /\ pid'[q] = pid'[r] => q = r
    BY DEF Inv, UniquePids
  <2>. QED  BY <2>1, <2>2
<1>. QED  BY <1>7, <1>8, <1>9 DEF Spaces, SpacesOwned

\* wait() frees the space of the owner it reaps, and no other.
LEMMA WaitReapSpaces ==
  ASSUME Inv, Spaces, NEW p \in Slot, WaitReap(p)
  PROVE  Spaces'
<1>. PICK c \in Zombies(p) :
       /\ state' = [state EXCEPT ![p] = "RUNNING", ![c] = "UNUSED"]
       /\ mapped' = mapped \ Freed(c)
       /\ pid' = [pid EXCEPT ![c] = 0]
       /\ loc' = [loc EXCEPT ![p] = "user", ![c] = "user"]
  BY DEF WaitReap
<1>1. c \in Slot /\ state[c] = "ZOMBIE" /\ p # c
  BY Parts DEF Zombies, Children, NoSelf
<1>2. UNCHANGED <<isthread, pgdir, np>>
  BY DEF WaitReap
<1>3. state[p] \in {"RUNNING", "RUNNABLE"} /\ loc[p] # "start" /\ loc[c] # "start"
  BY <1>1, Parts DEF WaitReap, AtLoop, Runs, AtRest
<1>4. /\ \A q \in Slot : state'[q] = IF q = c THEN "UNUSED" ELSE IF q = p THEN "RUNNING" ELSE state[q]
      /\ \A q \in Slot \ {c} : pid'[q] = pid[q]
      /\ \A q \in Slot : loc'[q] = "start" <=> loc[q] = "start"
  BY <1>1, <1>3, Parts DEF Fields
<1>5. \A r \in Slot : np[r] # c
  BY <1>1, Parts, SlotFacts DEF UniquePids
<1>6. ~Owns(c)'
  BY <1>1, <1>2, <1>4, <1>5 DEF Owns
<1>7. ASSUME NEW q \in Slot, q # c PROVE Owns(q)' <=> Owns(q)
  <2>1. state'[q] \notin {"UNUSED", "EMBRYO"} <=> state[q] \notin {"UNUSED", "EMBRYO"}
    <3>1. state'[q] = IF q = p THEN "RUNNING" ELSE state[q]
      BY <1>4, <1>7
    <3>. QED  BY <3>1, <1>3, SMTT(30)
  <2>. QED  BY <2>1, <1>2, <1>4 DEF Owns
<1>8. Owns(c) <=> ~isthread[c]
  BY <1>1 DEF Owns
<1>9. \A q \in Slot : Owns(q)' => pgdir'[q] = pid'[q]
  BY <1>2, <1>4, <1>6, <1>7 DEF Spaces
<1>10. \A q, r \in Slot : Owns(q)' /\ Owns(r)' /\ pgdir'[q] = pgdir'[r] => q = r
  BY <1>2, <1>6, <1>7 DEF Spaces, SpacesOwned
<1>11. mapped' = {pgdir'[q] : q \in {r \in Slot : Owns(r)'}}
  <2>1. mapped = {pgdir[q] : q \in {r \in Slot : Owns(r)}}
    BY DEF Spaces, SpacesOwned
  <2>2. {r \in Slot : Owns(r)'} = {r \in Slot : Owns(r)} \ {c}
    BY <1>1, <1>6, <1>7
  <2>3. CASE isthread[c]
    <3>1. mapped' = mapped /\ c \notin {r \in Slot : Owns(r)}
      BY <2>3, <1>8 DEF Freed
    <3>. QED  BY <3>1, <2>1, <2>2, <1>2
  <2>4. CASE ~isthread[c]
    <3>1. mapped' = mapped \ {pgdir[c]} /\ Owns(c)
      BY <2>4, <1>8 DEF Freed
    <3>2. \A q \in Slot : Owns(q) /\ q # c => pgdir[q] # pgdir[c]
      BY <3>1, <1>1 DEF Spaces, SpacesOwned
    <3>. QED  BY <3>1, <3>2, <2>1, <2>2, <1>2
  <2>. QED  BY <2>3, <2>4
<1>. QED  BY <1>9, <1>10, <1>11 DEF Spaces, SpacesOwned

LEMMA SpacesStep == Inv /\ Inv' /\ Spaces /\ [Next]_vars => Spaces'
<1>. SUFFICES ASSUME Inv, Inv', Spaces, [Next]_vars PROVE Spaces'
  OBVIOUS
<1>1. ASSUME NEW p \in Slot, Schedule(p) \/ Yield(p) \/ TrapExit(p) \/ Step(p) PROVE Spaces'
  <2>1. CASE ForkCopy(p) \/ WaitReap(p)
    BY <2>1, ForkCopySpaces, WaitReapSpaces
  <2>2. CASE AllocProc(p) \/ Start(p) \/ CloneShare(p) \/ ClonePush(p)
    BY <2>2, AllocProcSpaces, StartSpaces, CloneShareSpaces, ClonePushSpaces, SameSpacesKept
  <2>3. CASE \/ Schedule(p) \/ Yield(p) \/ TrapExit(p) \/ AllocNone(p) \/ NoMemory(p)
             \/ CloneReject(p) \/ CloneWalk(p) \/ CloneAdopt(p) \/ ClonePushFails(p)
             \/ Exit(p) \/ TExit(p) \/ ExitPanic(p) \/ WaitFails(p) \/ WaitSleep(p) \/ TSleep(p)
    BY <2>3, QuietSpaces, SameSpacesKept
  <2>. QED  BY <1>1, <2>1, <2>2, <2>3 DEF Step
<1>2. ASSUME NEW p \in Slot, NEW c \in CallsOf(p), Syscall(p, c) PROVE Spaces'
  BY <1>2, SyscallSpaces, SameSpacesKept
<1>3. ASSUME NEW x, Kill(x) \/ TWakeup(x) PROVE Spaces'
  BY <1>3, KillSpaces, TWakeupSpaces, SameSpacesKept
<1>4. CASE UNCHANGED vars
  <2>1. SameSpaces
    <3>1. /\ \A q \in Slot : Owns(q)' <=> Owns(q)
          /\ UNCHANGED <<mapped, pgdir, pid>>
      BY <1>4 DEF vars, Owns
    <3>. QED  BY <3>1 DEF SameSpaces
  <2>. QED  BY <2>1, SameSpacesKept
<1>. QED  BY <1>1, <1>2, <1>3, <1>4 DEF Next, PanicSpin

LEMMA SpacesInit == Init => Spaces
<1>. SUFFICES ASSUME Init PROVE Spaces
  OBVIOUS
<1>1. \A p \in Slot : Owns(p) <=> p = initproc
  BY SlotFacts DEF Init, Owns
<1>2. pgdir[initproc] = 1 /\ pid[initproc] = 1 /\ mapped = {1}
  BY SlotFacts DEF Init
<1>3. {q \in Slot : Owns(q)} = {initproc}
  BY <1>1, SlotFacts
<1>. QED  BY <1>1, <1>2, <1>3 DEF Spaces, SpacesOwned

\* For tables of any size and whatever the programs call: slots, pids and address
\* spaces keep their owners; wait() frees a page directory exactly when it reaps
\* the process it was made for, never with a thread, and none leak.
THEOREM ProcTableSound == Spec => []TableSound
<1>1. Spec => []Spaces
  BY SpacesInit, SpacesStep, ProcInvariant, PTL DEF Spec
<1>2. Inv /\ Spaces => TableSound
  BY DEF Inv, Fields, Flags, TypeOK, Spaces, TableSound
<1>. QED  BY <1>1, <1>2, ProcInvariant, PTL

-----------------------------------------------------------------------------
(* Families, of programs without threads.                                    *)

NoThreads == Calls \cap {"clone", "texit"} = {}

\* Nobody is in clone() or texit().
Plain == \A p \in Slot : loc[p] \notin {"clone", "share", "walk", "push", "texit"}

\* A slot gets its parent once fork() has copied the address space, from the
\* process that builds it; until then, and when it is free, it has none.
Cradle ==
  /\ \A c \in Slot : state[c] = "UNUSED" => parent[c] = NoProc
  /\ \A c \in Slot : state[c] = "EMBRYO" => \E q \in Slot : np[q] = c
  /\ \A q \in Slot : loc[q] = "copy" => parent[np[q]] = NoProc
  /\ \A q \in Slot : loc[q] = "start" => parent[np[q]] = q

Family == Plain /\ Cradle /\ NoOrphans /\ WaiterHasLiveChild

\* A step that only moves processes between sleep, the queue and a CPU.
LEMMA QuietFamily ==
  ASSUME Inv, Family, UNCHANGED <<parent, np>>, Plain',
         \A q \in Slot : state'[q] = state[q] \/ (Alive(q) /\ Alive(q)'),
         \A q \in Slot : loc'[q] \in {"copy", "start"} => loc'[q] = loc[q]
  PROVE  /\ Plain' /\ Cradle' /\ NoOrphans'
         /\ (\A q \in Slot : Waiting(q)' => Waiting(q)) => WaiterHasLiveChild'
<1>1. \A q \in Slot : /\ Alive(q)' <=> Alive(q)
                      /\ state'[q] = "UNUSED" => state[q] = "UNUSED"
                      /\ state'[q] = "EMBRYO" => state[q] = "EMBRYO"
                      /\ state'[q] = "ZOMBIE" => state[q] = "ZOMBIE"
  BY DEF Alive
<1>2. Cradle'
  BY <1>1 DEF Family, Cradle
<1>3. NoOrphans'
  <2>1. ASSUME NEW c \in Slot \ {initproc}, Alive(c)' \/ state'[c] = "ZOMBIE"
        PROVE  parent'[c] # NoProc /\ Alive(parent[c])' /\ parent' = parent
    <3>1. parent[c] # NoProc /\ Alive(parent[c])
      BY <1>1, <2>1 DEF Family, NoOrphans
    <3>2. parent[c] \in Slot
      BY <3>1, Parts DEF Fields
    <3>3. PICK d \in Slot : d = parent[c] /\ d = parent'[c]
      BY <3>2
    <3>4. Alive(d)'
      BY <1>1, <3>1, <3>3
    <3>5. Alive(parent[c])'
      BY <3>3, <3>4 DEF Alive
    <3>. QED  BY <3>1, <3>5
  <2>. QED  BY <2>1 DEF NoOrphans
<1>4. ASSUME \A q \in Slot : Waiting(q)' => Waiting(q) PROVE WaiterHasLiveChild'
  <2>1. \A q \in Slot : Children(q)' = Children(q)
    BY DEF Children
  <2>2. \A q \in Slot : Children(q) \subseteq Slot
    BY DEF Children
  <2>. QED  BY <1>1, <1>4, <2>1, <2>2 DEF Family, WaiterHasLiveChild
<1>. QED  BY <1>2, <1>3, <1>4

LEMMA QuietSteps ==
  ASSUME NoThreads, Inv, Family, NEW p \in Slot,
         \/ Schedule(p) \/ Yield(p) \/ TrapExit(p) \/ AllocNone(p)
         \/ ExitPanic(p) \/ WaitFails(p) \/ TSleep(p)
         \/ \E c \in CallsOf(p) : Syscall(p, c)
  PROVE  Family'
<1>. DEFINE Goal == /\ UNCHANGED <<parent, np>> /\ Plain'
                    /\ \A q \in Slot : state'[q] = state[q] \/ (Alive(q) /\ Alive(q)')
                    /\ \A q \in Slot : loc'[q] \in {"copy", "start"} => loc'[q] = loc[q]
                    /\ \A q \in Slot : Waiting(q)' => Waiting(q)
<1>. SUFFICES Goal
  BY QuietFamily DEF Family
<1>1. CASE Schedule(p) \/ Yield(p)
  BY <1>1, Parts, SMTT(30) DEF Schedule, Yield, Fields, Family, Plain, Alive, Waiting
<1>2. CASE TrapExit(p) \/ AllocNone(p) \/ ExitPanic(p)
  BY <1>2, Parts DEF TrapExit, AllocNone, ExitPanic, Goto, Runs, Fields, Family, Plain, Alive, Waiting
<1>3. CASE WaitFails(p) \/ TSleep(p)
  BY <1>3, Parts DEF WaitFails, TSleep, AtLoop, Goto, Runs, Fields, Family, Plain, Alive, Waiting
<1>4. ASSUME NEW c \in CallsOf(p), Syscall(p, c) PROVE Goal
  <2>1. c \in {"fork", "exit", "wait", "tsleep"}
    BY ProcAssumption DEF CallsOf, NoThreads
  <2>. QED  BY <1>4, <2>1, Parts DEF Syscall, Goto, Runs, Fields, Family, Plain, Alive, Waiting
<1>. QED  BY <1>1, <1>2, <1>3, <1>4

LEMMA WakeSteps ==
  ASSUME Inv, Family, NEW x, Kill(x) \/ TWakeup(x)
  PROVE  Family'
<1>1. PICK S : state' = Woken(state, S)
  BY DEF Kill, KillWakes, TWakeup
<1>2. UNCHANGED <<parent, np, loc>>
  BY DEF Kill, TWakeup
<1>3. /\ \A q \in Slot : state'[q] = state[q] \/ (Alive(q) /\ Alive(q)')
      /\ \A q \in Slot : state'[q] = "SLEEPING" => state[q] = "SLEEPING"
  BY <1>1, Parts DEF Woken, Alive, Fields
<1>4. Plain'
  BY <1>2 DEF Family, Plain
<1>5. \A q \in Slot : Waiting(q)' => Waiting(q)
  BY <1>2, <1>3 DEF Waiting
<1>. QED  BY <1>2, <1>3, <1>4, <1>5, QuietFamily DEF Family

\* wait() goes to sleep with a child, and that child is alive: it is no zombie, and
\* nobody is building it.
LEMMA WaitSleepFamily ==
  ASSUME Inv, Family, NEW p \in Slot, WaitSleep(p)
  PROVE  Family'
<1>1. /\ state' = [state EXCEPT ![p] = "SLEEPING"] /\ loc' = [loc EXCEPT ![p] = "waiting"]
      /\ UNCHANGED <<parent, np>> /\ Zombies(p) = {} /\ Children(p) # {}
      /\ state[p] \in {"RUNNING", "RUNNABLE"} /\ loc[p] \in {"wait", "waiting"}
  BY DEF WaitSleep, AtLoop, Runs, Goto
<1>2. /\ \A q \in Slot : state'[q] = IF q = p THEN "SLEEPING" ELSE state[q]
      /\ \A q \in Slot : loc'[q] = IF q = p THEN "waiting" ELSE loc[q]
  BY <1>1, Parts DEF Fields
<1>3. /\ Plain' /\ Cradle' /\ NoOrphans'
  <2>1. Plain'
    BY <1>2 DEF Family, Plain
  <2>2. \A q \in Slot : state'[q] = state[q] \/ (Alive(q) /\ Alive(q)')
    BY <1>1, <1>2 DEF Alive
  <2>3. \A q \in Slot : loc'[q] \in {"copy", "start"} => loc'[q] = loc[q]
    BY <1>2
  <2>. QED  BY <1>1, <2>1, <2>2, <2>3, QuietFamily
<1>4. PICK c \in Children(p) : TRUE
  BY <1>1
<1>5. c \in Slot /\ parent[c] = p /\ state[c] # "ZOMBIE"
  BY <1>1 DEF Zombies, Children
<1>6. state[c] # "UNUSED"
  BY <1>5, SlotFacts DEF Family, Cradle
<1>7. state[c] # "EMBRYO"
  <2>. SUFFICES ASSUME state[c] = "EMBRYO" PROVE FALSE
    OBVIOUS
  <2>1. PICK q \in Slot : np[q] = c
    BY <1>5 DEF Family, Cradle
  <2>2. loc[q] \in {"copy", "start"}
    BY <2>1, <1>5, Parts, SlotFacts DEF Holds, Building, Family, Plain
  <2>. QED  BY <2>1, <2>2, <1>1, <1>5, SlotFacts DEF Family, Cradle
<1>8. Alive(c)'
  <2>1. state[c] \in {"SLEEPING", "RUNNABLE", "RUNNING"}
    BY <1>5, <1>6, <1>7, Parts DEF Fields
  <2>. QED  BY <2>1, <1>2, <1>5 DEF Alive
<1>9. WaiterHasLiveChild'
  <2>1. ASSUME NEW q \in Slot, Waiting(q)' PROVE \E d \in Children(q)' : Alive(d)'
    <3>1. Children(q)' = Children(q) /\ Children(q) \subseteq Slot
      BY <1>1 DEF Children
    <3>2. CASE q = p
      BY <3>1, <3>2, <1>8
    <3>3. CASE q # p
      <4>1. Waiting(q)
        BY <2>1, <3>3, <1>2 DEF Waiting
      <4>2. PICK d \in Children(q) : Alive(d)
        BY <4>1 DEF Family, WaiterHasLiveChild
      <4>3. Alive(d)'
        BY <4>2, <3>1, <1>2 DEF Alive
      <4>. QED  BY <4>3, <3>1
    <3>. QED  BY <3>2, <3>3
  <2>. QED  BY <2>1 DEF WaiterHasLiveChild
<1>. QED  BY <1>3, <1>9 DEF Family

\* A step that starts or ends nobody, and takes no child away from anybody.
LEMMA FamilyKept ==
  ASSUME Inv, Family,
         \A q \in Slot : (Alive(q)' <=> Alive(q)) /\ (state'[q] = "ZOMBIE" <=> state[q] = "ZOMBIE"),
         \A q \in Slot : Waiting(q)' => Waiting(q),
         \A q \in Slot : parent'[q] = parent[q] \/ (parent[q] = NoProc /\ ~Alive(q) /\ state[q] # "ZOMBIE")
  PROVE  NoOrphans' /\ WaiterHasLiveChild'
<1>1. NoOrphans'
  <2>1. ASSUME NEW c \in Slot \ {initproc}, Alive(c)' \/ state'[c] = "ZOMBIE"
        PROVE  parent'[c] # NoProc /\ Alive(parent[c])' 
    <3>1. parent[c] # NoProc /\ Alive(parent[c]) /\ parent'[c] = parent[c]
      BY <2>1 DEF Family, NoOrphans
    <3>2. PICK d \in Slot : d = parent[c] /\ d = parent'[c]
      BY <3>1, Parts DEF Fields
    <3>3. Alive(d)'
      BY <3>1, <3>2
    <3>4. Alive(parent[c])'
      BY <3>2, <3>3 DEF Alive
    <3>. QED  BY <3>1, <3>4
  <2>. QED  BY <2>1 DEF NoOrphans
<1>2. ASSUME NEW q \in Slot, Waiting(q)' PROVE \E d \in Children(q)' : Alive(d)'
  <2>1. PICK d \in Children(q) : Alive(d)
    BY <1>2 DEF Family, WaiterHasLiveChild
  <2>2. d \in Slot /\ parent[d] = q
    BY DEF Children
  <2>3. Alive(d)' /\ parent'[d] = q
    BY <2>1, <2>2
  <2>4. d \in Children(q)'
    BY <2>2, <2>3 DEF Children
  <2>. QED  BY <2>3, <2>4
<1>. QED  BY <1>1, <1>2 DEF WaiterHasLiveChild

LEMMA AllocProcFamily ==
  ASSUME Inv, Family, NEW p \in Slot, AllocProc(p)
  PROVE  Family'
<1>0. PICK s \in Free : /\ state' = [state EXCEPT ![s] = "EMBRYO"]
                        /\ np' = [np EXCEPT ![p] = s]
  BY DEF AllocProc
<1>1. s \in Slot /\ state[s] = "UNUSED" /\ loc[p] = "fork" /\ parent[s] = NoProc
  BY DEF Free, AllocProc, Runs, Family, Plain, Cradle
<1>2. loc' = [loc EXCEPT ![p] = "copy"] /\ parent' = parent
  BY <1>1 DEF AllocProc, Goto
<1>3. np[p] = NoProc
  BY <1>1, Parts DEF Holds, Building
<1>4. /\ \A q \in Slot : state'[q] = IF q = s THEN "EMBRYO" ELSE state[q]
      /\ \A q \in Slot : loc'[q] = IF q = p THEN "copy" ELSE loc[q]
      /\ \A q \in Slot : np'[q] = IF q = p THEN s ELSE np[q]
  BY <1>0, <1>1, <1>2, Parts DEF Fields
<1>5. Plain'
  BY <1>4 DEF Family, Plain
<1>6. Cradle'
  <2>1. \A c \in Slot : state'[c] = "UNUSED" => parent[c] = NoProc
    BY <1>4 DEF Family, Cradle
  <2>2. ASSUME NEW c \in Slot, state'[c] = "EMBRYO" PROVE \E q \in Slot : np'[q] = c
    <3>1. CASE c = s
      BY <3>1, <1>4
    <3>2. CASE c # s
      <4>1. PICK q \in Slot : np[q] = c
        BY <2>2, <3>2, <1>4 DEF Family, Cradle
      <4>. QED  BY <4>1, <1>3, <1>4, SlotFacts
    <3>. QED  BY <3>1, <3>2
  <2>3. \A q \in Slot : loc'[q] = "copy" => parent[np'[q]] = NoProc
    BY <1>1, <1>4, SMTT(30) DEF Family, Cradle
  <2>4. \A q \in Slot : loc'[q] = "start" => parent[np'[q]] = q
    BY <1>4 DEF Family, Cradle
  <2>. QED  BY <2>1, <2>2, <2>3, <2>4, <1>2 DEF Cradle
<1>7. /\ \A q \in Slot : (Alive(q)' <=> Alive(q)) /\ (state'[q] = "ZOMBIE" <=> state[q] = "ZOMBIE")
      /\ \A q \in Slot : Waiting(q)' => Waiting(q)
  BY <1>1, <1>4 DEF Alive, Waiting
<1>. QED  BY <1>2, <1>5, <1>6, <1>7, FamilyKept DEF Family

LEMMA NoMemoryFamily ==
  ASSUME Inv, Family, NEW p \in Slot, NoMemory(p)
  PROVE  Family'
<1>0. loc[p] = "copy"
  BY DEF NoMemory, Runs, Family, Plain
<1>. PICK n \in Slot : n = np[p]
  BY <1>0, Builder DEF Building
<1>1. /\ state[n] = "EMBRYO" /\ parent[n] = NoProc
      /\ \A q \in Slot : np[q] = n => q = p
  BY <1>0, Builder, SMTT(30) DEF Building, Family, Cradle
<1>2. /\ \A q \in Slot : state'[q] = IF q = n THEN "UNUSED" ELSE state[q]
      /\ \A q \in Slot : loc'[q] = IF q = p THEN "user" ELSE loc[q]
      /\ \A q \in Slot : np'[q] = IF q = p THEN NoProc ELSE np[q]
      /\ parent' = parent
  BY Parts DEF NoMemory, Goto, Fields
<1>3. Plain'
  BY <1>2 DEF Family, Plain
<1>4. Cradle'
  <2>1. \A c \in Slot : state'[c] = "UNUSED" => parent[c] = NoProc
    BY <1>1, <1>2, SMTT(30) DEF Family, Cradle
  <2>2. ASSUME NEW c \in Slot, state'[c] = "EMBRYO" PROVE \E q \in Slot : np'[q] = c
    BY <2>2, <1>2 DEF Family, Cradle
  <2>3. \A q \in Slot : loc'[q] = "copy" => parent[np'[q]] = NoProc
    BY <1>2 DEF Family, Cradle
  <2>4. \A q \in Slot : loc'[q] = "start" => parent[np'[q]] = q
    BY <1>2 DEF Family, Cradle
  <2>. QED  BY <2>1, <2>2, <2>3, <2>4, <1>2 DEF Cradle
<1>5. /\ \A q \in Slot : (Alive(q)' <=> Alive(q)) /\ (state'[q] = "ZOMBIE" <=> state[q] = "ZOMBIE")
      /\ \A q \in Slot : Waiting(q)' => Waiting(q)
  BY <1>1, <1>2 DEF Alive, Waiting
<1>. QED  BY <1>2, <1>3, <1>4, <1>5, FamilyKept DEF Family

LEMMA ForkCopyFamily ==
  ASSUME Inv, Family, NEW p \in Slot, ForkCopy(p)
  PROVE  Family'
<1>0. loc[p] = "copy"
  BY DEF ForkCopy, Runs
<1>. PICK n \in Slot : n = np[p]
  BY <1>0, Builder DEF Building
<1>1. /\ state[n] = "EMBRYO" /\ parent[n] = NoProc
      /\ \A q \in Slot : np[q] = n => q = p
  BY <1>0, Builder, SMTT(30) DEF Building, Family, Cradle
<1>2. /\ \A q \in Slot : parent'[q] = IF q = n THEN p ELSE parent[q]
      /\ \A q \in Slot : loc'[q] = IF q = p THEN "start" ELSE loc[q]
      /\ UNCHANGED <<state, np>>
  BY Parts DEF ForkCopy, Goto, Fields
<1>3. Plain'
  BY <1>2 DEF Family, Plain
<1>4. Cradle'
  <2>1. \A c \in Slot : state[c] = "UNUSED" => parent'[c] = NoProc
    BY <1>1, <1>2 DEF Family, Cradle
  <2>2. \A q \in Slot : loc'[q] = "copy" => parent'[np[q]] = NoProc
    <3>1. ASSUME NEW q \in Slot, loc'[q] = "copy" PROVE parent'[np[q]] = NoProc
      <4>1. loc[q] = "copy" /\ q # p
        BY <3>1, <1>2
      <4>2. np[q] \in Slot /\ np[q] # n
        BY <4>1, <1>1, Builder DEF Building
      <4>. QED  BY <4>1, <4>2, <1>2 DEF Family, Cradle
    <3>. QED  BY <3>1
  <2>3. \A q \in Slot : loc'[q] = "start" => parent'[np[q]] = q
    <3>1. ASSUME NEW q \in Slot, loc'[q] = "start", q # p PROVE parent'[np[q]] = q
      <4>1. loc[q] = "start"
        BY <3>1, <1>2
      <4>2. np[q] \in Slot /\ np[q] # n
        BY <3>1, <4>1, <1>1, Builder DEF Building
      <4>. QED  BY <4>1, <4>2, <1>2 DEF Family, Cradle
    <3>. QED  BY <3>1, <1>2
  <2>. QED  BY <2>1, <2>2, <2>3, <1>2 DEF Family, Cradle
<1>5. /\ \A q \in Slot : (Alive(q)' <=> Alive(q)) /\ (state'[q] = "ZOMBIE" <=> state[q] = "ZOMBIE")
      /\ \A q \in Slot : Waiting(q)' => Waiting(q)
  BY <1>2 DEF Alive, Waiting
<1>6. \A q \in Slot : parent'[q] = parent[q] \/ (parent[q] = NoProc /\ ~Alive(q) /\ state[q] # "ZOMBIE")
  BY <1>1, <1>2 DEF Alive
<1>. QED  BY <1>3, <1>4, <1>5, <1>6, FamilyKept DEF Family

\* A new process starts with the parent that forked it.
LEMMA StartFamily ==
  ASSUME Inv, Family, NEW p \in Slot, Start(p)
  PROVE  Family'
<1>0. loc[p] = "start" /\ state[p] = "RUNNING"
  BY DEF Start, Runs
<1>. PICK n \in Slot : n = np[p]
  BY <1>0, Builder DEF Building
<1>1. /\ state[n] = "EMBRYO" /\ parent[n] = p /\ loc[n] = "user" /\ n # p /\ np[n] = NoProc
      /\ \A q \in Slot : np[q] = n => q = p
  BY <1>0, Builder DEF Building, Family, Cradle
<1>2. /\ \A q \in Slot : state'[q] = IF q = n THEN "RUNNABLE" ELSE state[q]
      /\ \A q \in Slot : loc'[q] = IF q \in {p, n} THEN "user" ELSE loc[q]
      /\ \A q \in Slot : np'[q] = IF q = p THEN NoProc ELSE np[q]
      /\ parent' = parent
  BY <1>1, Parts DEF Start, Fields
<1>3. Plain'
  BY <1>2 DEF Family, Plain
<1>4. Cradle'
  <2>1. \A c \in Slot : state'[c] = "UNUSED" => parent[c] = NoProc
    BY <1>2 DEF Family, Cradle
  <2>2. ASSUME NEW c \in Slot, state'[c] = "EMBRYO" PROVE \E q \in Slot : np'[q] = c
    BY <2>2, <1>2 DEF Family, Cradle
  <2>3. \A q \in Slot : loc'[q] = "copy" => parent[np'[q]] = NoProc
    BY <1>2 DEF Family, Cradle
  <2>4. \A q \in Slot : loc'[q] = "start" => parent[np'[q]] = q
    BY <1>2 DEF Family, Cradle
  <2>. QED  BY <2>1, <2>2, <2>3, <2>4, <1>2 DEF Cradle
<1>5. \A q \in Slot : Alive(q) => Alive(q)'
  BY <1>2 DEF Alive
<1>6. NoOrphans'
  <2>1. ASSUME NEW c \in Slot \ {initproc}, Alive(c)' \/ state'[c] = "ZOMBIE"
        PROVE  parent'[c] # NoProc /\ Alive(parent[c])'
    <3>1. parent[c] # NoProc /\ Alive(parent[c])
      <4>1. CASE c = n
        BY <4>1, <1>0, <1>1, SlotFacts DEF Alive
      <4>2. CASE c # n
        BY <4>2, <2>1, <1>2 DEF Alive, Family, NoOrphans
      <4>. QED  BY <4>1, <4>2
    <3>2. PICK d \in Slot : d = parent[c] /\ d = parent'[c]
      BY <3>1, <1>2, Parts, SMTT(30) DEF Fields
    <3>3. Alive(d)'
      BY <3>1, <3>2, <1>5
    <3>4. Alive(parent[c])'
      BY <3>2, <3>3 DEF Alive
    <3>. QED  BY <3>1, <3>4, <1>2
  <2>. QED  BY <2>1 DEF NoOrphans
<1>7. WaiterHasLiveChild'
  <2>1. ASSUME NEW q \in Slot, Waiting(q)' PROVE \E d \in Children(q)' : Alive(d)'
    <3>1. Waiting(q)
      BY <2>1, <1>2 DEF Waiting
    <3>2. PICK d \in Children(q) : Alive(d)
      BY <3>1 DEF Family, WaiterHasLiveChild
    <3>3. d \in Slot /\ d \in Children(q)'
      BY <1>2 DEF Children
    <3>. QED  BY <3>2, <3>3, <1>5
  <2>. QED  BY <2>1 DEF WaiterHasLiveChild
<1>. QED  BY <1>3, <1>4, <1>6, <1>7 DEF Family

\* exit() hands its children to init and wakes its own parent.
LEMMA ExitFamily ==
  ASSUME Inv, Family, NEW p \in Slot, Exit(p)
  PROVE  Family'
<1>1. loc[p] = "exit" /\ state[p] = "RUNNING" /\ p # initproc /\ UNCHANGED <<loc, np>>
  BY DEF Exit, Runs
<1>2. \A q \in Slot : parent'[q] = IF parent[q] = p THEN initproc ELSE parent[q]
  BY DEF Exit, Reparent
<1>3. /\ \A q \in Slot : q # p => state'[q] = IF q \in ExitWakes(p) /\ state[q] = "SLEEPING"
                                              THEN "RUNNABLE" ELSE state[q]
      /\ state'[p] = "ZOMBIE"
  BY Parts DEF Exit, Woken, Fields
<1>4. parent[p] # NoProc /\ Alive(parent[p]) /\ parent[p] # p /\ parent[p] \in Slot
  BY <1>1, Parts DEF Family, NoOrphans, Alive, NoSelf, Fields
<1>5. Alive(initproc) /\ initproc \in Slot
  BY Parts, SlotFacts DEF InitStays
<1>6. \A q \in Slot : q # p /\ Alive(q) => Alive(q)'
  BY <1>3 DEF Alive
<1>7. Plain'
  BY <1>1 DEF Family, Plain
<1>8. Cradle'
  <2>1. \A c \in Slot : state'[c] = "UNUSED" => parent'[c] = NoProc
    BY <1>2, <1>3, SlotFacts, SMTT(30) DEF Family, Cradle
  <2>2. \A c \in Slot : state'[c] = "EMBRYO" => \E q \in Slot : np[q] = c
    BY <1>3 DEF Family, Cradle
  <2>3. \A q \in Slot : loc[q] \in {"copy", "start"} => np[q] \in Slot
    BY Builder DEF Building
  <2>4. \A q \in Slot : loc[q] = "copy" => parent'[np[q]] = NoProc
    BY <2>3, <1>2, SlotFacts, SMTT(30) DEF Family, Cradle
  <2>5. \A q \in Slot : loc[q] = "start" => parent'[np[q]] = q
    BY <2>3, <1>1, <1>2 DEF Family, Cradle
  <2>. QED  BY <2>1, <2>2, <2>4, <2>5, <1>1 DEF Cradle
<1>9. NoOrphans'
  <2>1. ASSUME NEW c \in Slot \ {initproc}, Alive(c)' \/ state'[c] = "ZOMBIE"
        PROVE  parent'[c] # NoProc /\ Alive(parent[c])'
    <3>1. Alive(c) \/ state[c] = "ZOMBIE"
      BY <2>1, <1>1, <1>3 DEF Alive
    <3>2. parent[c] # NoProc /\ Alive(parent[c]) /\ parent[c] \in Slot
      BY <3>1, Parts DEF Family, NoOrphans, Fields
    <3>3. PICK d \in Slot : d = parent'[c] /\ d # p /\ Alive(d)
      BY <3>2, <1>1, <1>2, <1>5
    <3>4. Alive(d)'
      BY <3>3, <1>6
    <3>5. Alive(parent[c])'
      BY <3>3, <3>4 DEF Alive
    <3>. QED  BY <3>3, <3>5, SlotFacts
  <2>. QED  BY <2>1 DEF NoOrphans
<1>10. WaiterHasLiveChild'
  <2>1. ASSUME NEW q \in Slot, Waiting(q)' PROVE \E d \in Children(q)' : Alive(d)'
    <3>1. q # p /\ Waiting(q) /\ q # parent[p]
      BY <2>1, <1>1, <1>3 DEF Waiting, ExitWakes
    <3>2. PICK d \in Children(q) : Alive(d)
      BY <3>1 DEF Family, WaiterHasLiveChild
    <3>3. d \in Slot /\ parent[d] = q /\ d # p
      BY <3>1 DEF Children
    <3>4. d \in Children(q)'
      BY <3>1, <3>3, <1>2 DEF Children
    <3>. QED  BY <3>2, <3>3, <3>4, <1>6
  <2>. QED  BY <2>1 DEF WaiterHasLiveChild
<1>. QED  BY <1>7, <1>8, <1>9, <1>10 DEF Family

\* wait() reaps a zombie, and a zombie has no children left.
LEMMA WaitReapFamily ==
  ASSUME Inv, Family, NEW p \in Slot, WaitReap(p)
  PROVE  Family'
<1>0. PICK c \in Zombies(p) :
       /\ state' = [state EXCEPT ![p] = "RUNNING", ![c] = "UNUSED"]
       /\ parent' = [parent EXCEPT ![c] = NoProc]
       /\ loc' = [loc EXCEPT ![p] = "user", ![c] = "user"]
  BY DEF WaitReap
<1>1. c \in Slot /\ state[c] = "ZOMBIE" /\ p # c /\ np' = np
  BY Parts DEF Zombies, Children, NoSelf, WaitReap
<1>2. state[p] \in {"RUNNING", "RUNNABLE"}
  BY DEF WaitReap, AtLoop, Runs
<1>3. /\ \A q \in Slot : state'[q] = IF q = c THEN "UNUSED" ELSE IF q = p THEN "RUNNING" ELSE state[q]
      /\ \A q \in Slot : parent'[q] = IF q = c THEN NoProc ELSE parent[q]
      /\ \A q \in Slot : loc'[q] = IF q \in {p, c} THEN "user" ELSE loc[q]
  BY <1>0, <1>1, Parts DEF Fields
<1>4. \A q \in Slot : np[q] # c
  BY <1>1, Parts, SlotFacts DEF UniquePids
<1>5. \A q \in Slot : q # c => (Alive(q)' <=> Alive(q))
  BY <1>2, <1>3 DEF Alive
<1>6. Plain'
  BY <1>3 DEF Family, Plain
<1>7. Cradle'
  <2>1. \A q \in Slot : state'[q] = "UNUSED" => parent'[q] = NoProc
    BY <1>3 DEF Family, Cradle
  <2>2. \A d \in Slot : state'[d] = "EMBRYO" => \E q \in Slot : np[q] = d
    BY <1>3 DEF Family, Cradle
  <2>3. \A q \in Slot : loc[q] \in {"copy", "start"} => np[q] \in Slot
    BY Builder DEF Building
  <2>4. \A q \in Slot : loc'[q] = "copy" => parent'[np[q]] = NoProc
    BY <2>3, <1>3 DEF Family, Cradle
  <2>5. \A q \in Slot : loc'[q] = "start" => parent'[np[q]] = q
    BY <2>3, <1>3, <1>4 DEF Family, Cradle
  <2>. QED  BY <2>1, <2>2, <2>4, <2>5, <1>1 DEF Cradle
<1>8. NoOrphans'
  <2>1. ASSUME NEW d \in Slot \ {initproc}, Alive(d)' \/ state'[d] = "ZOMBIE"
        PROVE  parent'[d] # NoProc /\ Alive(parent[d])'
    <3>1. d # c /\ (Alive(d) \/ state[d] = "ZOMBIE")
      BY <2>1, <1>3, <1>5 DEF Alive
    <3>2. parent[d] # NoProc /\ Alive(parent[d]) /\ parent[d] \in Slot /\ parent[d] # c
      BY <3>1, <1>1, Parts DEF Family, NoOrphans, Fields, Alive
    <3>3. PICK e \in Slot : e = parent'[d] /\ e = parent[d]
      BY <3>1, <3>2, <1>3
    <3>4. Alive(e)'
      BY <3>2, <3>3, <1>5
    <3>5. Alive(parent[d])'
      BY <3>3, <3>4 DEF Alive
    <3>. QED  BY <3>3, <3>5, SlotFacts
  <2>. QED  BY <2>1 DEF NoOrphans
<1>9. WaiterHasLiveChild'
  <2>1. ASSUME NEW q \in Slot, Waiting(q)' PROVE \E d \in Children(q)' : Alive(d)'
    <3>1. Waiting(q)
      BY <2>1, <1>3 DEF Waiting
    <3>2. PICK d \in Children(q) : Alive(d)
      BY <3>1 DEF Family, WaiterHasLiveChild
    <3>3. d \in Slot /\ parent[d] = q /\ d # c
      BY <3>2, <1>1 DEF Children, Alive
    <3>4. d \in Children(q)'
      BY <3>3, <1>3 DEF Children
    <3>. QED  BY <3>2, <3>3, <3>4, <1>5
  <2>. QED  BY <2>1 DEF WaiterHasLiveChild
<1>. QED  BY <1>6, <1>7, <1>8, <1>9 DEF Family

LEMMA FamilyStep ==
  ASSUME NoThreads, Inv, Family, [Next]_vars
  PROVE  Family'
<1>1. ASSUME NEW p \in Slot, Schedule(p) \/ Yield(p) \/ TrapExit(p) \/ Step(p) PROVE Family'
  <2>1. CASE \/ Schedule(p) \/ Yield(p) \/ TrapExit(p) \/ AllocNone(p)
             \/ ExitPanic(p) \/ WaitFails(p) \/ TSleep(p)
    BY <2>1, QuietSteps
  <2>2. CASE AllocProc(p) \/ NoMemory(p) \/ ForkCopy(p) \/ Start(p)
    BY <2>2, AllocProcFamily, NoMemoryFamily, ForkCopyFamily, StartFamily
  <2>3. CASE Exit(p) \/ WaitReap(p) \/ WaitSleep(p)
    BY <2>3, ExitFamily, WaitReapFamily, WaitSleepFamily
  <2>4. ~(CloneReject(p) \/ CloneShare(p) \/ CloneWalk(p) \/ CloneAdopt(p)
          \/ ClonePush(p) \/ ClonePushFails(p) \/ TExit(p))
    BY DEF CloneReject, CloneShare, CloneWalk, CloneAdopt, ClonePush, ClonePushFails, TExit,
           Runs, Family, Plain
  <2>. QED  BY <1>1, <2>1, <2>2, <2>3, <2>4 DEF Step
<1>2. ASSUME NEW p \in Slot, NEW c \in CallsOf(p), Syscall(p, c) PROVE Family'
  BY <1>2, QuietSteps
<1>3. ASSUME NEW x, Kill(x) \/ TWakeup(x) PROVE Family'
  BY <1>3, WakeSteps
<1>4. CASE UNCHANGED vars
  BY <1>4, SMTT(30) DEF vars, Family, Plain, Cradle, NoOrphans, WaiterHasLiveChild, Waiting, Alive, Children
<1>. QED  BY <1>1, <1>2, <1>3, <1>4 DEF Next, PanicSpin

LEMMA FamilyInit == Init => Family
  BY SlotFacts DEF Init, Family, Plain, Cradle, NoOrphans, WaiterHasLiveChild, Waiting, Alive

\* For tables of any size, when no program makes threads: whoever runs or is a zombie
\* has a parent that can still wait for it, and whoever sleeps in wait() has a child
\* that can still exit.
THEOREM ProcFamilySound ==
  ASSUME Calls \cap {"clone", "texit"} = {}
  PROVE  Spec => []FamilySound
<1>1. Inv /\ Family /\ [Next]_vars => Family'
  BY FamilyStep DEF NoThreads
<1>2. Spec => []Family
  BY <1>1, FamilyInit, ProcInvariant, PTL DEF Spec
<1>3. Family => FamilySound
  BY DEF Family, FamilySound
<1>. QED  BY <1>2, <1>3, PTL
=============================================================================

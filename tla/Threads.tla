------------------------------ MODULE Threads -------------------------------
(***************************************************************************)
(* Programs that use the thread library (thread.c) on top of clone, wait,  *)
(* tsleep and twakeup: frisbee.c, test_sleep.c and test_yield.c, each with *)
(* a main thread and the threads it creates, sharing memory.               *)
(*                                                                         *)
(* What one thread does to shared memory between two points where another  *)
(* can interfere is one step; a section under a lock is several, since     *)
(* these programs may release a lock somebody else holds.  The allocator   *)
(* and the queue have no lock: a call of them takes two steps, and when    *)
(* another thread begins a call in between the program's memory is no      *)
(* longer predictable and the behaviour ends ("race"), as it does when     *)
(* free is given what malloc did not give or already has back ("wild").    *)
(* The programs are built without optimisation, so a loop that spins reads *)
(* memory again.                                                           *)
(*                                                                         *)
(* frisbee clears 64 entries of slist, which has numthreads, and overruns  *)
(* main's frame.  Its effect is the compiler's choice: see ClearSlist.     *)
(***************************************************************************)
EXTENDS Heap, Bags

CONSTANTS
    Programs,    \* programs to consider: "frisbee", "sleep", "yield"
    Overruns,    \* what the overrun of slist may meet first: "slist", "i", "end"
    numthreads,  \* threads of frisbee and of test_sleep; test_yield has two
    numpass,     \* frisbee: passes
    Rounds       \* test_yield: calls of thread_yield2 by each thread

ASSUME ThreadsAssumption ==
    /\ {numthreads, numpass, Rounds} \subseteq Nat \ {0} /\ numthreads \in 2..50
    /\ Overruns \subseteq {"slist", "i", "end"}
    /\ Programs \subseteq {"frisbee", "sleep", "yield"}

VARIABLES
    prog,    \* the program
    main,    \* the main thread: pc, loop variable
    th,      \* the other threads
    heap,    \* the allocator
    q,       \* thQ2
    popp,    \* thread_yield2's static variable
    lib,     \* who is in a call of the allocator or the queue
    lock,    \* the program's locks, "table" and "frisbee"
    mem,     \* the program's other variables
    used,    \* bag of blocks malloc gave and free did not take: <<address, units>> (ghost)
    log,     \* values in thQ2, oldest first (ghost)
    broke    \* what went wrong: "race", "wild", "overrun", failures of "malloc" or
             \* "clone", "wakeup" (a lost one) (ghost)
vars == <<prog, main, th, heap, q, popp, lib, lock, mem, used, log, broke>>
libvars == <<heap, q, lib, used, log>>

N == IF prog = "yield" THEN 2 ELSE numthreads
Tid == 1..numthreads
Main == 0
Nowhere == -2
Unpredictable == {"race", "wild"} \cap broke # {}
At(t, pc) == t \in Tid /\ th[t].pc = pc /\ th[t].state = "run" /\ ~Unpredictable
Go(t, pc) == th' = [th EXCEPT ![t].pc = pc]
MainAt(pc) == main.pc = pc /\ ~Unpredictable
MainGo(pc) == main' = [main EXCEPT !.pc = pc]

(***************************************************************************)
(* Library calls: begin, then end with its effect.                         *)
(***************************************************************************)
Begin(t) ==
    /\ t \notin lib
    /\ lib' = lib \cup {t} /\ broke' = IF lib = {} THEN broke ELSE broke \cup {"race"}
    /\ UNCHANGED <<heap, q, used, log>>
Ending(t) == t \in lib /\ lib' = lib \ {t}

\* malloc: what it may return, and what that does; whether sbrk fails depends on the
\* other processes.
Mallocs(n) == {Malloc(heap, n, ok) : ok \in BOOLEAN}
Allocated(r, n) ==
    /\ heap' = r.heap
    /\ used' = IF r.at = NULL THEN used ELSE used (+) SetToBag({<<r.at, n>>})
    /\ broke' = IF r.at = NULL THEN broke \cup {"malloc"} ELSE broke
\* free of the block at bp.
InUse(bp) == {b \in BagToSet(used) : b[1] = bp}
Freed(bp) ==
    IF InUse(bp) # {}
    THEN heap' = Free(heap, bp) /\ used' = used (-) SetToBag(InUse(bp)) /\ UNCHANGED broke
    ELSE broke' = broke \cup {"wild"} /\ UNCHANGED <<heap, used>>

\* add_q of thQ2, ending, but for the queue.
AddEnd(t, r, v) == Ending(t) /\ Allocated(r, NODE) /\ log' = Append(log, v)
\* pop_q, ending: the value, or -1.
Popped == IF empty_q(q) THEN -1 ELSE IF q.head = NULL THEN q.size ELSE q.val[q.head]
PopEnd(t) ==
    /\ Ending(t)
    /\ IF empty_q(q) THEN UNCHANGED <<heap, q, used, log, broke>>
       ELSE /\ Freed(q.head)
            /\ IF q.head = NULL THEN UNCHANGED <<q, log>> ELSE q' = pop_q(q) /\ log' = Tail(log)

(***************************************************************************)
(* System calls                                                            *)
(***************************************************************************)
\* twakeup(tid) of somebody who is not asleep is lost.
Woken(tid) == IF tid \in Tid /\ th[tid].state = "asleep" THEN [th EXCEPT ![tid].state = "run"] ELSE th
Missed(S) == IF \E t \in S \cap Tid : th[t].state = "run" THEN {"wakeup"} ELSE {}
Texit(t) == th' = [th EXCEPT ![t].state = "zombie", ![t].pc = "gone"]
Zombies == {t \in Tid : th[t].state = "zombie"}
Children == {t \in Tid : th[t].state # "none"}

\* wait in the main thread: -1 without children, else a zombie is reaped.
WaitThen(pc, none) ==
    \/ Children = {} /\ main' = [main EXCEPT !.pc = none] /\ UNCHANGED th
    \/ \E t \in Zombies : /\ \A u \in Zombies : t <= u
                          /\ th' = [th EXCEPT ![t].state = "none"]
                          /\ main' = [main EXCEPT !.pc = pc, !.i = @ + 1]

(***************************************************************************)
(* thread_create, by the main thread for thread main.i                     *)
(***************************************************************************)
CreateBegin ==
    /\ MainAt("create") /\ Begin(Main)
    /\ MainGo("malloc") /\ UNCHANGED <<prog, th, popp, lock, mem>>
\* Where the program goes on after the last thread; a program whose thread_create
\* returns 0 goes on too, but for test_yield.
Created == IF main.i < N THEN [main EXCEPT !.pc = "create", !.i = @ + 1]
           ELSE [main EXCEPT !.i = 1, !.pc = CASE prog = "frisbee" -> "wait"
                                               [] prog = "sleep" -> "scan"
                                               [] OTHER -> "wait1"]
NotCreated == IF prog = "yield" THEN [main EXCEPT !.pc = "exit"] ELSE Created
CreateMalloc ==
    /\ MainAt("malloc") /\ Ending(Main)
    /\ \E r \in Mallocs(STACK) :
         /\ Allocated(r, STACK)
         /\ th' = [th EXCEPT ![main.i].stack = r.at]
         /\ main' = IF r.at = NULL THEN NotCreated ELSE [main EXCEPT !.pc = "clone"]
    /\ UNCHANGED <<prog, popp, q, lock, mem, log>>
\* clone may fail.
Clone ==
    /\ MainAt("clone")
    /\ \/ /\ th' = [th EXCEPT ![main.i].state = "run", ![main.i].pc = "start"]
          /\ MainGo("add") /\ UNCHANGED broke
       \/ /\ broke' = broke \cup {"clone"} /\ main' = NotCreated
          /\ th' = [th EXCEPT ![main.i].stack = NULL]
    /\ UNCHANGED <<prog, libvars, popp, lock, mem>>
CreateAdd ==
    /\ MainAt("add") /\ Begin(Main)
    /\ MainGo("added") /\ UNCHANGED <<prog, th, popp, lock, mem>>
\* main's slist is at address 0 (see ClearSlist), and so is thQ2: the first three
\* entries of the one are size, head and tail of the other.  Bytes is the number that
\* the block at a has in size, larger than any count.
Bytes(a) == 8 * (numthreads + a)
SetSlot(x, k, a) == CASE k = 1 -> [x EXCEPT !.size = Bytes(a)] [] k = 2 -> [x EXCEPT !.head = a]
                      [] k = 3 -> [x EXCEPT !.tail = a] [] OTHER -> x
CreateEnd ==
    /\ MainAt("added")
    /\ \E r \in Mallocs(NODE) :
         LET x == add_q(q, r.at, main.i)
         IN  /\ AddEnd(Main, r, main.i)
             /\ q' = IF prog = "frisbee" THEN SetSlot(x, main.i, th[main.i].stack) ELSE x
    /\ main' = Created /\ UNCHANGED <<prog, th, popp, lock, mem>>

(***************************************************************************)
(* lock_acquire, lock_release                                              *)
(***************************************************************************)
lock_acquire(l) == ~lock[l] /\ lock' = [lock EXCEPT ![l] = TRUE]
lock_release(l) == lock' = [lock EXCEPT ![l] = FALSE]

(***************************************************************************)
(* test_sleep.c: every thread registers and sleeps; main wakes the ones    *)
(* that are registered, waits for all and frees one stack.                 *)
(***************************************************************************)
Keep == UNCHANGED <<prog, main, libvars, popp, broke>>
Acquire(t, pc, l, then) == At(t, pc) /\ lock_acquire(l) /\ Go(t, then) /\ Keep /\ UNCHANGED mem
Release(t, pc, l, then) == At(t, pc) /\ lock_release(l) /\ Go(t, then) /\ Keep /\ UNCHANGED mem

FuncRegister(t) ==
    /\ prog = "sleep" /\ At(t, "table") /\ Go(t, "registered")
    /\ mem' = [mem EXCEPT !.reg = Append(@, t), !.total = @ + 1]
    /\ Keep /\ UNCHANGED lock
Tsleep(t, then) ==
    /\ th' = [th EXCEPT ![t].state = "asleep", ![t].pc = then]
    /\ Keep /\ UNCHANGED <<lock, mem>>
FuncSleep(t) == prog = "sleep" /\ At(t, "go") /\ Tsleep(t, "leave")
Leave(t) == At(t, "leave") /\ Texit(t) /\ Keep /\ UNCHANGED <<lock, mem>>

ScanBegin ==
    /\ MainAt("scan") /\ lock_acquire("table") /\ MainGo("wake")
    /\ UNCHANGED <<prog, th, libvars, popp, mem, broke>>
ScanWake ==
    /\ MainAt("wake") /\ main.i <= Len(mem.reg)
    /\ th' = Woken(mem.reg[main.i]) /\ broke' = broke \cup Missed({mem.reg[main.i]})
    /\ main' = [main EXCEPT !.i = @ + 1]
    /\ UNCHANGED <<prog, libvars, popp, lock, mem>>
ScanEnd ==
    /\ MainAt("wake") /\ main.i > Len(mem.reg)
    /\ lock_release("table") /\ main' = [main EXCEPT !.pc = "wait", !.i = 1]
    /\ broke' = broke \cup Missed({t \in Tid : \A k \in 1..Len(mem.reg) : mem.reg[k] # t})
    /\ UNCHANGED <<prog, th, libvars, popp, mem>>

\* frisbee waits numthreads times unless there are no children left, test_sleep three
\* times; then the stacks are freed, all of them or the first.
Freeing == [main EXCEPT !.pc = "free", !.i = 1]
\* Mutant: the loop ends one child too early.
Wait_Short ==
    /\ MainAt("wait")
    /\ IF main.i < numthreads /\ Children # {} THEN WaitThen("wait", "wait")
       ELSE main' = Freeing /\ UNCHANGED th
    /\ UNCHANGED <<prog, libvars, popp, lock, mem, broke>>
Wait ==
    /\ MainAt("wait")
    /\ IF main.i <= numthreads /\ Children # {} THEN WaitThen("wait", "wait")
       ELSE main' = Freeing /\ UNCHANGED th
    /\ UNCHANGED <<prog, libvars, popp, lock, mem, broke>>
\* frisbee: free(slist[i]) if that is not 0.  What is left in the entry of a thread
\* that could not be created is thQ2's, and thQ2 has counted on in the first one.
Slot(k) == CASE k = 1 -> (IF q.size = 0 THEN NULL
                          ELSE IF q.size % 8 = 0 THEN q.size \div 8 - numthreads ELSE Nowhere)
             [] k = 2 -> q.head [] k = 3 -> q.tail [] OTHER -> th[k].stack
FreeSlot ==
    /\ MainAt("free") /\ prog = "frisbee" /\ main.i <= numthreads
    /\ IF Slot(main.i) = NULL THEN UNCHANGED <<heap, used, broke>> ELSE Freed(Slot(main.i))
    /\ main' = [main EXCEPT !.i = @ + 1]
    /\ UNCHANGED <<prog, th, q, popp, lib, lock, mem, log>>
\* test_sleep: free(stack), which ends the program when there is none, by the access
\* to the header below address 0.
FreeStack ==
    /\ MainAt("free") /\ prog = "sleep" /\ Freed(th[1].stack) /\ MainGo("exit")
    /\ UNCHANGED <<prog, th, q, popp, lib, lock, mem, log>>
MainExit ==
    /\ MainAt("free") /\ prog = "frisbee" /\ main.i > numthreads /\ MainGo("exit")
    /\ UNCHANGED <<prog, th, libvars, popp, lock, mem, broke>>

(***************************************************************************)
(* frisbee.c pass_next                                                     *)
(***************************************************************************)
Count(t) ==
    /\ prog = "frisbee" /\ At(t, "table") /\ Go(t, "registered")
    /\ mem' = [mem EXCEPT !.total = @ + 1]
    /\ Keep /\ UNCHANGED lock
\* The barrier: all have counted themselves, then all have seen that.
Ready(t) ==
    /\ At(t, "ready?")
    /\ IF mem.total = numthreads
       THEN Go(t, "ready") /\ mem' = [mem EXCEPT !.barrier = @ + 1]
       ELSE Go(t, "unready") /\ UNCHANGED mem
    /\ Keep /\ UNCHANGED lock
Spin(t) ==
    /\ At(t, "spin") /\ mem.barrier = numthreads /\ Go(t, "throw")
    /\ Keep /\ UNCHANGED <<lock, mem>>
\* With the frisbee's lock: leave, sleep, or catch.
Look(t) ==
    /\ At(t, "look")
    /\ Go(t, IF mem.pass > numpass THEN "over" ELSE IF mem.holder = t THEN "mine" ELSE "catch")
    /\ Keep /\ UNCHANGED <<lock, mem>>
\* pass is read (and printed), then written with the holder.
Catch(t) ==
    /\ At(t, "catch") /\ th' = [th EXCEPT ![t].pc = "caught", ![t].i = mem.pass]
    /\ Keep /\ UNCHANGED <<lock, mem>>
Caught(t) ==
    /\ At(t, "caught") /\ Go(t, "thrown")
    /\ mem' = [mem EXCEPT !.pass = th[t].i + 1, !.holder = t]
    /\ Keep /\ UNCHANGED lock
\* The holder's release, then sleep(5).
\* Mutant: it goes on to the release at `leaving' and tries again.
Mine_Twice(t) == At(t, "mine") /\ lock_release("frisbee") /\ Keep /\ UNCHANGED mem
                   /\ (Go(t, "mine") \/ Go(t, "doze"))
Mine(t) == Release(t, "mine", "frisbee", "doze")
Doze(t) == At(t, "doze") /\ Go(t, "throw") /\ Keep /\ UNCHANGED <<lock, mem>>
\* The lock is released before the jump to `leaving', and there again.
Over(t) == Release(t, "over", "frisbee", "leaving")
Leaving(t) == Release(t, "leaving", "frisbee", "leave")
\* Mutant: a thread that finds the others missing keeps the lock.
Unready_Keeps(t) == At(t, "unready") /\ Go(t, "again") /\ Keep /\ UNCHANGED <<lock, mem>>
Unready(t) == Release(t, "unready", "table", "again")

\* What both programs do with the table's lock.
Table(t) ==
    \/ prog # "yield" /\ Acquire(t, "start", "table", "table")
    \/ Release(t, "registered", "table", IF prog = "sleep" THEN "go" ELSE "again")
    \/ Acquire(t, "again", "table", "ready?")
    \/ Release(t, "ready", "table", "spin")
Throw(t) == Acquire(t, "throw", "frisbee", "look") \/ Release(t, "thrown", "frisbee", "throw")

(***************************************************************************)
(* test_yield.c: ping and pong hand over to each other with thread_yield2. *)
(***************************************************************************)
YieldLoop(t) ==
    /\ prog = "yield" /\ At(t, "start")
    /\ IF th[t].i = Rounds THEN Go(t, "leave") /\ Keep
       ELSE Go(t, "adding") /\ Begin(t) /\ UNCHANGED <<prog, main, popp>>
    /\ UNCHANGED <<lock, mem>>
YieldAdd(t) ==
    /\ At(t, "adding") /\ Go(t, "pop")
    /\ \E r \in Mallocs(NODE) : AddEnd(t, r, t) /\ q' = add_q(q, r.at, t)
    /\ UNCHANGED <<prog, main, popp, lock, mem>>
PopBegin(t) ==
    /\ \E pc \in {"pop", "pop2", "pop3"} : At(t, pc) /\ Go(t, pc \o "end")
    /\ Begin(t) /\ UNCHANGED <<prog, main, popp, lock, mem>>
\* The first call of all pops twice; everybody pops on while they find themselves.
YieldPop(t) ==
    /\ \E pc \in {"popend", "pop2end", "pop3end"} :
         /\ At(t, pc) /\ PopEnd(t)
         /\ th' = [th EXCEPT ![t].next = Popped,
                             ![t].pc = IF pc = "popend" /\ popp = 0 THEN "pop2"
                                       ELSE IF Popped \in {t, 0} THEN "pop3" ELSE "twakeup"]
         /\ popp' = IF pc = "pop2end" THEN popp + 1 ELSE popp
    /\ UNCHANGED <<prog, main, lock, mem>>
YieldWake(t) ==
    /\ At(t, "twakeup")
    /\ th' = [Woken(th[t].next) EXCEPT ![t].pc = "tsleep", ![t].i = @ + 1]
    /\ broke' = broke \cup Missed({th[t].next})
    /\ UNCHANGED <<prog, main, libvars, popp, lock, mem>>
YieldSleep(t) == At(t, "tsleep") /\ Tsleep(t, "start")

\* main: wait, thread_yield_last, wait.
Wait1 ==
    /\ MainAt("wait1") /\ WaitThen("last", "last")
    /\ UNCHANGED <<prog, libvars, popp, lock, mem, broke>>
LastBegin ==
    /\ MainAt("last") /\ Begin(Main) /\ MainGo("lastpop")
    /\ UNCHANGED <<prog, th, popp, lock, mem>>
LastPop ==
    /\ MainAt("lastpop") /\ PopEnd(Main) /\ main' = [main EXCEPT !.pc = "lastwake", !.i = Popped]
    /\ UNCHANGED <<prog, th, popp, lock, mem>>
LastWake ==
    /\ MainAt("lastwake") /\ MainGo("wait2")
    /\ th' = Woken(main.i) /\ broke' = broke \cup Missed({main.i})
    /\ UNCHANGED <<prog, libvars, popp, lock, mem>>
Wait2 ==
    /\ MainAt("wait2") /\ WaitThen("exit", "exit")
    /\ UNCHANGED <<prog, libvars, popp, lock, mem, broke>>

(***************************************************************************)
(* frisbee.c: what main does before it creates threads.                    *)
(***************************************************************************)
\* The stores above slist run up main's frame towards the end of the stack's page.
\* They meet the pointer to slist, and clear it: then slist is at address 0, and the
\* other stores are harmless (so in the program of fs.img); or they meet i, and the
\* loop begins again for ever; or they leave the page, and trap() kills the program.
ClearSlist ==
    /\ MainAt("clear")
    /\ \E word \in Overruns :
         /\ MainGo(CASE word = "slist" -> "create" [] word = "i" -> "clearing" [] OTHER -> "exit")
         /\ broke' = IF word = "slist" THEN broke ELSE broke \cup {"overrun"}
    /\ UNCHANGED <<prog, th, libvars, popp, lock, mem>>

Init ==
    /\ prog \in Programs
    /\ main = [pc |-> IF prog = "frisbee" THEN "clear" ELSE "create", i |-> 1]
    /\ th = [t \in Tid |-> [state |-> "none", pc |-> "", i |-> 0, next |-> 0, stack |-> NULL]]
    /\ heap = Fresh /\ q = init_q /\ popp = 0 /\ lib = {}
    /\ lock = [l \in {"table", "frisbee"} |-> FALSE]
    /\ mem = [total |-> 0, barrier |-> 0, pass |-> 0, holder |-> 0, reg |-> <<>>]
    /\ used = EmptyBag /\ log = <<>> /\ broke = {}

MainStep ==
    \/ ClearSlist \/ CreateBegin \/ CreateMalloc \/ Clone \/ CreateAdd \/ CreateEnd
    \/ ScanBegin \/ ScanWake \/ ScanEnd \/ Wait \/ FreeSlot \/ FreeStack \/ MainExit
    \/ Wait1 \/ LastBegin \/ LastPop \/ LastWake \/ Wait2
Step(t) ==
    \/ Table(t) \/ FuncRegister(t) \/ FuncSleep(t) \/ Leave(t)
    \/ Count(t) \/ Ready(t) \/ Unready(t) \/ Spin(t) \/ Throw(t) \/ Look(t) \/ Catch(t)
    \/ Caught(t) \/ Mine(t) \/ Doze(t) \/ Over(t) \/ Leaving(t)
    \/ YieldLoop(t) \/ YieldAdd(t) \/ PopBegin(t) \/ YieldPop(t) \/ YieldWake(t) \/ YieldSleep(t)
Next == MainStep \/ \E t \in Tid : Step(t)

\* Threads are scheduled, and one that spins for a lock gets it if it is free again
\* and again.
Spec == Init /\ [][Next]_vars /\ SF_vars(MainStep) /\ \A t \in Tid : SF_vars(Step(t))

(***************************************************************************)
(* Properties                                                              *)
(***************************************************************************)
\* The blocks in use and those of the free list cover the memory obtained from sbrk,
\* no block is in use twice or both in use and free, no two overlap and no two free
\* blocks touch: free and malloc lose nothing, give nothing twice and join what they
\* can.  No thread runs on a stack that was given back to the allocator.
HeapSound ==
    LET free == {<<a, heap.size[a]>> : a \in FreeList(heap) \ {base}}
        taken == BagToSet(used)
        Covers(b) == b[1]..(b[1] + b[2] - 1)
    IN  /\ \A b \in taken : used[b] = 1
        /\ free \cap taken = {}
        /\ UNION {Covers(b) : b \in free \cup taken} = 1..(heap.brk - 1)
        /\ \A b, c \in free \cup taken : b # c => Covers(b) \cap Covers(c) = {}
        /\ \A b, c \in free : b[1] + b[2] # c[1]
        /\ \A t \in Tid : th[t].state \in {"run", "asleep"} => <<th[t].stack, STACK>> \in taken

\* In test_sleep and test_yield, while malloc does not fail, thQ2 holds the thread ids
\* added and not yet popped, in order; size and tail agree with its links, and its
\* nodes are blocks in use, however nodes are recycled.  (frisbee keeps its stacks in
\* the queue's words.)
QueueRight ==
    LET nodes == Nodes(q, q.head, LIMIT)
    IN  prog # "frisbee" /\ "malloc" \notin broke =>
          /\ [k \in 1..Len(nodes) |-> q.val[nodes[k]]] = log
          /\ q.size = Len(log)
          /\ q.tail = IF log = <<>> THEN NULL ELSE nodes[Len(nodes)]
          /\ \A k \in 1..Len(nodes) : <<nodes[k], NODE>> \in BagToSet(used)

\* A frisbee is caught by one thread at a time although a thread that leaves releases
\* the lock twice and may take it from another: by then there is nothing to catch.
\* Nobody catches it twice in a row, and it has been caught numpass + 1 times when
\* main goes on after its waits.
CaughtRight ==
    [][/\ mem'.pass # mem.pass => (mem'.pass = mem.pass + 1 /\ mem'.holder # mem.holder)
       /\ (prog = "frisbee" /\ main'.pc = "free" /\ broke' = {}) => mem'.pass = numpass + 1]_vars

\* In frisbee and test_sleep main gets past its waits, to free the stacks, unless the
\* overrun of slist, a failed malloc or clone, or a twakeup that came before the tsleep
\* it was meant for has kept the threads from ending: no other interleaving of the
\* spinning threads, of the two stages of the barrier or of the double release makes
\* anybody wait for ever.  (In test_yield a thread may find nobody left to wake, and
\* sleep for ever.)
Ends == <>(prog = "yield" \/ main.pc \in {"free", "exit"} \/ broke # {})
=============================================================================

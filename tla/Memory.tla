------------------------------- MODULE Memory -------------------------------
(***************************************************************************)
(* Physical pages and address spaces: the page allocator of kalloc.c, the  *)
(* page tables of vm.c, and the system calls that build, grow, share and   *)
(* free them (userinit, growproc, fork, clone, exit, texit and wait in     *)
(* proc.c, exec in exec.c).                                                *)
(*                                                                         *)
(* A page is a number; what it holds is left out, who holds it is kept.    *)
(* Addresses are counted in units, PGSIZE of them to a page, so that sizes *)
(* that are not page aligned occur.  A user page table covers NPTENTRIES   *)
(* pages, the kernel half of every address space needs KTABLES tables.     *)
(* `uint' arithmetic on sizes wraps at WORD.  A system call is one step:   *)
(* the free list's lock makes kalloc and kfree atomic, and the calls of    *)
(* different processes meet only there.                                    *)
(***************************************************************************)
EXTENDS Integers, FiniteSets, FiniteSetsExt, SequencesExt, TLC

CONSTANTS
    NPAGES,      \* physical pages on the free list after kinit2 and kvmalloc
    NPROC,       \* slots of the process table; slot 1 is init
    PGSIZE,      \* units in a page
    NPTENTRIES,  \* user pages one page table maps
    KTABLES,     \* page tables of the kernel half
    KERNBASE,    \* first address past user memory
    WORD,        \* sizes are unsigned numbers below WORD
    Segments,    \* sizes of the programs exec may load
    Deltas,      \* arguments of sbrk
    Threads      \* whether programs call clone

ASSUME MemoryAssumption ==
    /\ {NPAGES, NPROC, PGSIZE, NPTENTRIES, KTABLES, KERNBASE, WORD} \subseteq Nat \ {0}
    /\ KERNBASE % (PGSIZE * NPTENTRIES) = 0 /\ 2 * KERNBASE <= WORD
    /\ Segments \subseteq 1..KERNBASE /\ Deltas \subseteq -(WORD \div 2)..(WORD \div 2)
    /\ NPAGES >= KTABLES + 4 /\ Threads \in BOOLEAN

VARIABLES
    mem,   \* [free, space, lost, odd, panic]: the allocator, every page table,
           \* pages nobody can reach, unusual events so far, the panic if any
    proc   \* [state, pgdir, sz, kstack, parent, isthread] of every slot
vars == <<mem, proc>>

Page == 1..NPAGES
Proc == 1..NPROC
VPage == 0..(KERNBASE \div PGSIZE - 1)
Table == 0..(KERNBASE \div (PGSIZE * NPTENTRIES) - 1)
Init1 == 1

\* A page directory with its kernel tables, user tables and user pages (0: none).
NewSpace(K) == [ktab |-> K, utab |-> [t \in Table |-> 0], pte |-> [v \in VPage |-> 0]]
NoSpace == NewSpace({})
Unused == [state |-> "UNUSED", pgdir |-> 0, sz |-> 0, kstack |-> 0, parent |-> 0,
           isthread |-> FALSE]

\* Mutant: round down.
PGROUNDUP_Down(n) == (n \div PGSIZE) * PGSIZE
PGROUNDUP(n) == ((n + PGSIZE - 1) \div PGSIZE) * PGSIZE
TableOf(v) == v \div NPTENTRIES
Bytes(n) == n % WORD

(***************************************************************************)
(* kalloc.c                                                                *)
(***************************************************************************)
\* kalloc: a page, or 0 when there is none.  Which page the list gives first does
\* not matter to anything here.
Kalloc(m) == IF m.free = {} THEN 0 ELSE Min(m.free)
Take(m, S) == [m EXCEPT !.free = @ \ S]

\* kfree puts pages back; it cannot tell that one is there already.
Kfree(m, S) ==
    [m EXCEPT !.free = @ \cup S,
              !.odd = IF S \cap m.free # {} THEN @ \cup {"twice"} ELSE @]
Lose(m, S) == [m EXCEPT !.lost = @ \cup S]
Panic(m, why) == [m EXCEPT !.panic = IF @ = "none" THEN why ELSE @]
Odd(m, what) == [m EXCEPT !.odd = @ \cup {what}]

(***************************************************************************)
(* vm.c                                                                    *)
(***************************************************************************)
\* walkpgdir without alloc: whether the table that holds v's entry exists.
HasTable(m, d, v) == m.space[d].utab[TableOf(v)] # 0

\* mappages of one user page: a missing table is allocated, which may fail.
Mappages(m, d, v, pg) ==
    LET t == Kalloc(m)
        Put(w) == IF w.space[d].pte[v] # 0 THEN Panic(w, "remap")
                  ELSE [w EXCEPT !.space[d].pte[v] = pg]
    IN  IF HasTable(m, d, v) THEN [m |-> Put(m), ok |-> TRUE]
        ELSE IF t = 0 THEN [m |-> m, ok |-> FALSE]
        ELSE [m |-> Put([Take(m, {t}) EXCEPT !.space[d].utab[TableOf(v)] = t]), ok |-> TRUE]

\* setupkvm: a directory and its kernel tables.  When a table cannot be had the
\* pages taken so far are dropped on the floor.
Setupkvm(m) ==
    LET d == Kalloc(m)
        rest == m.free \ {d}
        K == {k \in rest : Cardinality({j \in rest : j < k}) < KTABLES}
    IN  IF d = 0 THEN [m |-> m, d |-> 0, sz |-> 0]
        ELSE IF Cardinality(rest) < KTABLES
        THEN [m |-> Lose(Take(m, m.free), m.free), d |-> 0, sz |-> 0]
        ELSE [m |-> [Take(m, K \cup {d}) EXCEPT !.space[d] = NewSpace(K)],
              d |-> d, sz |-> 0]

\* deallocuvm: free the pages from newsz up to oldsz; a missing table makes the
\* loop jump NPTENTRIES pages ahead of where it stands.
Deallocuvm(m, d, oldsz, newsz) ==
    LET end == PGROUNDUP(oldsz) \div PGSIZE
        Seen[v \in Nat] == IF v >= end THEN {}
                           ELSE IF HasTable(m, d, v) THEN {v} \cup Seen[v + 1]
                           ELSE Seen[v + NPTENTRIES]
        gone == {v \in Seen[PGROUNDUP(newsz) \div PGSIZE] : m.space[d].pte[v] # 0}
    IN  IF newsz >= oldsz THEN [m |-> m, sz |-> oldsz]
        ELSE [m |-> [Kfree(m, {m.space[d].pte[v] : v \in gone}) EXCEPT
                        !.space[d].pte = [v \in VPage |-> IF v \in gone THEN 0 ELSE @[v]]],
              sz |-> newsz]

\* One turn of allocuvm's loop.  The result of mappages is not looked at.
AllocPage(d, acc, v) ==
    LET pg == Kalloc(acc.m)
        r  == Mappages(Take(acc.m, {pg}), d, v, pg)
    IN  IF ~acc.ok THEN acc
        ELSE IF pg = 0 THEN [acc EXCEPT !.ok = FALSE]
        ELSE [acc EXCEPT !.m = IF r.ok THEN r.m ELSE Odd(Lose(r.m, {pg}), "hole")]

\* allocuvm: the pages from oldsz up to newsz, all of them or none.
Allocuvm(m, d, oldsz, newsz) ==
    LET first == PGROUNDUP(oldsz) \div PGSIZE
        last  == PGROUNDUP(newsz) \div PGSIZE - 1
        r == FoldLeft(LAMBDA acc, v : AllocPage(d, acc, v), [m |-> m, ok |-> TRUE],
                      [i \in 1..(last - first + 1) |-> first + i - 1])
    IN  IF newsz >= KERNBASE THEN [m |-> m, d |-> d, sz |-> 0]
        ELSE IF newsz < oldsz THEN [m |-> m, d |-> d, sz |-> oldsz]
        ELSE IF r.ok THEN [m |-> r.m, d |-> d, sz |-> newsz]
        ELSE [m |-> Deallocuvm(r.m, d, newsz, oldsz).m, d |-> d, sz |-> 0]

\* freevm: the user pages, every table, the directory.
Freevm(m, d) ==
    LET f == Deallocuvm(m, d, KERNBASE, 0).m
    IN  [Kfree(f, {d} \cup f.space[d].ktab \cup ({f.space[d].utab[t] : t \in Table} \ {0}))
            EXCEPT !.space[d] = NoSpace]

\* One turn of copyuvm's loop over the parent's pages.
CopyPage(from, d, acc, v) ==
    LET pg == Kalloc(acc.m)
        r  == Mappages(Take(acc.m, {pg}), d, v, pg)
    IN  IF ~acc.ok THEN acc
        ELSE IF acc.m.space[from].pte[v] = 0
        THEN [m |-> Panic(acc.m, "copyuvm"), ok |-> FALSE]
        ELSE IF pg = 0 THEN [acc EXCEPT !.ok = FALSE]
        ELSE [m |-> IF r.ok THEN r.m ELSE Lose(r.m, {pg}), ok |-> r.ok]

\* copyuvm: a copy of all pages but page 0.
Copyuvm(m, from, sz) ==
    LET s == Setupkvm(m)
        n == PGROUNDUP(sz) \div PGSIZE - 1
        r == FoldLeft(LAMBDA acc, v : CopyPage(from, s.d, acc, v), [m |-> s.m, ok |-> TRUE],
                      [i \in 1..n |-> i])
    IN  IF s.d = 0 THEN s
        ELSE IF r.ok THEN [m |-> r.m, d |-> s.d]
        ELSE [m |-> IF r.m.panic = "none" THEN Freevm(r.m, s.d) ELSE r.m, d |-> 0]

\* loaduvm and copyout go through the entries of pages that must be mapped; without
\* its table they panic or read through a null pointer, and the model stops.
Touch(r, from, why) ==
    IF \A a \in from..(r.sz - 1) : r.m.space[r.d].pte[a \div PGSIZE] # 0 THEN r
    ELSE [r EXCEPT !.m = Panic(@, why)]

(***************************************************************************)
(* The system calls                                                        *)
(***************************************************************************)
\* Slots whose page directory is d and that will still run on it or free it.
UsersOf(d) == {q \in Proc : /\ proc[q].pgdir = d
                            /\ \/ proc[q].state = "RUNNABLE"
                               \/ proc[q].state = "ZOMBIE" /\ ~proc[q].isthread}
Discard(m, d, p) ==
    LET f == Freevm(m, d) IN IF UsersOf(d) \ {p} = {} THEN f ELSE Odd(f, "freed")

\* allocproc takes the first unused slot and a kernel stack for it.
FreeSlots == {q \in Proc : proc[q].state = "UNUSED"}

\* userinit: one process with one page at address 0.
Init ==
    LET s == Setupkvm([free |-> 2..NPAGES, space |-> [d \in Page |-> NoSpace],
                       lost |-> {}, odd |-> {}, panic |-> "none"])
    IN  /\ mem = Allocuvm(s.m, s.d, 0, PGSIZE).m
        /\ proc = [p \in Proc |->
                     IF p # Init1 THEN Unused
                     ELSE [Unused EXCEPT !.state = "RUNNABLE", !.pgdir = s.d, !.sz = PGSIZE,
                                         !.kstack = 1]]

Running(p) == proc[p].state = "RUNNABLE" /\ mem.panic = "none"

\* sbrk, growproc: a result of 0 is a failure, the size is then left as it was.
Growproc(p, n) ==
    LET sz == proc[p].sz
        d  == proc[p].pgdir
        r  == IF n > 0 THEN Allocuvm(mem, d, sz, Bytes(sz + n))
              ELSE IF n < 0 THEN Deallocuvm(mem, d, sz, Bytes(sz + n))
              ELSE [m |-> mem, sz |-> sz]
        shared == UsersOf(d) # {p} /\ r.m.space[d] # mem.space[d]
    IN  /\ Running(p)
        /\ mem' = LET m == IF shared THEN Odd(r.m, "resized") ELSE r.m
                  IN  IF n < 0 /\ r.sz = 0 THEN Odd(m, "zero") ELSE m
        /\ proc' = IF n # 0 /\ r.sz = 0 THEN proc ELSE [proc EXCEPT ![p].sz = r.sz]

\* Mutant: the kernel stack is kept when copyuvm fails.
Fork_KeepsStack(p) ==
    LET np == Min(FreeSlots)
        k  == Kalloc(mem)
        c  == Copyuvm(Take(mem, {k}), proc[p].pgdir, proc[p].sz)
    IN  /\ Running(p) /\ FreeSlots # {} /\ k # 0
        /\ mem' = c.m
        /\ proc' = IF c.d = 0 THEN proc
                   ELSE [proc EXCEPT ![np] =
                     [state |-> "RUNNABLE", pgdir |-> c.d, sz |-> proc[p].sz, kstack |-> k,
                      parent |-> p, isthread |-> FALSE]]
\* fork
Fork(p) ==
    LET np == Min(FreeSlots)
        k  == Kalloc(mem)
        c  == Copyuvm(Take(mem, {k}), proc[p].pgdir, proc[p].sz)
    IN  /\ Running(p)
        /\ IF FreeSlots = {} \/ k = 0 THEN UNCHANGED vars
           ELSE IF c.d = 0 THEN mem' = Kfree(c.m, {k}) /\ UNCHANGED proc
           ELSE /\ mem' = c.m
                /\ proc' = [proc EXCEPT ![np] =
                     [state |-> "RUNNABLE", pgdir |-> c.d, sz |-> proc[p].sz, kstack |-> k,
                      parent |-> p, isthread |-> FALSE]]

\* clone: the new slot shares the page directory; its parent is the first ancestor
\* that is not a thread.  A bad stack or routine leaves the slot an EMBRYO.
Main[q \in 0..NPROC, n \in 0..NPROC] ==
    IF q = 0 \/ n = 0 THEN q
    ELSE IF proc[q].isthread THEN Main[proc[q].parent, n - 1] ELSE q
Clone(p, good) ==
    LET np == Min(FreeSlots)
        k  == Kalloc(mem)
    IN  /\ Running(p) /\ Threads /\ FreeSlots # {} /\ k # 0
        /\ mem' = Take(mem, {k})
        /\ proc' = [proc EXCEPT ![np] =
             IF ~good THEN [@ EXCEPT !.state = "EMBRYO", !.kstack = k]
             ELSE [state |-> "RUNNABLE", pgdir |-> proc[p].pgdir, sz |-> proc[p].sz,
                   kstack |-> k, parent |-> Main[p, NPROC], isthread |-> TRUE]]

\* exec: page 0, the program's segment at PGSIZE, an inaccessible page and the
\* stack; then the old space is freed.  A failure on the way, or a file that turns
\* out bad after its segment is loaded, frees the new space instead.
ExecZero(r) == IF r.d = 0 THEN r ELSE Allocuvm(r.m, r.d, 0, PGSIZE)
ExecLoad(r, n) == IF r.sz = 0 THEN r
                  ELSE Touch(Allocuvm(r.m, r.d, r.sz, PGSIZE + n), PGSIZE, "loaduvm")
ExecStack(r) ==
    IF r.sz = 0 THEN r
    ELSE Touch(Allocuvm(r.m, r.d, PGROUNDUP(r.sz), PGROUNDUP(r.sz) + 2 * PGSIZE),
               PGROUNDUP(r.sz) + PGSIZE, "copyout")
\* Mutant: at bad, the page table in use is freed.
Exec_FreesOwn(p, n, good) ==
    LET r == ExecStack(ExecLoad(ExecZero(Setupkvm(mem)), n))
    IN  /\ Running(p)
        /\ IF r.m.panic # "none" \/ r.d = 0 THEN mem' = r.m /\ UNCHANGED proc
           ELSE IF r.sz = 0 \/ ~good THEN mem' = Freevm(r.m, proc[p].pgdir) /\ UNCHANGED proc
           ELSE /\ mem' = Discard(r.m, proc[p].pgdir, p)
                /\ proc' = [proc EXCEPT ![p].pgdir = r.d, ![p].sz = r.sz]
Exec(p, n, good) ==
    LET r == ExecStack(ExecLoad(ExecZero(Setupkvm(mem)), n))
    IN  /\ Running(p)
        /\ IF r.m.panic # "none" \/ r.d = 0 THEN mem' = r.m /\ UNCHANGED proc
           ELSE IF r.sz = 0 \/ ~good THEN mem' = Freevm(r.m, r.d) /\ UNCHANGED proc
           ELSE /\ mem' = Discard(r.m, proc[p].pgdir, p)
                /\ proc' = [proc EXCEPT ![p].pgdir = r.d, ![p].sz = r.sz]

\* exit hands children to init, texit does not.
Exit(p) ==
    /\ Running(p) /\ p # Init1
    /\ proc' = [q \in Proc |->
                  IF q = p THEN [proc[q] EXCEPT !.state = "ZOMBIE"]
                  ELSE IF proc[q].parent = p THEN [proc[q] EXCEPT !.parent = Init1]
                  ELSE proc[q]]
    /\ UNCHANGED mem
Texit(p) ==
    /\ Running(p) /\ p # Init1
    /\ proc' = [proc EXCEPT ![p].state = "ZOMBIE"]
    /\ UNCHANGED mem

\* wait reaps the first zombie child; only a process that is no thread takes its
\* address space with it.
Wait(p) ==
    LET Z == {q \in Proc : proc[q].parent = p /\ proc[q].state = "ZOMBIE"}
        q == Min(Z)
        k == Kfree(mem, {proc[q].kstack})
    IN  /\ Running(p) /\ Z # {}
        /\ mem' = IF proc[q].isthread THEN k ELSE Discard(k, proc[q].pgdir, q)
        /\ proc' = [proc EXCEPT ![q] = Unused]

Next ==
    \/ \E p \in Proc, n \in Deltas : Growproc(p, n)
    \/ \E p \in Proc : Fork(p)
    \/ \E p \in Proc, good \in BOOLEAN : Clone(p, good)
    \/ \E p \in Proc, n \in Segments, good \in BOOLEAN : Exec(p, n, good)
    \/ \E p \in Proc : Exit(p)
    \/ \E p \in Proc : Texit(p)
    \/ \E p \in Proc : Wait(p)

Spec == Init /\ [][Next]_vars

(***************************************************************************)
(* Properties                                                              *)
(***************************************************************************)
Live == {p \in Proc : proc[p].state \in {"RUNNABLE", "ZOMBIE"}}
Spaces == {proc[p].pgdir : p \in {q \in Live : UsersOf(proc[q].pgdir) # {}}}
PagesOf(d) == LET s == mem.space[d] IN
    {d} \cup s.ktab \cup (({s.utab[t] : t \in Table} \cup {s.pte[v] : v \in VPage}) \ {0})
Stacks == {proc[p].kstack : p \in {q \in Proc : proc[q].kstack # 0}}

\* The allocator, the page tables and the process table have their types.
TypeOK ==
    /\ mem.free \subseteq Page /\ mem.lost \subseteq Page
    /\ \A d \in Page : /\ mem.space[d].ktab \subseteq Page
                       /\ mem.space[d].utab \in [Table -> 0..NPAGES]
                       /\ mem.space[d].pte \in [VPage -> 0..NPAGES]
    /\ \A p \in Proc : /\ proc[p].sz \in 0..KERNBASE
                       /\ {proc[p].pgdir, proc[p].kstack} \subseteq 0..NPAGES
                       /\ proc[p].parent \in 0..NPROC

\* Every physical page has exactly one holder: the free list, one kernel stack, one
\* entry of one address space some process will still free, or the pages setupkvm,
\* allocuvm and copyuvm drop when memory runs out.  This is what the order of kalloc,
\* mappages and freevm on the failure paths of fork and exec, and wait's test of
\* isthread, have to keep; once a space is freed under a process that still has it
\* nothing is promised.
PagesOwned ==
    TypeOK /\ ("freed" \notin mem.odd /\ mem.panic = "none" =>
        /\ "twice" \notin mem.odd
        /\ mem.free \cup mem.lost \cup Stacks \cup UNION {PagesOf(d) : d \in Spaces} = Page
        /\ Cardinality(mem.free) + Cardinality(mem.lost)
             + Cardinality({p \in Proc : proc[p].kstack # 0})
             + MapThenSumSet(LAMBDA d : Cardinality(PagesOf(d)), Spaces) = NPAGES)

\* A process's size is the extent of its page table: above page 0 exactly the pages
\* below sz are mapped, each to a page of its own, so that growproc and copyuvm never
\* meet a mapped or a missing entry (the panics of mappages, copyuvm and loaduvm).
\* Exceptions: a space resized or freed by one of several threads, sbrk to size 0,
\* and an allocuvm whose mappages failed.
SizeIsExtent ==
    mem.odd = {} =>
        /\ mem.panic = "none"
        /\ \A p \in Live : LET s == mem.space[proc[p].pgdir]
                               M == {v \in VPage : s.pte[v] # 0} IN
             p \in UsersOf(proc[p].pgdir) =>
               /\ M \ {0} = 1..(PGROUNDUP(proc[p].sz) \div PGSIZE - 1)
               /\ \A v, w \in M : s.pte[v] = s.pte[w] => v = w

\* sbrk, fork and exec fail without harm.  A call that leaves the process table as it was
\* maps and unmaps no page of any process, however far it got before memory ran out or
\* the file turned out bad; and the pages it took and did not give back are page tables
\* of a process, or those setupkvm, allocuvm and copyuvm drop.
FailureKeeps ==
    [][proc' = proc /\ mem'.odd = mem.odd /\ mem'.panic = mem.panic =>
         /\ \A p \in Live : mem'.space[proc[p].pgdir].pte = mem.space[proc[p].pgdir].pte
         /\ mem'.free \subseteq mem.free
         /\ \A pg \in mem.free \ mem'.free :
              \/ pg \in mem'.lost
              \/ \E p \in Live, t \in Table : mem'.space[proc[p].pgdir].utab[t] = pg]_vars
=============================================================================

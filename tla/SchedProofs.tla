----------------------------- MODULE SchedProofs -----------------------------
(***************************************************************************)
(* Proofs about Sched, for any number of processes and CPUs.  The frame a  *)
(* CPU is in says which locks it holds, how deep its pushcli is, and       *)
(* whether interrupts are on; the invariant spells that out.               *)
(***************************************************************************)
EXTENDS Sched, TLAPS

\* The prover of the leaves that name none.
USE ZenonT(30)

Frames == [at : Labels, ph : {0, 1}]
ProcBase == {"user", "lock", "test", "sleep0", "sleep1", "sleep2", "sleep3", "unlock"}
SchedBase == {"sti", "sched0", "sched1", "sched2"}
Starting == {"forkret", "trapret"}
Clock == {"yield0", "yield1", "yield2"}
Phased == {"lock", "sleep0", "intr0", "wake0", "yield0", "sched0", "unlock", "sleep1",
           "sleep3", "wake2", "intr2", "yield2", "sched2", "forkret"}

\* The locks held in a frame.  In phase 1 an acquire does not have the lock yet, and
\* a release no longer has it.
LkAt(f) == \/ f.at \in {"test", "sleep0", "intr1", "wake0", "wake1", "wake2"}
           \/ f.at \in {"sleep1", "unlock", "intr2"} /\ f.ph = 0
PtAt(f) == \/ f.at \in {"sleep1", "sleep2", "wake1", "yield1", "sched1"}
           \/ f.at \in {"sleep3", "wake2", "yield2", "sched2", "forkret"} /\ f.ph = 0
Bit(b) == IF b THEN 1 ELSE 0
Depth(f) == Bit(LkAt(f)) + Bit(PtAt(f)) + f.ph

\* Which stacks a process and a scheduler thread can have.
Shape(x) ==
  LET s == stk[x] IN
  /\ Len(s) \in 1 .. 3
  /\ s[1].ph = 1 => s[1].at \in Phased
  /\ s[1].at \in ProcBase => x \in Proc /\ Len(s) = 1
  /\ s[1].at \in SchedBase => x \in Cpu /\ Len(s) = 1
  /\ s[1].at \in Starting => x \in Proc /\ Len(s) = 2 /\ s[2] = Frame("user")
  /\ s[1].at \in Handler =>
       \/ x \in Proc /\ Len(s) = 2 /\ s[2] \in {Frame("user"), Frame("lock")}
       \/ x \in Proc /\ Len(s) = 3 /\ s[2] = Frame("trapret") /\ s[3] = Frame("user")
       \/ x \in Cpu /\ Len(s) = 2 /\ s[2] \in {Frame("sti"), Frame("sched0")}
  /\ s[1].at \in Clock => x \in Proc

Types ==
  /\ state \in [Proc -> {"SLEEPING", "RUNNABLE", "RUNNING"}]
  /\ stk \in [Ctx -> Seq(Frames)]
  /\ cur \in [Cpu -> Ctx]
  /\ owner \in [{"lk", "ptable"} -> Cpu \cup {Nobody}]
  /\ ncli \in [Cpu -> Nat]
  /\ scan \in [Cpu -> 1 .. NPROC + 1]

Bools ==
  /\ intena \in [Cpu -> BOOLEAN] /\ ion \in [Cpu -> BOOLEAN]
  /\ saved \in [Proc -> BOOLEAN] /\ ready \in BOOLEAN

Shapes == \A x \in Ctx : Shape(x)

\* Who is on a CPU, and where the others have left off.
Placed ==
  /\ OneCpuEach
  /\ \A c \in Cpu : cur[c] \in Proc \cup {c}
  /\ \A c \in Cpu : cur[c] # c => stk[c][1] = Frame("sched1")
  /\ \A p \in Proc : state[p] # "RUNNING" =>
       stk[p][1] \in {Frame("sleep3"), Frame("yield2"), Frame("forkret")}
  /\ \A p \in Proc : state[p] = "SLEEPING" => stk[p][1] = Frame("sleep3")

\* Locks and the depth of pushcli.
Locks ==
  \A c \in Cpu : /\ owner["lk"] = c <=> LkAt(Top(c))
                 /\ owner["ptable"] = c <=> PtAt(Top(c))
                 /\ ncli[c] = Depth(Top(c))

\* Interrupts: on, off, and what intena or its copy in sched() will restore.
Flags ==
  /\ \A c \in Cpu :
       /\ Depth(Top(c)) > 0 \/ Top(c).at \in Handler => ~ion[c]
       /\ Depth(Top(c)) = 0 /\ Top(c).at \in {"user", "lock", "sched0"} => ion[c]
       /\ Depth(Top(c)) > 0 /\ Top(c).at \in ProcBase => intena[c]
       /\ Depth(Top(c)) > 0 /\ Top(c).at \in Handler => ~intena[c]
  /\ \A p \in Proc : state[p] # "RUNNING" =>
       /\ stk[p][1] = Frame("sleep3") => saved[p]
       /\ stk[p][1] = Frame("yield2") => ~saved[p]

\* Between the test of ready and the sleep, and while asleep.
Wakes ==
  /\ \A c \in Cpu : Top(c).at = "sleep0" \/ Top(c) = Frame("sleep1") => ~ready
  /\ ready /\ (\E c \in Cpu : Top(c).at = "sleep2" \/ Top(c) = [at |-> "sleep1", ph |-> 1])
       => \E d \in Cpu : Top(d).at = "wake0"
  /\ ready /\ (\E p \in Proc : state[p] = "SLEEPING")
       => \E d \in Cpu : Top(d).at \in {"wake0", "wake1"}

Inv == Types /\ Bools /\ Shapes /\ Placed /\ Locks /\ Flags /\ Wakes

-----------------------------------------------------------------------------
(* Labels.                                                                   *)

\* The next label keeps the kind of frame it is in.
SameKind(a, b) ==
  /\ b \in ProcBase <=> a \in ProcBase
  /\ b \in SchedBase <=> a \in SchedBase
  /\ b \in Starting <=> a \in Starting
  /\ b \in Handler <=> a \in Handler
  /\ b \in Clock => a \in Clock

LEMMA CtxFacts ==
  /\ Cpu \cap Proc = {} /\ Nobody \notin Cpu /\ Ctx = Proc \cup Cpu
  /\ \A c \in Cpu : c \in Ctx
  /\ NPROC \in Nat
  BY SchedAssumption, SMTT(30) DEF Cpu, Proc, Ctx, Nobody

LEMMA LabelsAre ==
  Labels = {"user", "lock", "sleep0", "sleep1", "sleep2", "sleep3", "unlock", "forkret",
            "intr0", "intr1", "wake0", "wake1", "wake2", "intr2", "yield0", "yield1", "yield2",
            "sti", "sched0", "sched2", "test", "sched1", "iret", "trapret"}
  BY SMTT(30) DEF Labels, Following

\* What acquire() does to the frame: the lock is held only when it has returned.
LEMMA AcquireFrames ==
  ASSUME NEW a \in DOMAIN Acquires
  PROVE  LET f0 == Frame(a)
             f1 == [at |-> a, ph |-> 1]
             g == Frame(Following[a])
         IN  /\ a \in Labels /\ a \in Phased /\ Following[a] \in Labels /\ SameKind(a, Following[a])
             /\ Acquires[a] = "lk" =>
                  /\ ~LkAt(f0) /\ ~LkAt(f1) /\ LkAt(g)
                  /\ PtAt(f1) <=> PtAt(f0)
                  /\ PtAt(g) <=> PtAt(f0)
             /\ Acquires[a] = "ptable" =>
                  /\ ~PtAt(f0) /\ ~PtAt(f1) /\ PtAt(g)
                  /\ LkAt(f1) <=> LkAt(f0)
                  /\ LkAt(g) <=> LkAt(f0)
             /\ Acquires[a] \in {"lk", "ptable"}
<1>1. a \in {"lock", "sleep0", "intr0", "wake0", "yield0", "sched0"}
  BY DEF Acquires
<1>2. /\ Acquires["lock"] = "lk" /\ Acquires["sleep0"] = "ptable" /\ Acquires["intr0"] = "lk"
      /\ Acquires["wake0"] = "ptable" /\ Acquires["yield0"] = "ptable" /\ Acquires["sched0"] = "ptable"
  BY DEF Acquires
<1>3. /\ Following["lock"] = "test" /\ Following["sleep0"] = "sleep1" /\ Following["intr0"] = "intr1"
      /\ Following["wake0"] = "wake1" /\ Following["yield0"] = "yield1" /\ Following["sched0"] = "sched1"
  BY DEF Following
<1>4. a \in Labels /\ a \in Phased /\ Following[a] \in Labels /\ SameKind(a, Following[a])
  BY <1>1, <1>3, LabelsAre DEF Phased, SameKind, ProcBase, SchedBase, Starting, Handler, Clock
<1>5. CASE a \in {"lock", "intr0"}
  BY <1>2, <1>3, <1>4, <1>5 DEF LkAt, PtAt, Frame
<1>6. CASE a \in {"sleep0", "wake0", "yield0", "sched0"}
  BY <1>2, <1>3, <1>4, <1>6 DEF LkAt, PtAt, Frame
<1>. QED  BY <1>1, <1>5, <1>6

\* What release() does to it.
LEMMA ReleaseFrames ==
  ASSUME NEW a \in DOMAIN Releases
  PROVE  LET f0 == Frame(a)
             f1 == [at |-> a, ph |-> 1]
             g == Frame(Following[a])
         IN  /\ a \in Labels /\ a \in Phased /\ Following[a] \in Labels /\ SameKind(a, Following[a])
             /\ Releases[a] = "lk" =>
                  /\ LkAt(f0) /\ ~LkAt(f1) /\ ~LkAt(g)
                  /\ PtAt(f1) <=> PtAt(f0)
                  /\ PtAt(g) <=> PtAt(f0)
             /\ Releases[a] = "ptable" =>
                  /\ PtAt(f0) /\ ~PtAt(f1) /\ ~PtAt(g)
                  /\ LkAt(f1) <=> LkAt(f0)
                  /\ LkAt(g) <=> LkAt(f0)
             /\ Releases[a] \in {"lk", "ptable"}
<1>1. a \in {"unlock", "sleep1", "sleep3", "wake2", "intr2", "yield2", "sched2", "forkret"}
  BY DEF Releases
<1>2. /\ Releases["unlock"] = "lk" /\ Releases["sleep1"] = "lk" /\ Releases["sleep3"] = "ptable"
      /\ Releases["wake2"] = "ptable" /\ Releases["intr2"] = "lk" /\ Releases["yield2"] = "ptable"
      /\ Releases["sched2"] = "ptable" /\ Releases["forkret"] = "ptable"
  BY DEF Releases
<1>3. /\ Following["unlock"] = "user" /\ Following["sleep1"] = "sleep2" /\ Following["sleep3"] = "lock"
      /\ Following["wake2"] = "intr2" /\ Following["intr2"] = "iret" /\ Following["yield2"] = "iret"
      /\ Following["sched2"] = "sti" /\ Following["forkret"] = "trapret"
  BY DEF Following
<1>4. a \in Labels /\ a \in Phased /\ Following[a] \in Labels /\ SameKind(a, Following[a])
  BY <1>1, <1>3, LabelsAre, SMTT(30) DEF Phased, SameKind, ProcBase, SchedBase, Starting, Handler, Clock
<1>5. CASE a \in {"unlock", "sleep1", "intr2"}
  BY <1>2, <1>3, <1>4, <1>5, SMTT(30) DEF LkAt, PtAt, Frame
<1>6. CASE a \in {"sleep3", "wake2", "yield2", "sched2", "forkret"}
  BY <1>2, <1>3, <1>4, <1>6, SMTT(30) DEF LkAt, PtAt, Frame
<1>. QED  BY <1>1, <1>5, <1>6

LEMMA DepthIs ==
  ASSUME NEW f \in Frames
  PROVE  /\ Depth(f) \in 0 .. 3 /\ f.ph <= Depth(f)
         /\ LkAt(f) \/ PtAt(f) => Depth(f) > 0
         /\ Depth(f) = 0 => f.ph = 0 /\ ~LkAt(f) /\ ~PtAt(f)
<1>1. f.ph \in {0, 1} /\ Bit(LkAt(f)) \in {0, 1} /\ Bit(PtAt(f)) \in {0, 1}
  BY DEF Frames, Bit
<1>2. (LkAt(f) => Bit(LkAt(f)) = 1) /\ (PtAt(f) => Bit(PtAt(f)) = 1)
  BY DEF Bit
<1>. QED  BY <1>1, <1>2, SMTT(30) DEF Depth

-----------------------------------------------------------------------------
(* Stacks.                                                                   *)

LEMMA SeqTop ==
  ASSUME NEW S, NEW s \in Seq(S), NEW f \in S, Len(s) >= 1
  PROVE  LET t == <<f>> \o Tail(s) IN
         /\ t \in Seq(S) /\ Len(t) = Len(s) /\ t[1] = f
         /\ \A i \in 2 .. Len(s) : t[i] = s[i]
<1>1. Tail(s) \in Seq(S) /\ Len(Tail(s)) = Len(s) - 1 /\ \A i \in 1 .. Len(s) - 1 : Tail(s)[i] = s[i + 1]
  BY SMTT(30)
<1>2. <<f>> \in Seq(S) /\ Len(<<f>>) = 1 /\ <<f>>[1] = f
  BY SMTT(30)
<1>3. Len(s) \in Nat
  BY SMTT(30)
<1>. DEFINE u == Tail(s)
<1>. HIDE DEF u
<1>4. LET t == <<f>> \o u IN
         /\ t \in Seq(S) /\ Len(t) = 1 + Len(u)
         /\ \A i \in 1 .. 1 + Len(u) : t[i] = IF i <= 1 THEN <<f>>[i] ELSE u[i - 1]
  BY <1>1, <1>2, SMTT(30) DEF u
<1>. QED  BY <1>1, <1>2, <1>3, <1>4, SMTT(30) DEF u

LEMMA SeqPush ==
  ASSUME NEW S, NEW s \in Seq(S), NEW f \in S
  PROVE  LET t == <<f>> \o s IN
         /\ t \in Seq(S) /\ Len(t) = Len(s) + 1 /\ t[1] = f
         /\ \A i \in 1 .. Len(s) : t[i + 1] = s[i]
<1>2. <<f>> \in Seq(S) /\ Len(<<f>>) = 1 /\ <<f>>[1] = f
  BY SMTT(30)
<1>3. Len(s) \in Nat
  BY SMTT(30)
<1>4. LET t == <<f>> \o s IN
         /\ t \in Seq(S) /\ Len(t) = 1 + Len(s)
         /\ \A i \in 1 .. 1 + Len(s) : t[i] = IF i <= 1 THEN <<f>>[i] ELSE s[i - 1]
  BY <1>2, SMTT(30)
<1>. QED  BY <1>2, <1>3, <1>4, SMTT(30)

LEMMA FrameType == \A l \in Labels : Frame(l) \in Frames
  BY DEF Frame, Frames

\* The frame on top of a stack.
LEMMA TopIs == Types /\ Shapes =>
  \A c \in Cpu : /\ cur[c] \in Ctx /\ stk[cur[c]] \in Seq(Frames) /\ Shape(cur[c])
                 /\ Top(c) = stk[cur[c]][1] /\ Top(c) \in Frames
<1>. SUFFICES ASSUME Types, Shapes, NEW c \in Cpu
     PROVE  /\ cur[c] \in Ctx /\ stk[cur[c]] \in Seq(Frames) /\ Shape(cur[c])
            /\ Top(c) = stk[cur[c]][1] /\ Top(c) \in Frames
  OBVIOUS
<1>1. cur[c] \in Ctx /\ stk[cur[c]] \in Seq(Frames) /\ Shape(cur[c])
  BY DEF Types, Shapes
<1>2. Len(stk[cur[c]]) \in 1 .. 3
  BY <1>1 DEF Shape
<1>3. Head(stk[cur[c]]) = stk[cur[c]][1]
  BY <1>1, <1>2, SMTT(30)
<1>4. stk[cur[c]][1] \in Frames
  BY <1>1, <1>2, SMTT(30)
<1>. QED  BY <1>1, <1>3, <1>4 DEF Top

LEMMA TopIsNext == Types' /\ Shapes' => \A c \in Cpu : Top(c)' = stk'[cur'[c]][1]
<1>1. Types /\ Shapes => \A c \in Cpu : Top(c) = stk[cur[c]][1]
  BY TopIs
<1>2. (Types /\ Shapes => \A c \in Cpu : Top(c) = stk[cur[c]][1])'
  BY <1>1, PTL
<1>. QED  BY <1>2

\* The top frame of CPU c becomes g, and no other stack changes.
Stacks(c, g) ==
  /\ stk' \in [Ctx -> Seq(Frames)]
  /\ \A y \in Ctx : y # cur[c] => stk'[y] = stk[y]
  /\ Len(stk'[cur[c]]) >= 1
  /\ stk'[cur[c]][1] = g
Moves(c, g) == Stacks(c, g) /\ cur' = cur

\* The frames below the top stay.
Keeps(c) ==
  /\ Len(stk'[cur[c]]) = Len(stk[cur[c]])
  /\ \A i \in 2 .. Len(stk[cur[c]]) : stk'[cur[c]][i] = stk[cur[c]][i]

LEMMA GotoStacks ==
  ASSUME Types, Shapes, NEW c \in Cpu, NEW l \in Labels, Goto(c, l)
  PROVE  Stacks(c, Frame(l)) /\ Keeps(c)
<1>. DEFINE x == cur[c]
            s == stk[x]
            t == <<Frame(l)>> \o Tail(s)
<1>1. x \in Ctx /\ s \in Seq(Frames) /\ Len(s) >= 1
  BY TopIs, SMTT(30) DEF Shape
<1>2. t \in Seq(Frames) /\ Len(t) = Len(s) /\ t[1] = Frame(l) /\ \A i \in 2 .. Len(s) : t[i] = s[i]
  BY <1>1, FrameType, SeqTop, SMTT(30)
<1>3. stk' = [stk EXCEPT ![x] = t] /\ stk \in [Ctx -> Seq(Frames)]
  BY DEF Goto, Types
<1>. HIDE DEF t
<1>4. stk' \in [Ctx -> Seq(Frames)] /\ stk'[x] = t /\ \A y \in Ctx : y # x => stk'[y] = stk[y]
  BY <1>1, <1>2, <1>3
<1>. QED  BY <1>1, <1>2, <1>4 DEF Stacks, Keeps

LEMMA PhaseMoves ==
  ASSUME Types, Shapes, NEW c \in Cpu, SecondPhase(c), cur' = cur
  PROVE  Moves(c, [at |-> Top(c).at, ph |-> 1]) /\ Keeps(c)
<1>. DEFINE x == cur[c]
            s == stk[x]
            f == [at |-> Top(c).at, ph |-> 1]
            t == [s EXCEPT ![1] = f]
<1>1. x \in Ctx /\ s \in Seq(Frames) /\ Len(s) >= 1 /\ s[1] = Top(c) /\ s[1] \in Frames
  BY TopIs, SMTT(30) DEF Shape
<1>2. f \in Frames
  BY <1>1 DEF Frames
<1>3. 1 \in 1 .. Len(s)
  BY <1>1, SMTT(30)
<1>4. t \in Seq(Frames) /\ Len(t) = Len(s) /\ t[1] = f /\ \A i \in 2 .. Len(s) : t[i] = s[i]
  <2>. HIDE DEF s, f
  <2>1. /\ t \in Seq(Frames) /\ Len(t) = Len(s)
        /\ \A j \in 1 .. Len(s) : t[j] = IF j = 1 THEN f ELSE s[j]
    BY <1>1, <1>2, <1>3, SMTT(30)
  <2>2. Len(s) \in Nat
    BY <1>1, SMTT(30)
  <2>. QED  BY <2>1, <2>2, <1>3, SMTT(30)
<1>5. [s[1] EXCEPT !.ph = 1] = f
  BY <1>1, SMTT(30) DEF Frames
<1>6. stk' = [stk EXCEPT ![x] = [s EXCEPT ![1] = [s[1] EXCEPT !.ph = 1]]] /\ stk \in [Ctx -> Seq(Frames)]
  BY DEF SecondPhase, Types
<1>7. stk' = [stk EXCEPT ![x] = t]
  BY <1>5, <1>6
<1>. HIDE DEF t, f
<1>8. stk' \in [Ctx -> Seq(Frames)] /\ stk'[x] = t /\ \A y \in Ctx : y # x => stk'[y] = stk[y]
  BY <1>1, <1>4, <1>6, <1>7
<1>. QED  BY <1>1, <1>4, <1>8 DEF Moves, Stacks, Keeps, f

\* The tops after a move.
LEMMA MoveTops ==
  ASSUME Types, Shapes, Placed, NEW c \in Cpu, NEW g \in Frames, Moves(c, g)
  PROVE  Top(c)' = g /\ \A d \in Cpu \ {c} : Top(d)' = Top(d)
<1>1. cur[c] \in Ctx /\ stk'[cur[c]] \in Seq(Frames) /\ Len(stk'[cur[c]]) >= 1 /\ cur' = cur
  BY TopIs DEF Shape, Moves, Stacks
<1>2. Head(stk'[cur[c]]) = stk'[cur[c]][1]
  BY <1>1, SMTT(30)
<1>3. Top(c)' = g
  BY <1>1, <1>2 DEF Top, Moves, Stacks
<1>4. ASSUME NEW d \in Cpu \ {c} PROVE Top(d)' = Top(d)
  <2>1. cur[d] # cur[c] /\ cur[d] \in Ctx
    BY TopIs DEF Placed, OneCpuEach
  <2>. QED  BY <1>1, <2>1 DEF Top, Moves, Stacks
<1>. QED  BY <1>3, <1>4

\* A move that keeps the kind of the frame keeps the shape of the stacks.
LEMMA MoveShapes ==
  ASSUME Types, Shapes, NEW c \in Cpu, NEW g \in Frames, Stacks(c, g), Keeps(c),
         SameKind(Top(c).at, g.at), g.ph = 1 => g.at \in Phased
  PROVE  Shapes'
<1>. PICK x \in Ctx : x = cur[c]
  BY TopIs
<1>1. Shape(x) /\ Top(c) = stk[x][1]
  BY TopIs
<1>2. ASSUME NEW y \in Ctx, y # x PROVE Shape(y)'
  <2>1. Shape(y) /\ stk'[y] = stk[y]
    BY <1>2 DEF Shapes, Stacks
  <2>. QED  BY <2>1 DEF Shape
<1>3. Shape(x)'
  <2>0. Len(stk[x]) \in 1 .. 3
    BY <1>1 DEF Shape
  <2>1. /\ Len(stk'[x]) = Len(stk[x]) /\ stk'[x][1] = g
        /\ Len(stk[x]) >= 2 => stk'[x][2] = stk[x][2]
        /\ Len(stk[x]) >= 3 => stk'[x][3] = stk[x][3]
    BY <2>0, SMTT(30) DEF Stacks, Keeps
  <2>. QED  BY <2>1, <1>1, SMTT(30) DEF Shape, SameKind
<1>. QED  BY <1>2, <1>3 DEF Shapes

\* Who is where, after a move that puts no process to sleep and stops none.
LEMMA MovePlaced ==
  ASSUME Types, Shapes, Placed, NEW c \in Cpu, NEW g \in Frames, Moves(c, g),
         state' \in [Proc -> {"SLEEPING", "RUNNABLE", "RUNNING"}],
         \A p \in Proc : /\ state'[p] = "RUNNING" <=> state[p] = "RUNNING"
                         /\ state'[p] = "SLEEPING" => state[p] = "SLEEPING"
  PROVE  Placed'
<1>1. cur[c] \in Proc \cup {c} /\ cur' = cur
  BY DEF Placed, Moves
<1>2. ASSUME NEW d \in Cpu, cur[d] # d PROVE stk'[d] = stk[d]
  BY <1>1, <1>2, CtxFacts DEF Moves, Stacks
<1>3. ASSUME NEW p \in Proc, state[p] # "RUNNING" PROVE stk'[p] = stk[p]
  BY <1>3, CtxFacts DEF Moves, Stacks, Placed, OneCpuEach
<1>4. OneCpuEach'
  BY <1>1 DEF Placed, OneCpuEach
<1>5. \A d \in Cpu : cur'[d] \in Proc \cup {d} /\ (cur'[d] # d => stk'[d][1] = Frame("sched1"))
  BY <1>1, <1>2 DEF Placed
<1>6. \A p \in Proc : state'[p] # "RUNNING" =>
        stk'[p][1] \in {Frame("sleep3"), Frame("yield2"), Frame("forkret")}
  BY <1>3 DEF Placed
<1>7. \A p \in Proc : state'[p] = "SLEEPING" => stk'[p][1] = Frame("sleep3")
  BY <1>3 DEF Placed
<1>. QED  BY <1>4, <1>5, <1>6, <1>7 DEF Placed

LEMMA MoveLocks ==
  ASSUME Types, Shapes, Placed, Locks, NEW c \in Cpu, NEW g \in Frames, Moves(c, g),
         \A d \in Cpu \ {c} : /\ owner'["lk"] = d <=> owner["lk"] = d
                              /\ owner'["ptable"] = d <=> owner["ptable"] = d
                              /\ ncli'[d] = ncli[d],
         owner'["lk"] = c <=> LkAt(g), owner'["ptable"] = c <=> PtAt(g), ncli'[c] = Depth(g)
  PROVE  Locks'
<1>1. Top(c)' = g /\ \A d \in Cpu \ {c} : Top(d)' = Top(d)
  BY MoveTops
<1>2. ASSUME NEW d \in Cpu, d # c
      PROVE /\ owner'["lk"] = d <=> LkAt(Top(d)')
            /\ owner'["ptable"] = d <=> PtAt(Top(d)')
            /\ ncli'[d] = Depth(Top(d)')
  BY <1>1, <1>2 DEF Locks
<1>3. ASSUME NEW d \in Cpu
      PROVE /\ owner'["lk"] = d <=> LkAt(Top(d)')
            /\ owner'["ptable"] = d <=> PtAt(Top(d)')
            /\ ncli'[d] = Depth(Top(d)')
  BY <1>1, <1>2
<1>. QED  BY <1>3 DEF Locks, LkAt, PtAt, Depth, Bit

\* What the flags of a CPU have to be in frame f.
FlagsAt(f, on, ena) ==
  /\ Depth(f) > 0 \/ f.at \in Handler => ~on
  /\ Depth(f) = 0 /\ f.at \in {"user", "lock", "sched0"} => on
  /\ Depth(f) > 0 /\ f.at \in ProcBase => ena
  /\ Depth(f) > 0 /\ f.at \in Handler => ~ena

SavedAt(f, s) == (f = Frame("sleep3") => s) /\ (f = Frame("yield2") => ~s)

LEMMA FlagsAre ==
  Flags <=> /\ \A c \in Cpu : FlagsAt(Top(c), ion[c], intena[c])
            /\ \A p \in Proc : state[p] # "RUNNING" => SavedAt(stk[p][1], saved[p])
  BY DEF Flags, FlagsAt, SavedAt

LEMMA FlagsNext ==
  Flags' <=> /\ \A c \in Cpu : FlagsAt(Top(c)', ion'[c], intena'[c])
             /\ \A p \in Proc : state'[p] # "RUNNING" => SavedAt(stk'[p][1], saved'[p])
  BY DEF Flags, FlagsAt, SavedAt

LEMMA MoveFlags ==
  ASSUME Types, Shapes, Placed, Flags, NEW c \in Cpu, NEW g \in Frames, Moves(c, g),
         \A d \in Cpu \ {c} : ion'[d] = ion[d] /\ intena'[d] = intena[d],
         FlagsAt(g, ion'[c], intena'[c]),
         \A p \in Proc : state'[p] = "RUNNING" <=> state[p] = "RUNNING",
         saved' = saved
  PROVE  Flags'
<1>1. Top(c)' = g /\ \A d \in Cpu \ {c} : Top(d)' = Top(d)
  BY MoveTops
<1>2. ASSUME NEW d \in Cpu PROVE FlagsAt(Top(d)', ion'[d], intena'[d])
  <2>1. CASE d = c
    BY <1>1, <2>1
  <2>2. CASE d # c
    <3>1. FlagsAt(Top(d), ion[d], intena[d])
      BY FlagsAre
    <3>. QED  BY <1>1, <2>2, <3>1
  <2>. QED  BY <2>1, <2>2
<1>3. ASSUME NEW p \in Proc, state'[p] # "RUNNING" PROVE SavedAt(stk'[p][1], saved'[p])
  <2>1. SavedAt(stk[p][1], saved[p])
    BY <1>3, FlagsAre
  <2>2. stk'[p] = stk[p]
    BY <1>3, CtxFacts DEF Moves, Stacks, Placed, OneCpuEach
  <2>. QED  BY <2>1, <2>2
<1>. QED  BY <1>2, <1>3, FlagsNext

\* The three ways a frame takes part in sleeping and waking.
Tested(f) == f.at = "sleep0" \/ f = Frame("sleep1")
Falling(f) == f.at = "sleep2" \/ f = [at |-> "sleep1", ph |-> 1]
Waking(f) == f.at \in {"wake0", "wake1"}

LEMMA WakesAre ==
  Wakes <=> /\ \A c \in Cpu : Tested(Top(c)) => ~ready
            /\ ready /\ (\E c \in Cpu : Falling(Top(c))) => \E d \in Cpu : Top(d).at = "wake0"
            /\ ready /\ (\E p \in Proc : state[p] = "SLEEPING") => \E d \in Cpu : Waking(Top(d))
  BY DEF Wakes, Tested, Falling, Waking

LEMMA WakesNext ==
  Wakes' <=>
    /\ \A c \in Cpu : Tested(Top(c)') => ~ready'
    /\ ready' /\ (\E c \in Cpu : Falling(Top(c)')) => \E d \in Cpu : Top(d)'.at = "wake0"
    /\ ready' /\ (\E p \in Proc : state'[p] = "SLEEPING") => \E d \in Cpu : Waking(Top(d)')
  BY DEF Wakes, Tested, Falling, Waking

\* A move of which sleep() and wakeup() know nothing.
LEMMA MoveWakes ==
  ASSUME Types, Shapes, Placed, Wakes, NEW c \in Cpu, NEW g \in Frames, Moves(c, g),
         ready' = ready,
         \A p \in Proc : state'[p] = "SLEEPING" => state[p] = "SLEEPING",
         Tested(g) => Tested(Top(c)), Falling(g) => Falling(Top(c)),
         Top(c).at = "wake0" => g.at = "wake0", Waking(Top(c)) => Waking(g)
  PROVE  Wakes'
<1>1. Top(c)' = g /\ \A d \in Cpu \ {c} : Top(d)' = Top(d)
  BY MoveTops
<1>2. \A d \in Cpu : /\ Tested(Top(d)') => Tested(Top(d))
                     /\ Falling(Top(d)') => Falling(Top(d))
                     /\ Top(d).at = "wake0" => Top(d)'.at = "wake0"
                     /\ Waking(Top(d)) => Waking(Top(d)')
  BY <1>1
<1>. QED  BY <1>2, WakesNext, WakesAre

-----------------------------------------------------------------------------
(* Steps.                                                                    *)

\* A CPU that holds a lock is the only one in a frame that does.
LEMMA OneHolder ==
  ASSUME Types, Locks, NEW c \in Cpu, NEW d \in Cpu, c # d
  PROVE  ~(LkAt(Top(c)) /\ LkAt(Top(d))) /\ ~(PtAt(Top(c)) /\ PtAt(Top(d)))
  BY DEF Locks

LEMMA AcquireBeginInv ==
  ASSUME Inv, NEW c \in Cpu, NEW l \in {"lk", "ptable"}, AcquireBegin(c, l)
  PROVE  Inv'
<1>. USE DEF Inv
<1>. DEFINE a == Top(c).at
            f == Top(c)
            g == [at |-> a, ph |-> 1]
<1>1. a \in DOMAIN Acquires /\ Acquires[a] = l /\ f.ph = 0 /\ owner[l] # c /\ f \in Frames
  BY TopIs DEF AcquireBegin, AtAcquire
<1>2. f = Frame(a) /\ g \in Frames
  BY <1>1 DEF Frames, Frame
<1>3. /\ a \in Phased /\ (LkAt(g) <=> LkAt(f)) /\ (PtAt(g) <=> PtAt(f))
  BY <1>1, <1>2, AcquireFrames
<1>4. Depth(g) = Depth(f) + 1 /\ Depth(f) \in Nat
  BY <1>1, <1>3, DepthIs, SMTT(30) DEF Depth, Bit
<1>5. Moves(c, g) /\ Keeps(c)
  BY PhaseMoves DEF AcquireBegin
<1>6. SameKind(a, g.at)
  BY DEF SameKind
<1>. HIDE DEF a, f, g
<1>7. g.at = f.at /\ g.ph = 1 /\ f = Top(c) /\ a = f.at
  BY DEF a, f, g
<1>8. /\ UNCHANGED <<state, cur, owner, saved, scan, ready>>
      /\ ncli' = [ncli EXCEPT ![c] = @ + 1]
      /\ intena' = IF ncli[c] = 0 THEN [intena EXCEPT ![c] = ion[c]] ELSE intena
      /\ ion' = [ion EXCEPT ![c] = FALSE]
  BY DEF AcquireBegin, Pushcli
<1>9. ncli[c] = Depth(f) /\ ncli'[c] = Depth(g) /\ ncli' \in [Cpu -> Nat]
      /\ \A d \in Cpu \ {c} : ncli'[d] = ncli[d]
  BY <1>4, <1>7, <1>8, SMTT(30) DEF Locks, Types
<1>10. Types'
  BY <1>5, <1>8, <1>9 DEF Types, Moves, Stacks
<1>11. Bools'
  BY <1>8 DEF Bools
<1>12. Shapes'
  BY <1>2, <1>3, <1>5, <1>6, <1>7, MoveShapes DEF Moves
<1>13. Placed'
  BY <1>2, <1>5, <1>8, MovePlaced DEF Types
<1>14. Locks'
  BY <1>2, <1>3, <1>5, <1>7, <1>8, <1>9, MoveLocks, SMTT(30) DEF Locks
<1>15. Flags'
  <2>1. \A d \in Cpu \ {c} : ion'[d] = ion[d] /\ intena'[d] = intena[d]
    BY <1>8 DEF Bools
  <2>2. ~ion'[c]
    BY <1>8 DEF Bools
  <2>3. FlagsAt(f, ion[c], intena[c])
    BY <1>7, FlagsAre
  <2>4. CASE Depth(f) = 0
    <3>1. intena'[c] = ion[c]
      BY <1>8, <1>9, <2>4 DEF Bools
    <3>2. a \in ProcBase => a = "lock"
      <4>1. a \in {"lock", "sleep0", "intr0", "wake0", "yield0", "sched0"}
        BY <1>1 DEF Acquires
      <4>2. a # "sleep0"
        BY <2>4, <1>2, <1>7, <1>1, DepthIs DEF LkAt
      <4>. QED  BY <4>1, <4>2 DEF ProcBase
    <3>3. FlagsAt(g, ion'[c], intena'[c])
      BY <3>1, <3>2, <2>2, <2>3, <2>4, <1>4, <1>7, SMTT(30) DEF FlagsAt
    <3>. QED  BY <2>1, <3>3, <1>2, <1>5, <1>8, MoveFlags
  <2>5. CASE Depth(f) # 0
    <3>1. intena'[c] = intena[c]
      BY <1>8, <1>9, <2>5
    <3>2. Depth(f) > 0 /\ Depth(g) > 0
      BY <1>4, <2>5, SMTT(30)
    <3>3. FlagsAt(g, ion'[c], intena'[c])
      BY <3>1, <3>2, <2>2, <2>3, <1>4, <1>7, SMTT(30) DEF FlagsAt
    <3>. QED  BY <2>1, <3>3, <1>2, <1>5, <1>8, MoveFlags
  <2>. QED  BY <2>4, <2>5
<1>16. Wakes'
  <2>1. a # "sleep1" /\ a # "sleep2"
    BY <1>1 DEF Acquires
  <2>2. /\ Tested(g) => Tested(f)
        /\ Falling(g) => Falling(f)
        /\ Waking(f) => Waking(g)
    BY <2>1, <1>7, SMTT(30) DEF Tested, Falling, Waking, Frame
  <2>. QED  BY <2>2, <1>2, <1>5, <1>7, <1>8, MoveWakes
<1>. QED  BY <1>10, <1>11, <1>12, <1>13, <1>14, <1>15, <1>16

LEMMA AcquireEndInv ==
  ASSUME Inv, NEW c \in Cpu, NEW l \in {"lk", "ptable"}, AcquireEnd(c, l)
  PROVE  Inv'
<1>. USE DEF Inv
<1>. DEFINE a == Top(c).at
            f == Top(c)
            b == Following[a]
            g == Frame(b)
<1>1. a \in DOMAIN Acquires /\ Acquires[a] = l /\ f.ph = 1 /\ owner[l] = Nobody /\ f \in Frames
  BY TopIs DEF AcquireEnd, AtAcquire
<1>2. f = [at |-> a, ph |-> 1] /\ b \in Labels /\ g \in Frames /\ SameKind(a, b)
  BY <1>1, AcquireFrames, FrameType DEF Frames
<1>3. /\ l = "lk" => ~LkAt(f) /\ LkAt(g) /\ (PtAt(g) <=> PtAt(f))
      /\ l = "ptable" => ~PtAt(f) /\ PtAt(g) /\ (LkAt(g) <=> LkAt(f))
  BY <1>1, <1>2, AcquireFrames
<1>4. g.at = b /\ g.ph = 0
  BY DEF Frame
<1>5. Moves(c, g) /\ Keeps(c)
  BY <1>2, GotoStacks DEF AcquireEnd, Proceed, Moves
<1>6. a \in {"lock", "sleep0", "intr0", "wake0", "yield0", "sched0"}
  BY <1>1 DEF Acquires
<1>7. /\ a = "lock" => b = "test" /\ l = "lk"
      /\ a = "sleep0" => b = "sleep1" /\ l = "ptable"
      /\ a = "intr0" => b = "intr1" /\ l = "lk"
      /\ a = "wake0" => b = "wake1" /\ l = "ptable"
      /\ a = "yield0" => b = "yield1" /\ l = "ptable"
      /\ a = "sched0" => b = "sched1" /\ l = "ptable"
  BY <1>1, SMTT(30) DEF Acquires, Following
<1>. HIDE DEF a, b, f, g
<1>8. f = Top(c) /\ a = f.at
  BY DEF a, f
<1>9. Depth(g) = Depth(f) /\ Depth(f) > 0
  BY <1>1, <1>3, <1>4, DepthIs, SMTT(30) DEF Depth, Bit
<1>10. /\ UNCHANGED <<state, cur, ncli, intena, ion, saved, scan, ready>>
       /\ owner' = [owner EXCEPT ![l] = c]
  BY DEF AcquireEnd
<1>11. Types'
  BY <1>5, <1>10 DEF Types, Moves, Stacks
<1>12. Bools'
  BY <1>10 DEF Bools
<1>13. Shapes'
  BY <1>2, <1>4, <1>5, <1>8, MoveShapes, SMTT(30) DEF Moves
<1>14. Placed'
  BY <1>2, <1>5, <1>10, MovePlaced DEF Types
<1>15. Locks'
  <2>1. \A d \in Cpu \ {c} : /\ owner'["lk"] = d <=> owner["lk"] = d
                             /\ owner'["ptable"] = d <=> owner["ptable"] = d
    BY <1>1, <1>10, CtxFacts DEF Types
  <2>2. (owner'["lk"] = c <=> LkAt(g)) /\ (owner'["ptable"] = c <=> PtAt(g))
    BY <1>3, <1>8, <1>10 DEF Types, Locks
  <2>3. ncli' = ncli /\ ncli[c] = Depth(g)
    BY <1>8, <1>9, <1>10 DEF Locks
  <2>. QED  BY <2>1, <2>2, <2>3, <1>2, <1>5, MoveLocks
<1>16. Flags'
  <2>1. ion' = ion /\ intena' = intena
    BY <1>10
  <2>2. FlagsAt(f, ion[c], intena[c])
    BY <1>8, FlagsAre
  <2>3. FlagsAt(g, ion[c], intena[c])
    BY <2>2, <1>2, <1>4, <1>8, <1>9, SMTT(30) DEF FlagsAt, SameKind
  <2>. QED  BY <2>1, <2>3, <1>2, <1>5, <1>10, MoveFlags
<1>17. Wakes'
  <2>1. CASE a # "wake0"
    <3>1. /\ Tested(g) => Tested(f)
          /\ Falling(g) => Falling(f)
          /\ Waking(f) => Waking(g)
      BY <2>1, <1>4, <1>6, <1>7, <1>8, SMTT(30) DEF Tested, Falling, Waking, Frame
    <3>. QED  BY <3>1, <2>1, <1>2, <1>5, <1>8, <1>10, MoveWakes
  <2>2. CASE a = "wake0"
    <3>1. Top(c)' = g /\ \A d \in Cpu \ {c} : Top(d)' = Top(d)
      BY <1>2, <1>5, MoveTops
    <3>2. b = "wake1" /\ l = "ptable"
      BY <2>2, <1>7
    <3>3. \A d \in Cpu : ~PtAt(Top(d))
      BY <1>1, <3>2, CtxFacts, SMTT(30) DEF Locks
    <3>4. \A d \in Cpu : ~Falling(Top(d)')
      BY <3>1, <3>2, <3>3, <1>4, SMTT(30) DEF Falling, PtAt
    <3>5. \A d \in Cpu : Tested(Top(d)') => Tested(Top(d))
      BY <3>1, <3>2, <1>4, SMTT(30) DEF Tested, Frame
    <3>6. Waking(Top(c)')
      BY <3>1, <3>2, <1>4 DEF Waking
    <3>. QED  BY <3>4, <3>5, <3>6, WakesNext, <1>10, WakesAre
  <2>. QED  BY <2>1, <2>2
<1>. QED  BY <1>11, <1>12, <1>13, <1>14, <1>15, <1>16, <1>17

LEMMA ReleaseBeginInv ==
  ASSUME Inv, NEW c \in Cpu, NEW l \in {"lk", "ptable"}, ReleaseBegin(c, l)
  PROVE  Inv'
<1>. USE DEF Inv
<1>. DEFINE a == Top(c).at
            f == Top(c)
            g == [at |-> a, ph |-> 1]
<1>1. a \in DOMAIN Releases /\ Releases[a] = l /\ f.ph = 0 /\ owner[l] = c /\ f \in Frames
  BY TopIs DEF ReleaseBegin, AtRelease
<1>2. f = Frame(a) /\ g \in Frames
  BY <1>1 DEF Frames, Frame
<1>3. /\ a \in Phased
      /\ l = "lk" => LkAt(f) /\ ~LkAt(g) /\ (PtAt(g) <=> PtAt(f))
      /\ l = "ptable" => PtAt(f) /\ ~PtAt(g) /\ (LkAt(g) <=> LkAt(f))
  BY <1>1, <1>2, ReleaseFrames, SMTT(30)
<1>5. Moves(c, g) /\ Keeps(c)
  BY PhaseMoves DEF ReleaseBegin
<1>6. SameKind(a, g.at)
  BY DEF SameKind
<1>. HIDE DEF a, f, g
<1>7. g.at = f.at /\ g.ph = 1 /\ f = Top(c) /\ a = f.at
  BY DEF a, f, g
<1>8. Depth(g) = Depth(f) /\ Depth(f) > 0
  BY <1>1, <1>3, <1>7, DepthIs, SMTT(30) DEF Depth, Bit
<1>9. /\ UNCHANGED <<state, cur, ncli, intena, ion, saved, scan, ready>>
      /\ owner' = [owner EXCEPT ![l] = Nobody]
  BY DEF ReleaseBegin
<1>10. Types'
  BY <1>5, <1>9 DEF Types, Moves, Stacks
<1>11. Bools'
  BY <1>9 DEF Bools
<1>12. Shapes'
  BY <1>2, <1>3, <1>5, <1>6, <1>7, MoveShapes DEF Moves
<1>13. Placed'
  BY <1>2, <1>5, <1>9, MovePlaced DEF Types
<1>14. Locks'
  <2>1. \A d \in Cpu \ {c} : /\ owner'["lk"] = d <=> owner["lk"] = d
                             /\ owner'["ptable"] = d <=> owner["ptable"] = d
    BY <1>1, <1>9, CtxFacts DEF Types
  <2>2. (owner'["lk"] = c <=> LkAt(g)) /\ (owner'["ptable"] = c <=> PtAt(g))
    BY <1>3, <1>7, <1>9, CtxFacts DEF Types, Locks
  <2>3. ncli' = ncli /\ ncli[c] = Depth(g)
    BY <1>7, <1>8, <1>9 DEF Locks
  <2>. QED  BY <2>1, <2>2, <2>3, <1>2, <1>5, MoveLocks
<1>15. Flags'
  <2>1. ion' = ion /\ intena' = intena
    BY <1>9
  <2>2. FlagsAt(f, ion[c], intena[c])
    BY <1>7, FlagsAre
  <2>3. FlagsAt(g, ion[c], intena[c])
    BY <2>2, <1>7, <1>8 DEF FlagsAt
  <2>. QED  BY <2>1, <2>3, <1>2, <1>5, <1>9, MoveFlags
<1>16. Wakes'
  <2>1. CASE a # "sleep1"
    <3>1. /\ Tested(g) => Tested(f)
          /\ Falling(g) => Falling(f)
          /\ Waking(f) => Waking(g)
      BY <2>1, <1>7, SMTT(30) DEF Tested, Falling, Waking, Frame
    <3>. QED  BY <3>1, <1>2, <1>5, <1>7, <1>9, MoveWakes
  <2>2. CASE a = "sleep1"
    <3>1. ~ready
      BY <1>2, <1>7, <2>2, WakesAre DEF Tested
    <3>. QED  BY <3>1, <1>9 DEF Wakes
  <2>. QED  BY <2>1, <2>2
<1>. QED  BY <1>10, <1>11, <1>12, <1>13, <1>14, <1>15, <1>16

LEMMA ReleaseEndInv ==
  ASSUME Inv, NEW c \in Cpu, NEW l \in {"lk", "ptable"}, ReleaseEnd(c, l)
  PROVE  Inv'
<1>. USE DEF Inv
<1>. DEFINE a == Top(c).at
            f == Top(c)
            b == Following[a]
            g == Frame(b)
<1>1. a \in DOMAIN Releases /\ Releases[a] = l /\ f.ph = 1 /\ f \in Frames
  BY TopIs DEF ReleaseEnd, AtRelease
<1>2. f = [at |-> a, ph |-> 1] /\ b \in Labels /\ g \in Frames /\ SameKind(a, b)
  BY <1>1, ReleaseFrames, FrameType DEF Frames
<1>3. (LkAt(g) <=> LkAt(f)) /\ (PtAt(g) <=> PtAt(f))
  BY <1>1, <1>2, ReleaseFrames, SMTT(30)
<1>4. g.at = b /\ g.ph = 0
  BY DEF Frame
<1>5. Moves(c, g) /\ Keeps(c)
  BY <1>2, GotoStacks DEF ReleaseEnd, Proceed, Moves
<1>6. a \in {"unlock", "sleep1", "sleep3", "wake2", "intr2", "yield2", "sched2", "forkret"}
  BY <1>1 DEF Releases
<1>7. /\ a = "unlock" => b = "user"
      /\ a = "sleep1" => b = "sleep2"
      /\ a = "sleep3" => b = "lock"
      /\ a = "wake2" => b = "intr2"
      /\ a = "intr2" => b = "iret"
      /\ a = "yield2" => b = "iret"
      /\ a = "sched2" => b = "sti"
      /\ a = "forkret" => b = "trapret"
  BY SMTT(30) DEF Following
<1>. HIDE DEF a, b, f, g
<1>8. f = Top(c) /\ a = f.at
  BY DEF a, f
<1>9. Depth(f) = Depth(g) + 1 /\ Depth(g) \in Nat
  BY <1>1, <1>2, <1>3, <1>4, DepthIs, SMTT(30) DEF Depth, Bit
<1>10. /\ UNCHANGED <<state, cur, owner, intena, saved, scan, ready>>
       /\ ncli' = [ncli EXCEPT ![c] = @ - 1]
       /\ ion' = [ion EXCEPT ![c] = ncli[c] = 1 /\ intena[c]]
  BY DEF ReleaseEnd, Popcli
<1>11. ncli[c] = Depth(f) /\ ncli'[c] = Depth(g) /\ ncli' \in [Cpu -> Nat]
       /\ \A d \in Cpu \ {c} : ncli'[d] = ncli[d]
  BY <1>8, <1>9, <1>10, SMTT(30) DEF Locks, Types
<1>12. Types'
  BY <1>5, <1>10, <1>11 DEF Types, Moves, Stacks
<1>13. Bools'
  BY <1>10 DEF Bools
<1>14. Shapes'
  BY <1>2, <1>4, <1>5, <1>8, MoveShapes, SMTT(30) DEF Moves
<1>15. Placed'
  BY <1>2, <1>5, <1>10, MovePlaced DEF Types
<1>16. Locks'
  BY <1>2, <1>3, <1>5, <1>8, <1>10, <1>11, MoveLocks DEF Locks
<1>17. Flags'
  <2>1. \A d \in Cpu \ {c} : ion'[d] = ion[d] /\ intena'[d] = intena[d]
    BY <1>10 DEF Bools
  <2>2. FlagsAt(f, ion[c], intena[c])
    BY <1>8, FlagsAre
  <2>3. intena'[c] = intena[c] /\ (Depth(g) > 0 => ~ion'[c]) /\ (Depth(g) = 0 => (ion'[c] <=> intena[c]))
    <3>1. ion'[c] <=> ncli[c] = 1 /\ intena[c]
      BY <1>10 DEF Bools
    <3>2. ncli[c] = 1 <=> Depth(g) = 0
      BY <1>9, <1>11, SMTT(30)
    <3>3. Depth(g) > 0 => Depth(g) # 0
      BY SMTT(30)
    <3>. QED  BY <3>1, <3>2, <3>3, <1>10
  <2>4. (b \in ProcBase <=> a \in ProcBase) /\ (b \in Handler <=> a \in Handler) /\ Depth(f) > 0
    BY <1>2, <1>9, SMTT(30) DEF SameKind
  <2>5. b \in {"user", "lock", "sched0"} => b \in ProcBase
    BY <1>6, <1>7 DEF ProcBase
  <2>6. /\ a \in ProcBase => intena[c]
        /\ a \in Handler => ~intena[c]
    BY <2>2, <2>4, <1>8 DEF FlagsAt
  <2>7. FlagsAt(g, ion'[c], intena'[c])
    BY <2>3, <2>4, <2>5, <2>6, <1>4, <1>9, SMTT(30) DEF FlagsAt
  <2>. QED  BY <2>1, <2>7, <1>2, <1>5, <1>10, MoveFlags
<1>18. Wakes'
  <2>1. /\ Tested(g) => Tested(f)
        /\ Falling(g) => Falling(f)
        /\ ~Waking(f) /\ f.at # "wake0"
    BY <1>2, <1>4, <1>6, <1>7, <1>8, SMTT(30) DEF Tested, Falling, Waking, Frame
  <2>. QED  BY <2>1, <1>2, <1>5, <1>8, <1>10, MoveWakes
<1>. QED  BY <1>12, <1>13, <1>14, <1>15, <1>16, <1>17, <1>18

LEMMA Unphased ==
  ASSUME Types, Shapes, NEW c \in Cpu, Top(c).at \notin Phased
  PROVE  Top(c) = Frame(Top(c).at) /\ Top(c).at \in Labels
  BY TopIs DEF Shape, Frames, Frame

\* A plain step, that takes or releases no lock.
LEMMA PlainMove ==
  ASSUME Inv, NEW c \in Cpu, NEW a, NEW b \in Labels, At(c, a), a \notin Phased, Goto(c, b),
         SameKind(a, b), LkAt(Frame(b)) <=> LkAt(Frame(a)), PtAt(Frame(b)) <=> PtAt(Frame(a)),
         UNCHANGED <<cur, owner, ncli>>,
         state' \in [Proc -> {"SLEEPING", "RUNNABLE", "RUNNING"}],
         \A p \in Proc : /\ state'[p] = "RUNNING" <=> state[p] = "RUNNING"
                         /\ state'[p] = "SLEEPING" => state[p] = "SLEEPING"
  PROVE  /\ Top(c) = Frame(a) /\ Frame(b) \in Frames /\ Moves(c, Frame(b))
         /\ Depth(Frame(b)) = Depth(Frame(a))
         /\ Shapes' /\ Placed' /\ Locks'
<1>. USE DEF Inv
<1>1. Top(c) = Frame(a) /\ Frame(b) \in Frames /\ Moves(c, Frame(b)) /\ Keeps(c)
  BY Unphased, FrameType, GotoStacks DEF At, Moves
<1>2. Depth(Frame(b)) = Depth(Frame(a))
  BY DEF Depth, Bit, Frame
<1>3. Shapes'
  <2>1. Frame(b).at = b /\ Frame(b).ph = 0
    BY DEF Frame
  <2>. QED  BY <1>1, <2>1, MoveShapes, SMTT(30) DEF At, Moves
<1>4. Placed'
  BY <1>1, MovePlaced
<1>5. Locks'
  BY <1>1, <1>2, MoveLocks, SMTT(30) DEF Locks
<1>. QED  BY <1>1, <1>2, <1>3, <1>4, <1>5

LEMMA EnterInv ==
  ASSUME Inv, NEW c \in Cpu, Enter(c)
  PROVE  Inv'
<1>. USE DEF Inv
<1>. DEFINE f == Frame("user")
            g == Frame("lock")
<1>1. /\ At(c, "user") /\ Goto(c, "lock")
      /\ UNCHANGED <<state, cur, owner, ncli, intena, ion, saved, scan, ready>>
  BY SMTT(30) DEF Enter, Proceed, At, Following
<1>2. /\ "lock" \in Labels /\ "user" \notin Phased /\ SameKind("user", "lock")
      /\ LkAt(g) <=> LkAt(f)
      /\ PtAt(g) <=> PtAt(f)
  BY LabelsAre DEF Phased, SameKind, ProcBase, SchedBase, Starting, Handler, Clock, LkAt, PtAt, Frame
<1>3. /\ Top(c) = f /\ g \in Frames /\ Moves(c, g)
      /\ Depth(g) = Depth(f)
      /\ Shapes' /\ Placed' /\ Locks'
  BY <1>1, <1>2, PlainMove DEF Types
<1>. HIDE DEF f, g
<1>4. Types'
  BY <1>1, <1>3 DEF Types, Moves, Stacks
<1>5. Bools'
  BY <1>1 DEF Bools
<1>6. Flags'
  <2>1. FlagsAt(f, ion[c], intena[c])
    BY <1>3, FlagsAre
  <2>2. f.at = "user" /\ g.at = "lock"
    BY DEF f, g, Frame
  <2>3. FlagsAt(g, ion[c], intena[c])
    BY <2>1, <2>2, <1>3 DEF FlagsAt, Handler, ProcBase
  <2>. QED  BY <2>3, <1>1, <1>3, MoveFlags
<1>7. Wakes'
  <2>1. ~Tested(g) /\ ~Falling(g) /\ ~Waking(f) /\ f.at # "wake0"
    BY DEF f, g, Tested, Falling, Waking, Frame
  <2>. QED  BY <2>1, <1>1, <1>3, MoveWakes
<1>. QED  BY <1>3, <1>4, <1>5, <1>6, <1>7

LEMMA TestInv ==
  ASSUME Inv, NEW c \in Cpu, Test(c)
  PROVE  Inv'
<1>. USE DEF Inv
<1>. PICK b \in {"unlock", "sleep0"} : Goto(c, b)
  BY DEF Test
<1>. DEFINE f == Frame("test")
            g == Frame(b)
<1>1. /\ At(c, "test")
      /\ UNCHANGED <<state, cur, owner, ncli, intena, ion, saved, scan>> /\ ready' = FALSE
  BY DEF Test
<1>2. /\ b \in Labels /\ "test" \notin Phased /\ SameKind("test", b)
      /\ LkAt(g) <=> LkAt(f)
      /\ PtAt(g) <=> PtAt(f)
  BY LabelsAre DEF Phased, SameKind, ProcBase, SchedBase, Starting, Handler, Clock, LkAt, PtAt, Frame
<1>3. /\ Top(c) = f /\ g \in Frames /\ Moves(c, g)
      /\ Depth(g) = Depth(f)
      /\ Shapes' /\ Placed' /\ Locks'
  BY <1>1, <1>2, PlainMove DEF Types
<1>4. LkAt(f) /\ f \in Frames
  BY FrameType, LabelsAre DEF LkAt, Frame
<1>. HIDE DEF f, g
<1>5. Types'
  BY <1>1, <1>3 DEF Types, Moves, Stacks
<1>6. Bools'
  BY <1>1 DEF Bools
<1>7. Flags'
  <2>1. FlagsAt(f, ion[c], intena[c])
    BY <1>3, FlagsAre
  <2>2. f.at = "test" /\ g.at = b /\ Depth(f) > 0
    BY <1>4, DepthIs DEF f, g, Frame
  <2>3. FlagsAt(g, ion[c], intena[c])
    BY <2>1, <2>2, <1>3 DEF FlagsAt, Handler, ProcBase
  <2>. QED  BY <2>3, <1>1, <1>3, MoveFlags
<1>8. Wakes'
  BY <1>1 DEF Wakes
<1>. QED  BY <1>3, <1>5, <1>6, <1>7, <1>8

LEMMA StiInv ==
  ASSUME Inv, NEW c \in Cpu, Sti(c)
  PROVE  Inv'
<1>. USE DEF Inv
<1>. DEFINE f == Frame("sti")
            g == Frame("sched0")
<1>1. /\ At(c, "sti") /\ Goto(c, "sched0")
      /\ ion' = [ion EXCEPT ![c] = TRUE] /\ scan' = [scan EXCEPT ![c] = 1]
      /\ UNCHANGED <<state, cur, owner, ncli, intena, saved, ready>>
  BY SMTT(30) DEF Sti, Proceed, At, Following
<1>2. /\ "sched0" \in Labels /\ "sti" \notin Phased /\ SameKind("sti", "sched0")
      /\ LkAt(g) <=> LkAt(f)
      /\ PtAt(g) <=> PtAt(f)
  BY LabelsAre DEF Phased, SameKind, ProcBase, SchedBase, Starting, Handler, Clock, LkAt, PtAt, Frame
<1>3. /\ Top(c) = f /\ g \in Frames /\ Moves(c, g)
      /\ Shapes' /\ Placed' /\ Locks'
  BY <1>1, <1>2, PlainMove DEF Types
<1>4. Depth(g) = 0
  BY SMTT(30) DEF Depth, Bit, LkAt, PtAt, Frame
<1>. HIDE DEF f, g
<1>5. Types'
  <2>1. scan' \in [Cpu -> 1 .. NPROC + 1]
    BY <1>1, CtxFacts, SMTT(30) DEF Types
  <2>. QED  BY <2>1, <1>1, <1>3 DEF Types, Moves, Stacks
<1>6. Bools'
  BY <1>1 DEF Bools
<1>7. Flags'
  <2>1. ion'[c] = TRUE /\ \A d \in Cpu \ {c} : ion'[d] = ion[d]
    BY <1>1 DEF Bools
  <2>2. g.at = "sched0"
    BY DEF g, Frame
  <2>3. FlagsAt(g, ion'[c], intena'[c])
    BY <2>1, <2>2, <1>4, SMTT(30) DEF FlagsAt, Handler
  <2>. QED  BY <2>1, <2>3, <1>1, <1>3, MoveFlags
<1>8. Wakes'
  <2>1. ~Tested(g) /\ ~Falling(g) /\ ~Waking(f) /\ f.at # "wake0"
    BY DEF f, g, Tested, Falling, Waking, Frame
  <2>. QED  BY <2>1, <1>1, <1>3, MoveWakes
<1>. QED  BY <1>3, <1>5, <1>6, <1>7, <1>8

LEMMA ScanDoneInv ==
  ASSUME Inv, NEW c \in Cpu, ScanDone(c)
  PROVE  Inv'
<1>. USE DEF Inv
<1>. DEFINE f == Frame("sched1")
            g == Frame("sched2")
<1>1. /\ At(c, "sched1") /\ Goto(c, "sched2")
      /\ UNCHANGED <<state, cur, owner, ncli, intena, ion, saved, scan, ready>>
  BY DEF ScanDone
<1>2. /\ "sched2" \in Labels /\ "sched1" \notin Phased /\ SameKind("sched1", "sched2")
      /\ LkAt(g) <=> LkAt(f)
      /\ PtAt(g) <=> PtAt(f)
  BY LabelsAre DEF Phased, SameKind, ProcBase, SchedBase, Starting, Handler, Clock, LkAt, PtAt, Frame
<1>3. /\ Top(c) = f /\ g \in Frames /\ Moves(c, g)
      /\ Depth(g) = Depth(f)
      /\ Shapes' /\ Placed' /\ Locks'
  BY <1>1, <1>2, PlainMove DEF Types
<1>. HIDE DEF f, g
<1>4. Types'
  BY <1>1, <1>3 DEF Types, Moves, Stacks
<1>5. Bools'
  BY <1>1 DEF Bools
<1>6. Flags'
  <2>1. FlagsAt(f, ion[c], intena[c])
    BY <1>3, FlagsAre
  <2>2. f.at = "sched1" /\ g.at = "sched2"
    BY DEF f, g, Frame
  <2>3. FlagsAt(g, ion[c], intena[c])
    BY <2>1, <2>2, <1>3 DEF FlagsAt, Handler, ProcBase
  <2>. QED  BY <2>3, <1>1, <1>3, MoveFlags
<1>7. Wakes'
  <2>1. ~Tested(g) /\ ~Falling(g) /\ ~Waking(f) /\ f.at # "wake0"
    BY DEF f, g, Tested, Falling, Waking, Frame
  <2>. QED  BY <2>1, <1>1, <1>3, MoveWakes
<1>. QED  BY <1>3, <1>4, <1>5, <1>6, <1>7

\* idequeue is served under lk: whoever has tested the flag has slept by then.
LEMMA SetReadyInv ==
  ASSUME Inv, NEW c \in Cpu, SetReady(c)
  PROVE  Inv'
<1>. USE DEF Inv
<1>. DEFINE f == Frame("intr1")
            g == Frame("wake0")
<1>1. /\ At(c, "intr1") /\ Goto(c, "wake0") /\ ready' = TRUE
      /\ UNCHANGED <<state, cur, owner, ncli, intena, ion, saved, scan>>
  BY SMTT(30) DEF SetReady, Proceed, At, Following
<1>2. /\ "wake0" \in Labels /\ "intr1" \notin Phased /\ SameKind("intr1", "wake0")
      /\ LkAt(g) <=> LkAt(f)
      /\ PtAt(g) <=> PtAt(f)
  BY LabelsAre DEF Phased, SameKind, ProcBase, SchedBase, Starting, Handler, Clock, LkAt, PtAt, Frame
<1>3. /\ Top(c) = f /\ g \in Frames /\ Moves(c, g)
      /\ Depth(g) = Depth(f)
      /\ Shapes' /\ Placed' /\ Locks'
  BY <1>1, <1>2, PlainMove DEF Types
<1>4. f.at = "intr1" /\ g.at = "wake0" /\ LkAt(f)
  BY DEF Frame, LkAt
<1>. HIDE DEF f, g
<1>5. Types'
  BY <1>1, <1>3 DEF Types, Moves, Stacks
<1>6. Bools'
  BY <1>1 DEF Bools
<1>7. Flags'
  <2>1. FlagsAt(f, ion[c], intena[c])
    BY <1>3, FlagsAre
  <2>2. FlagsAt(g, ion[c], intena[c])
    BY <2>1, <1>3, <1>4 DEF FlagsAt, Handler, ProcBase
  <2>. QED  BY <2>2, <1>1, <1>3, MoveFlags
<1>8. Wakes'
  <2>1. Top(c)' = g /\ \A d \in Cpu \ {c} : Top(d)' = Top(d)
    BY <1>3, MoveTops
  <2>2. \A d \in Cpu \ {c} : ~LkAt(Top(d))
    BY <1>3, <1>4, OneHolder
  <2>3. \A d \in Cpu : ~Tested(Top(d)')
    <3>1. ~Tested(g)
      BY <1>4, SMTT(30) DEF Tested, Frame
    <3>2. \A d \in Cpu \ {c} : ~Tested(Top(d))
      BY <2>2, SMTT(30) DEF Tested, LkAt, Frame
    <3>. QED  BY <2>1, <3>1, <3>2
  <2>4. Top(c)'.at = "wake0" /\ Waking(Top(c)')
    BY <1>4, <2>1 DEF Waking
  <2>. QED  BY <2>3, <2>4, WakesNext
<1>. QED  BY <1>3, <1>5, <1>6, <1>7, <1>8

LEMMA WakeupInv ==
  ASSUME Inv, NEW c \in Cpu, Wakeup(c)
  PROVE  Inv'
<1>. USE DEF Inv
<1>. DEFINE f == Frame("wake1")
            g == Frame("wake2")
<1>1. /\ At(c, "wake1") /\ Goto(c, "wake2")
      /\ state' = [p \in Proc |-> IF state[p] = "SLEEPING" THEN "RUNNABLE" ELSE state[p]]
      /\ UNCHANGED <<cur, owner, ncli, intena, ion, saved, scan, ready>>
  BY SMTT(30) DEF Wakeup, Proceed, At, Following
<1>2. /\ "wake2" \in Labels /\ "wake1" \notin Phased /\ SameKind("wake1", "wake2")
      /\ LkAt(g) <=> LkAt(f)
      /\ PtAt(g) <=> PtAt(f)
  BY LabelsAre DEF Phased, SameKind, ProcBase, SchedBase, Starting, Handler, Clock, LkAt, PtAt, Frame
<1>3. /\ state' \in [Proc -> {"SLEEPING", "RUNNABLE", "RUNNING"}]
      /\ \A p \in Proc : /\ state'[p] = "RUNNING" <=> state[p] = "RUNNING"
                         /\ state'[p] # "SLEEPING"
  BY <1>1 DEF Types
<1>4. /\ Top(c) = f /\ g \in Frames /\ Moves(c, g)
      /\ Depth(g) = Depth(f)
      /\ Shapes' /\ Placed' /\ Locks'
  BY <1>1, <1>2, <1>3, PlainMove
<1>5. f.at = "wake1" /\ g.at = "wake2" /\ PtAt(f)
  BY DEF Frame, PtAt
<1>. HIDE DEF f, g
<1>6. Types'
  BY <1>1, <1>3, <1>4 DEF Types, Moves, Stacks
<1>7. Bools'
  BY <1>1 DEF Bools
<1>8. Flags'
  <2>1. FlagsAt(f, ion[c], intena[c])
    BY <1>4, FlagsAre
  <2>2. FlagsAt(g, ion[c], intena[c])
    BY <2>1, <1>4, <1>5 DEF FlagsAt, Handler, ProcBase
  <2>. QED  BY <2>2, <1>1, <1>3, <1>4, MoveFlags
<1>9. Wakes'
  <2>1. Top(c)' = g /\ \A d \in Cpu \ {c} : Top(d)' = Top(d)
    BY <1>4, MoveTops
  <2>2. \A d \in Cpu \ {c} : ~PtAt(Top(d))
    BY <1>4, <1>5, OneHolder
  <2>3. \A d \in Cpu : ~Falling(Top(d)')
    BY <2>1, <2>2, <1>5, SMTT(30) DEF Falling, PtAt
  <2>4. \A d \in Cpu : Tested(Top(d)') => Tested(Top(d))
    BY <2>1, <1>5, SMTT(30) DEF Tested, Frame
  <2>. QED  BY <2>3, <2>4, WakesNext, <1>1, <1>3, WakesAre
<1>. QED  BY <1>4, <1>6, <1>7, <1>8, <1>9

\* sched(): the process keeps its frames, and the CPU goes on in its scheduler.
LEMMA SwitchOutInv ==
  ASSUME Inv, NEW c \in Cpu, Sleep(c) \/ YieldCpu(c)
  PROVE  Inv'
<1>. USE DEF Inv
<1>. PICK a \in {"sleep2", "yield1"} :
       At(c, a) /\ SwitchOut(c, IF a = "sleep2" THEN "SLEEPING" ELSE "RUNNABLE")
  BY DEF Sleep, YieldCpu
<1>. PICK st \in {"SLEEPING", "RUNNABLE"} : st = IF a = "sleep2" THEN "SLEEPING" ELSE "RUNNABLE"
  OBVIOUS
<1>. PICK b \in {"sleep3", "yield2"} : b = IF a = "sleep2" THEN "sleep3" ELSE "yield2"
  OBVIOUS
<1>1. Top(c) = Frame(a) /\ Top(c).at = a
  BY Unphased DEF At, Phased
<1>. PICK x \in Ctx : x = cur[c]
  BY TopIs
<1>2. x \in Proc /\ x # c /\ x \notin Cpu
  BY <1>1, TopIs, CtxFacts, SMTT(30) DEF Shape, ProcBase, Clock
<1>3. /\ state' = [state EXCEPT ![x] = st]
      /\ saved' = [saved EXCEPT ![x] = intena[c]]
      /\ Goto(c, b)
      /\ cur' = [cur EXCEPT ![c] = c]
      /\ UNCHANGED <<owner, ncli, intena, ion, scan, ready>>
  BY <1>1, SMTT(30) DEF SwitchOut, Proceed, Following
<1>4. b \in Labels /\ Frame(b) \in Frames /\ SameKind(a, b) /\ Frame(b).at = b /\ Frame(b).ph = 0
  BY LabelsAre, FrameType DEF SameKind, ProcBase, SchedBase, Starting, Handler, Clock, Frame
<1>5. Stacks(c, Frame(b)) /\ Keeps(c)
  BY <1>3, <1>4, GotoStacks
<1>6. /\ stk' \in [Ctx -> Seq(Frames)] /\ stk'[x][1] = Frame(b)
      /\ \A y \in Ctx : y # x => stk'[y] = stk[y]
  BY <1>5 DEF Stacks
<1>7. cur' \in [Cpu -> Ctx] /\ cur'[c] = c /\ \A d \in Cpu \ {c} : cur'[d] = cur[d]
  BY <1>3, CtxFacts DEF Types
<1>8. /\ state' \in [Proc -> {"SLEEPING", "RUNNABLE", "RUNNING"}]
      /\ state'[x] = st /\ \A p \in Proc \ {x} : state'[p] = state[p]
  BY <1>2, <1>3 DEF Types
<1>9. Types'
  BY <1>3, <1>6, <1>7, <1>8 DEF Types
<1>10. Bools'
  BY <1>3 DEF Bools
<1>11. Shapes'
  BY <1>1, <1>4, <1>5, MoveShapes, SMTT(30)
<1>12. \A d \in Cpu \ {c} : cur[d] # x /\ cur[d] # c
  BY <1>2, CtxFacts, SMTT(30) DEF Placed, OneCpuEach
<1>13. Placed'
  <2>1. OneCpuEach'
    <3>1. \A p \in Proc : state'[p] = "RUNNING" <=> \E d \in Cpu : cur'[d] = p
      <4>1. state'[x] # "RUNNING" /\ ~\E d \in Cpu : cur'[d] = x
        BY <1>2, <1>7, <1>8, <1>12, SMTT(30)
      <4>2. ASSUME NEW p \in Proc \ {x}
            PROVE  (\E d \in Cpu : cur'[d] = p) <=> (\E d \in Cpu : cur[d] = p)
        BY <1>7, CtxFacts
      <4>. QED  BY <4>1, <4>2, <1>8, SMTT(30) DEF Placed, OneCpuEach
    <3>2. \A d, e \in Cpu : cur'[d] = cur'[e] => d = e
      BY <1>7, <1>12, SMTT(30) DEF Placed, OneCpuEach
    <3>. QED  BY <3>1, <3>2 DEF OneCpuEach
  <2>2. \A d \in Cpu : cur'[d] \in Proc \cup {d}
    BY <1>7 DEF Placed
  <2>3. \A d \in Cpu : cur'[d] # d => stk'[d][1] = Frame("sched1")
    BY <1>2, <1>6, <1>7, CtxFacts DEF Placed
  <2>4. \A p \in Proc : state'[p] # "RUNNING" =>
          stk'[p][1] \in {Frame("sleep3"), Frame("yield2"), Frame("forkret")}
    BY <1>6, <1>8, CtxFacts DEF Placed
  <2>5. \A p \in Proc : state'[p] = "SLEEPING" => stk'[p][1] = Frame("sleep3")
    BY <1>6, <1>8, CtxFacts DEF Placed
  <2>. QED  BY <2>1, <2>2, <2>3, <2>4, <2>5 DEF Placed
<1>14. Top(c)' = Frame("sched1")
  <2>1. stk'[c] = stk[c] /\ stk[c][1] = Frame("sched1")
    BY <1>2, <1>6, CtxFacts DEF Placed
  <2>2. Top(c)' = stk'[cur'[c]][1]
    BY <1>9, <1>11, TopIsNext
  <2>. QED  BY <2>1, <2>2, <1>7
<1>15. \A d \in Cpu \ {c} : Top(d)' = Top(d)
  BY <1>6, <1>7, <1>12, TopIs DEF Top
<1>16. /\ ~LkAt(Frame(a)) /\ PtAt(Frame(a)) /\ Depth(Frame(a)) = 1
       /\ ~LkAt(Frame("sched1")) /\ PtAt(Frame("sched1")) /\ Depth(Frame("sched1")) = 1
  BY SMTT(30) DEF LkAt, PtAt, Depth, Bit, Frame
<1>17. Locks'
  <2>1. ASSUME NEW d \in Cpu
        PROVE /\ owner'["lk"] = d <=> LkAt(Top(d)')
              /\ owner'["ptable"] = d <=> PtAt(Top(d)')
              /\ ncli'[d] = Depth(Top(d)')
    BY <1>1, <1>3, <1>14, <1>15, <1>16, SMTT(30) DEF Locks
  <2>. QED  BY <2>1 DEF Locks, LkAt, PtAt, Depth, Bit
<1>18. Flags'
  <2>1. FlagsAt(Frame(a), ion[c], intena[c])
    BY <1>1, FlagsAre
  <2>2. Frame("sched1").at = "sched1" /\ Frame(a).at = a
    BY DEF Frame
  <2>3. FlagsAt(Frame("sched1"), ion[c], intena[c])
    BY <2>1, <2>2, <1>16 DEF FlagsAt, ProcBase, Handler
  <2>4. (a = "sleep2" => intena[c]) /\ (a = "yield1" => ~intena[c])
    BY <2>1, <2>2, <1>16, SMTT(30) DEF FlagsAt, ProcBase, Handler
  <2>5. saved'[x] = intena[c] /\ \A p \in Proc \ {x} : saved'[p] = saved[p]
    BY <1>2, <1>3 DEF Bools
  <2>6. SavedAt(stk'[x][1], saved'[x])
    BY <2>4, <2>5, <1>6, SMTT(30) DEF SavedAt, Frame
  <2>7. ASSUME NEW p \in Proc, state'[p] # "RUNNING", p # x PROVE SavedAt(stk'[p][1], saved'[p])
    <3>1. SavedAt(stk[p][1], saved[p])
      BY <2>7, <1>8, FlagsAre
    <3>. QED  BY <3>1, <2>5, <2>7, <1>6, CtxFacts
  <2>8. ASSUME NEW d \in Cpu \ {c} PROVE FlagsAt(Top(d)', ion'[d], intena'[d])
    BY <1>3, <1>15, FlagsAre
  <2>. QED  BY <2>3, <2>6, <2>7, <2>8, <1>3, <1>14, FlagsNext
<1>19. Wakes'
  <2>1. ~Tested(Top(c)') /\ ~Falling(Top(c)') /\ ~Waking(Top(c)) /\ Top(c).at # "wake0"
    BY <1>1, <1>14, SMTT(30) DEF Tested, Falling, Waking, Frame
  <2>2. \A d \in Cpu : Tested(Top(d)') => Tested(Top(d))
    BY <2>1, <1>15
  <2>3. \A d \in Cpu : Falling(Top(d)') => Falling(Top(d))
    BY <2>1, <1>15
  <2>4. \A d \in Cpu : Top(d).at = "wake0" => Top(d)'.at = "wake0" /\ Waking(Top(d)')
    BY <2>1, <1>15 DEF Waking
  <2>5. \A d \in Cpu : Waking(Top(d)) => Waking(Top(d)')
    BY <2>1, <1>15
  <2>6. ASSUME NEW p \in Proc, state'[p] = "SLEEPING", ready PROVE \E d \in Cpu : Waking(Top(d)')
    <3>1. CASE p = x
      <4>1. Falling(Top(c))
        BY <3>1, <2>6, <1>1, <1>8 DEF Falling
      <4>. QED  BY <4>1, <2>4, <2>6, WakesAre
    <3>2. CASE p # x
      BY <3>2, <2>5, <2>6, <1>8, WakesAre
    <3>. QED  BY <3>1, <3>2
  <2>. QED  BY <2>2, <2>3, <2>4, <2>6, <1>3, WakesAre, WakesNext
<1>. QED  BY <1>9, <1>10, <1>11, <1>13, <1>17, <1>18, <1>19

\* The scheduler resumes a process in sched(), or a new one in forkret().
LEMMA SwitchInv ==
  ASSUME Inv, NEW c \in Cpu, Switch(c)
  PROVE  Inv'
<1>. USE DEF Inv
<1>1. Top(c) = Frame("sched1") /\ cur[c] = c
  <2>1. Top(c) = Frame("sched1")
    BY Unphased DEF Switch, At, Phased
  <2>2. stk[cur[c]][1].at = "sched1" /\ Shape(cur[c])
    BY <2>1, TopIs, SMTT(30) DEF Frame
  <2>3. cur[c] \in Cpu
    BY <2>2 DEF Shape, SchedBase
  <2>. QED  BY <2>1, <2>3, CtxFacts DEF Placed
<1>. PICK p \in scan[c] .. NPROC :
       /\ state[p] = "RUNNABLE"
       /\ state' = [state EXCEPT ![p] = "RUNNING"]
       /\ cur' = [cur EXCEPT ![c] = p]
       /\ scan' = [scan EXCEPT ![c] = ScanNext(p)]
       /\ intena' = Restored(c, p)
  BY DEF Switch
<1>2. UNCHANGED <<stk, owner, ncli, ion, saved, ready>>
  BY DEF Switch
<1>3. p \in Proc /\ ScanNext(p) \in 1 .. NPROC + 1 /\ p \in Ctx /\ p # c /\ p \notin Cpu
  <2>1. scan[c] \in 1 .. NPROC + 1
    BY DEF Types
  <2>2. p \in 1 .. NPROC
    BY <2>1, CtxFacts, SMTT(30)
  <2>3. ScanNext(p) \in 1 .. NPROC + 1
    BY <2>2, CtxFacts, SMTT(30) DEF ScanNext
  <2>. QED  BY <2>2, <2>3, CtxFacts DEF Proc
<1>4. cur' \in [Cpu -> Ctx] /\ cur'[c] = p /\ \A d \in Cpu \ {c} : cur'[d] = cur[d]
  BY <1>3 DEF Types
<1>5. /\ state' \in [Proc -> {"SLEEPING", "RUNNABLE", "RUNNING"}]
      /\ state'[p] = "RUNNING" /\ \A q \in Proc \ {p} : state'[q] = state[q]
  BY <1>3 DEF Types
<1>6. scan' \in [Cpu -> 1 .. NPROC + 1]
  BY <1>3 DEF Types
<1>7. Types'
  BY <1>2, <1>4, <1>5, <1>6 DEF Types
<1>8. Head(stk[p]) = stk[p][1] /\ stk[p][1] \in {Frame("sleep3"), Frame("yield2"), Frame("forkret")}
  <2>1. stk[p] \in Seq(Frames) /\ Len(stk[p]) >= 1
    <3>1. stk[p] \in Seq(Frames) /\ Shape(p)
      BY <1>3 DEF Types, Shapes
    <3>. QED  BY <3>1, SMTT(30) DEF Shape
  <2>. QED  BY <1>3, <2>1, SMTT(30) DEF Placed
<1>9. Bools' /\ \A d \in Cpu \ {c} : intena'[d] = intena[d]
  BY <1>2, <1>3 DEF Bools, Restored
<1>10. Shapes'
  BY <1>2 DEF Shapes, Shape
<1>11. \A d \in Cpu : cur[d] # p
  BY <1>3 DEF Placed, OneCpuEach
<1>12. Placed'
  <2>1. OneCpuEach'
    <3>1. ASSUME NEW q \in Proc
          PROVE  state'[q] = "RUNNING" <=> \E d \in Cpu : cur'[d] = q
      <4>1. CASE q = p
        BY <4>1, <1>4, <1>5
      <4>2. CASE q # p
        <5>1. (\E d \in Cpu : cur'[d] = q) <=> (\E d \in Cpu : cur[d] = q)
          BY <4>2, <1>1, <1>4, CtxFacts, SMTT(30)
        <5>. QED  BY <4>2, <5>1, <1>5 DEF Placed, OneCpuEach
      <4>. QED  BY <4>1, <4>2
    <3>2. \A d, e \in Cpu : cur'[d] = cur'[e] => d = e
      BY <1>4, <1>11, SMTT(30) DEF Placed, OneCpuEach
    <3>. QED  BY <3>1, <3>2 DEF OneCpuEach
  <2>2. \A d \in Cpu : cur'[d] \in Proc \cup {d}
    BY <1>3, <1>4 DEF Placed
  <2>3. \A d \in Cpu : cur'[d] # d => stk'[d][1] = Frame("sched1")
    <3>1. stk[c][1] = Frame("sched1")
      BY <1>1, TopIs
    <3>. QED  BY <3>1, <1>2, <1>4 DEF Placed
  <2>4. \A q \in Proc : state'[q] # "RUNNING" =>
          stk'[q][1] \in {Frame("sleep3"), Frame("yield2"), Frame("forkret")}
    BY <1>2, <1>5 DEF Placed
  <2>5. \A q \in Proc : state'[q] = "SLEEPING" => stk'[q][1] = Frame("sleep3")
    BY <1>2, <1>5 DEF Placed
  <2>. QED  BY <2>1, <2>2, <2>3, <2>4, <2>5 DEF Placed
<1>13. Top(c)' = stk[p][1] /\ \A d \in Cpu \ {c} : Top(d)' = Top(d)
  BY <1>2, <1>4, <1>8 DEF Top
<1>14. \A f \in {Frame("sleep3"), Frame("yield2"), Frame("forkret"), Frame("sched1")} :
         ~LkAt(f) /\ PtAt(f) /\ Depth(f) = 1 /\ ~Tested(f) /\ ~Falling(f) /\ ~Waking(f)
  BY SMTT(30) DEF LkAt, PtAt, Depth, Bit, Frame, Tested, Falling, Waking
<1>15. Locks'
  <2>1. ASSUME NEW d \in Cpu
        PROVE /\ owner'["lk"] = d <=> LkAt(Top(d)')
              /\ owner'["ptable"] = d <=> PtAt(Top(d)')
              /\ ncli'[d] = Depth(Top(d)')
    BY <1>1, <1>2, <1>8, <1>13, <1>14, SMTT(30) DEF Locks
  <2>. QED  BY <2>1 DEF Locks, LkAt, PtAt, Depth, Bit
<1>16. Flags'
  <2>1. FlagsAt(Frame("sched1"), ion[c], intena[c]) /\ SavedAt(stk[p][1], saved[p])
    BY <1>1, <1>3, FlagsAre
  <2>2. ~ion[c]
    BY <2>1, <1>14, SMTT(30) DEF FlagsAt
  <2>3. FlagsAt(stk[p][1], ion[c], intena'[c])
    <3>1. CASE stk[p][1] = Frame("forkret")
      <4>1. stk[p][1].at = "forkret" /\ Depth(stk[p][1]) = 1
        BY <3>1, <1>14, SMTT(30) DEF Frame
      <4>. QED  BY <4>1, <2>2 DEF FlagsAt, ProcBase, Handler
    <3>2. CASE stk[p][1] = Frame("sleep3")
      <4>1. stk[p][1].at = "sleep3" /\ Depth(stk[p][1]) = 1
        BY <3>2, <1>14, SMTT(30) DEF Frame
      <4>2. intena'[c] = saved[p]
        BY <4>1, <1>8 DEF Restored, Bools
      <4>3. saved[p]
        BY <2>1, <3>2 DEF SavedAt
      <4>. QED  BY <4>1, <4>2, <4>3, <2>2 DEF FlagsAt, ProcBase, Handler
    <3>3. CASE stk[p][1] = Frame("yield2")
      <4>1. stk[p][1].at = "yield2" /\ Depth(stk[p][1]) = 1
        BY <3>3, <1>14, SMTT(30) DEF Frame
      <4>2. intena'[c] = saved[p]
        BY <4>1, <1>8 DEF Restored, Bools
      <4>3. ~saved[p]
        BY <2>1, <3>3 DEF SavedAt
      <4>. QED  BY <4>1, <4>2, <4>3, <2>2 DEF FlagsAt, ProcBase, Handler
    <3>. QED  BY <1>8, <3>1, <3>2, <3>3
  <2>4. ASSUME NEW d \in Cpu \ {c} PROVE FlagsAt(Top(d)', ion'[d], intena'[d])
    BY <1>2, <1>9, <1>13, FlagsAre
  <2>5. ASSUME NEW q \in Proc, state'[q] # "RUNNING" PROVE SavedAt(stk'[q][1], saved'[q])
    BY <2>5, <1>2, <1>5, FlagsAre
  <2>. QED  BY <2>3, <2>4, <2>5, <1>2, <1>13, FlagsNext
<1>17. Wakes'
  <2>1. ~Tested(Top(c)') /\ ~Falling(Top(c)') /\ ~Waking(Top(c)) /\ Top(c).at # "wake0"
    BY <1>1, <1>8, <1>13, <1>14 DEF Waking
  <2>2. \A d \in Cpu : /\ Tested(Top(d)') => Tested(Top(d))
                       /\ Falling(Top(d)') => Falling(Top(d))
                       /\ Top(d).at = "wake0" => Top(d)'.at = "wake0"
                       /\ Waking(Top(d)) => Waking(Top(d)')
    BY <2>1, <1>13
  <2>3. \A q \in Proc : state'[q] = "SLEEPING" => state[q] = "SLEEPING"
    BY <1>5
  <2>. QED  BY <2>2, <2>3, <1>2, WakesAre, WakesNext
<1>. QED  BY <1>7, <1>9, <1>10, <1>12, <1>15, <1>16, <1>17

\* A CPU with interrupts on holds no lock and is in no handler.
LEMMA IdleFrames ==
  ASSUME Inv, NEW c \in Cpu, ion[c]
  PROVE  Top(c) \in {Frame("user"), Frame("lock"), Frame("sti"), Frame("sched0"), Frame("trapret")}
<1>. USE DEF Inv
<1>1. FlagsAt(Top(c), ion[c], intena[c]) /\ Top(c) \in Frames
  BY FlagsAre, TopIs
<1>2. Depth(Top(c)) = 0 /\ Top(c).at \notin Handler
  BY <1>1, DepthIs, SMTT(30) DEF FlagsAt
<1>3. Top(c).ph = 0 /\ ~LkAt(Top(c)) /\ ~PtAt(Top(c))
  BY <1>1, <1>2, DepthIs
<1>4. Top(c).at \in {"user", "lock", "sti", "sched0", "trapret"}
  BY <1>1, <1>2, <1>3, LabelsAre DEF Frames, LkAt, PtAt, Handler
<1>5. Top(c) = Frame(Top(c).at)
  BY <1>1, <1>3 DEF Frames, Frame
<1>. QED  BY <1>4, <1>5

LEMMA InterruptInv ==
  ASSUME Inv, NEW c \in Cpu, Timer(c) \/ Disk(c)
  PROVE  Inv'
<1>. USE DEF Inv
<1>. PICK l \in {"yield0", "intr0"} : Interrupt(c, l) /\ (l = "yield0" => cur[c] \in Proc)
  BY DEF Timer, Disk
<1>. PICK x \in Ctx : x = cur[c]
  BY TopIs
<1>. DEFINE f == Top(c)
            g == Frame(l)
            s == stk[x]
            t == <<g>> \o s
<1>1. /\ ion[c] /\ ion' = [ion EXCEPT ![c] = FALSE]
      /\ stk' = [stk EXCEPT ![x] = t]
      /\ UNCHANGED <<state, cur, owner, ncli, intena, saved, scan, ready>>
  BY DEF Interrupt
<1>2. f \in {Frame("user"), Frame("lock"), Frame("sti"), Frame("sched0"), Frame("trapret")}
  BY <1>1, IdleFrames
<1>3. g \in Frames /\ g.at = l /\ g.ph = 0
  BY FrameType, LabelsAre DEF Frame
<1>4. s \in Seq(Frames) /\ Shape(x) /\ Len(s) \in 1 .. 3 /\ s[1] = f
  BY TopIs DEF Shape
<1>5. t \in Seq(Frames) /\ Len(t) = Len(s) + 1 /\ t[1] = g /\ \A i \in 1 .. Len(s) : t[i + 1] = s[i]
  <2>. HIDE DEF s, g
  <2>. QED  BY <1>3, <1>4, SeqPush, SMTT(30)
<1>6. t[2] = s[1] /\ (Len(s) >= 2 => t[3] = s[2])
  BY <1>4, <1>5, SMTT(30)
<1>. HIDE DEF t
<1>7. stk' \in [Ctx -> Seq(Frames)] /\ stk'[x] = t /\ \A y \in Ctx : y # x => stk'[y] = stk[y]
  BY <1>1, <1>5 DEF Types
<1>. HIDE DEF s, f, g
<1>8. s = stk[x] /\ f = Top(c) /\ g = Frame(l)
  BY DEF s, f, g
<1>9. Moves(c, g)
  BY <1>1, <1>4, <1>5, <1>7, SMTT(30) DEF Moves, Stacks
<1>10. Types'
  BY <1>1, <1>7 DEF Types
<1>11. Bools'
  BY <1>1 DEF Bools
<1>12. Shapes'
  <2>1. ASSUME NEW y \in Ctx, y # x PROVE Shape(y)'
    <3>1. Shape(y) /\ stk'[y] = stk[y]
      BY <2>1, <1>7 DEF Shapes
    <3>. QED  BY <3>1 DEF Shape
  <2>2. /\ f \in {Frame("user"), Frame("lock")} => x \in Proc /\ Len(s) = 1
        /\ f \in {Frame("sti"), Frame("sched0")} => x \in Cpu /\ Len(s) = 1
        /\ f = Frame("trapret") => x \in Proc /\ Len(s) = 2 /\ s[2] = Frame("user")
    BY <1>4, <1>8, SMTT(30) DEF Shape, ProcBase, SchedBase, Starting, Frame
  <2>3. \/ x \in Proc /\ Len(t) = 2 /\ t[2] \in {Frame("user"), Frame("lock")}
        \/ x \in Proc /\ Len(t) = 3 /\ t[2] = Frame("trapret") /\ t[3] = Frame("user")
        \/ x \in Cpu /\ Len(t) = 2 /\ t[2] \in {Frame("sti"), Frame("sched0")}
    BY <2>2, <1>2, <1>4, <1>5, <1>6, SMTT(30)
  <2>4. l \in Handler /\ l \notin ProcBase /\ l \notin SchedBase /\ l \notin Starting
        /\ (l \in Clock => x \in Proc)
    BY DEF Handler, ProcBase, SchedBase, Starting, Clock
  <2>5. Shape(x)'
    BY <2>3, <2>4, <1>3, <1>5, <1>7, SMTT(30) DEF Shape
  <2>. QED  BY <2>1, <2>5 DEF Shapes
<1>13. Placed'
  BY <1>1, <1>3, <1>9, MovePlaced DEF Types
<1>14. /\ ~LkAt(g) /\ ~PtAt(g) /\ Depth(g) = 0
       /\ ~LkAt(f) /\ ~PtAt(f) /\ Depth(f) = 0
  BY <1>2, <1>8, SMTT(30) DEF LkAt, PtAt, Depth, Bit, Frame
<1>15. Locks'
  BY <1>1, <1>3, <1>8, <1>9, <1>14, MoveLocks DEF Locks
<1>16. Flags'
  <2>1. ~ion'[c] /\ \A d \in Cpu \ {c} : ion'[d] = ion[d]
    BY <1>1 DEF Bools
  <2>2. FlagsAt(g, ion'[c], intena'[c])
    BY <2>1, <1>3, <1>14, SMTT(30) DEF FlagsAt
  <2>. QED  BY <2>1, <2>2, <1>1, <1>3, <1>9, MoveFlags
<1>17. Wakes'
  <2>1. ~Tested(g) /\ ~Falling(g) /\ ~Waking(f) /\ f.at # "wake0"
    BY <1>2, <1>8, SMTT(30) DEF Tested, Falling, Waking, Frame
  <2>. QED  BY <2>1, <1>1, <1>3, <1>8, <1>9, MoveWakes
<1>. QED  BY <1>10, <1>11, <1>12, <1>13, <1>15, <1>16, <1>17

LEMMA IretInv ==
  ASSUME Inv, NEW c \in Cpu, Iret(c)
  PROVE  Inv'
<1>. USE DEF Inv
<1>. PICK x \in Ctx : x = cur[c]
  BY TopIs
<1>. DEFINE f == Top(c)
            s == stk[x]
            g == s[2]
            t == Tail(s)
<1>1. /\ f.at \in {"iret", "trapret"} /\ ion' = [ion EXCEPT ![c] = TRUE]
      /\ stk' = [stk EXCEPT ![x] = t]
      /\ UNCHANGED <<state, cur, owner, ncli, intena, saved, scan, ready>>
  BY DEF Iret, At
<1>2. f = Frame(f.at)
  BY <1>1, Unphased DEF Phased
<1>3. s \in Seq(Frames) /\ Shape(x) /\ s[1] = f
  BY TopIs
<1>4. \/ x \in Proc /\ Len(s) = 2 /\ g \in {Frame("user"), Frame("lock")}
      \/ x \in Proc /\ Len(s) = 3 /\ g = Frame("trapret") /\ s[3] = Frame("user")
      \/ x \in Cpu /\ Len(s) = 2 /\ g \in {Frame("sti"), Frame("sched0")}
  BY <1>1, <1>3 DEF Shape, Starting, Handler
<1>5. t \in Seq(Frames) /\ Len(t) = Len(s) - 1 /\ Len(t) >= 1 /\ t[1] = g /\ (Len(s) >= 3 => t[2] = s[3])
  <2>1. s # <<>> /\ Len(s) \in {2, 3}
    BY <1>3, <1>4, SMTT(30)
  <2>2. t \in Seq(Frames) /\ Len(t) = Len(s) - 1 /\ \A i \in 1 .. Len(t) : t[i] = s[i + 1]
    BY <1>3, <2>1, SMTT(30)
  <2>. HIDE DEF t, s
  <2>3. t[1] = s[2] /\ (Len(s) >= 3 => t[2] = s[3])
    BY <2>1, <2>2, SMTT(30)
  <2>. QED  BY <2>1, <2>2, <2>3, SMTT(30)
<1>. HIDE DEF t
<1>6. stk' \in [Ctx -> Seq(Frames)] /\ stk'[x] = t /\ \A y \in Ctx : y # x => stk'[y] = stk[y]
  BY <1>1, <1>5 DEF Types
<1>. HIDE DEF s, f, g
<1>7. s = stk[x] /\ f = Top(c)
  BY DEF s, f
<1>8. Moves(c, g)
  BY <1>1, <1>5, <1>6 DEF Moves, Stacks
<1>9. g \in {Frame("user"), Frame("lock"), Frame("sti"), Frame("sched0"), Frame("trapret")}
  BY <1>4
<1>10. g \in Frames
  BY <1>9, FrameType, LabelsAre
<1>11. Types'
  BY <1>1, <1>6 DEF Types
<1>12. Bools'
  BY <1>1 DEF Bools
<1>13. Shapes'
  <2>1. ASSUME NEW y \in Ctx, y # x PROVE Shape(y)'
    <3>1. Shape(y) /\ stk'[y] = stk[y]
      BY <2>1, <1>6 DEF Shapes
    <3>. QED  BY <3>1 DEF Shape
  <2>2. \/ x \in Proc /\ Len(t) = 1 /\ t[1] \in {Frame("user"), Frame("lock")}
        \/ x \in Proc /\ Len(t) = 2 /\ t[1] = Frame("trapret") /\ t[2] = Frame("user")
        \/ x \in Cpu /\ Len(t) = 1 /\ t[1] \in {Frame("sti"), Frame("sched0")}
    BY <1>4, <1>5, SMTT(30)
  <2>3. Shape(x)'
    BY <2>2, <1>6, SMTT(30) DEF Shape, Frame, ProcBase, SchedBase, Starting, Handler, Clock
  <2>. QED  BY <2>1, <2>3 DEF Shapes
<1>14. Placed'
  BY <1>1, <1>8, <1>10, MovePlaced DEF Types
<1>15. /\ ~LkAt(g) /\ ~PtAt(g) /\ Depth(g) = 0
       /\ ~LkAt(f) /\ ~PtAt(f) /\ Depth(f) = 0
  <2>1. f \in {Frame("iret"), Frame("trapret")}
    BY <1>1, <1>2
  <2>. QED  BY <2>1, <1>9, SMTT(30) DEF LkAt, PtAt, Depth, Bit, Frame
<1>16. Locks'
  BY <1>1, <1>7, <1>8, <1>10, <1>15, MoveLocks DEF Locks
<1>17. Flags'
  <2>1. ion'[c] = TRUE /\ \A d \in Cpu \ {c} : ion'[d] = ion[d]
    BY <1>1 DEF Bools
  <2>2. g.at \notin Handler
    BY <1>9, SMTT(30) DEF Frame, Handler
  <2>3. FlagsAt(g, ion'[c], intena'[c])
    BY <2>1, <2>2, <1>15, SMTT(30) DEF FlagsAt
  <2>. QED  BY <2>1, <2>3, <1>1, <1>8, <1>10, MoveFlags
<1>18. Wakes'
  <2>1. ~Tested(g) /\ ~Falling(g) /\ ~Waking(f) /\ f.at # "wake0"
    BY <1>1, <1>9, SMTT(30) DEF Tested, Falling, Waking, Frame
  <2>. QED  BY <2>1, <1>1, <1>7, <1>8, <1>10, MoveWakes
<1>. QED  BY <1>11, <1>12, <1>13, <1>14, <1>16, <1>17, <1>18

-----------------------------------------------------------------------------
(* Theorems.                                                                 *)

LEMMA InitInv == Init => Inv
<1>. SUFFICES ASSUME Init PROVE Inv
  OBVIOUS
<1>1. Frame("forkret") \in Frames /\ Frame("user") \in Frames /\ Frame("sti") \in Frames
  BY FrameType, LabelsAre
<1>2. /\ state = [p \in Proc |-> "RUNNABLE"]
      /\ cur = [c \in Cpu |-> c]
      /\ owner = [l \in {"lk", "ptable"} |-> Nobody]
      /\ ncli = [c \in Cpu |-> 0]
      /\ intena = [c \in Cpu |-> FALSE]
      /\ ion = [c \in Cpu |-> FALSE]
      /\ saved = [p \in Proc |-> FALSE]
      /\ scan = [c \in Cpu |-> 1]
      /\ ready = FALSE
  BY DEF Init
<1>3. /\ stk \in [Ctx -> Seq(Frames)]
      /\ \A p \in Proc : Len(stk[p]) = 2 /\ stk[p][1] = Frame("forkret") /\ stk[p][2] = Frame("user")
      /\ \A c \in Cpu : Len(stk[c]) = 1 /\ stk[c][1] = Frame("sti")
  <2>. DEFINE s == <<Frame("forkret"), Frame("user")>>
              t == <<Frame("sti")>>
  <2>1. s \in Seq(Frames) /\ Len(s) = 2 /\ s[1] = Frame("forkret") /\ s[2] = Frame("user")
    BY <1>1, SMTT(30)
  <2>2. t \in Seq(Frames) /\ Len(t) = 1 /\ t[1] = Frame("sti")
    BY <1>1, SMTT(30)
  <2>3. stk = [x \in Ctx |-> IF x \in Proc THEN s ELSE t]
    BY DEF Init
  <2>. HIDE DEF s, t
  <2>4. (\A p \in Proc : stk[p] = s) /\ (\A c \in Cpu : stk[c] = t)
    BY <2>3, CtxFacts
  <2>. QED  BY <2>1, <2>2, <2>3, <2>4
<1>4. Types
  <2>1. scan \in [Cpu -> 1 .. NPROC + 1]
    BY <1>2, CtxFacts, SMTT(30)
  <2>. QED  BY <1>2, <1>3, <2>1, CtxFacts DEF Types
<1>5. Bools
  BY <1>2 DEF Bools
<1>6. Shapes
  <2>1. ASSUME NEW p \in Proc PROVE Shape(p)
    BY <1>3, SMTT(30) DEF Shape, Frame, ProcBase, SchedBase, Starting, Handler, Clock, Phased
  <2>2. ASSUME NEW c \in Cpu PROVE Shape(c)
    BY <1>3, SMTT(30) DEF Shape, Frame, ProcBase, SchedBase, Starting, Handler, Clock, Phased
  <2>. QED  BY <2>1, <2>2, CtxFacts DEF Shapes
<1>7. Placed
  BY <1>2, <1>3, CtxFacts DEF Placed, OneCpuEach
<1>8. \A c \in Cpu : Top(c) = Frame("sti")
  BY <1>2, <1>3, <1>4, <1>6, TopIs
<1>9. ~LkAt(Frame("sti")) /\ ~PtAt(Frame("sti")) /\ Depth(Frame("sti")) = 0 /\ Frame("sti").at = "sti"
  BY SMTT(30) DEF LkAt, PtAt, Depth, Bit, Frame
<1>10. Locks
  BY <1>2, <1>8, <1>9, CtxFacts DEF Locks
<1>11. Flags
  <2>1. \A c \in Cpu : FlagsAt(Top(c), ion[c], intena[c])
    BY <1>8, <1>9, SMTT(30) DEF FlagsAt, Handler, ProcBase
  <2>2. \A p \in Proc : SavedAt(stk[p][1], saved[p])
    BY <1>3, SMTT(30) DEF SavedAt, Frame
  <2>. QED  BY <2>1, <2>2, FlagsAre
<1>12. Wakes
  BY <1>2 DEF Wakes
<1>. QED  BY <1>4, <1>5, <1>6, <1>7, <1>10, <1>11, <1>12 DEF Inv

LEMMA StutterInv == Inv /\ UNCHANGED vars => Inv'
<1>. SUFFICES ASSUME Inv, UNCHANGED vars PROVE Inv'
  OBVIOUS
<1>1. UNCHANGED <<state, stk, cur, owner, ncli, intena, ion, saved, scan, ready>>
  BY DEF vars
<1>2. Types' /\ Bools'
  BY <1>1 DEF Inv, Types, Bools
<1>3. Shapes'
  BY <1>1 DEF Inv, Shapes, Shape
<1>4. Placed'
  BY <1>1 DEF Inv, Placed, OneCpuEach
<1>5. \A c \in Cpu : Top(c)' = Top(c)
  BY <1>1 DEF Top
<1>6. Locks'
  BY <1>1, <1>5, SMTT(30) DEF Inv, Locks, LkAt, PtAt, Depth, Bit
<1>7. Flags'
  BY <1>1, <1>5, FlagsAre, FlagsNext DEF Inv
<1>8. Wakes'
  BY <1>1, <1>5, WakesAre, WakesNext DEF Inv
<1>. QED  BY <1>2, <1>3, <1>4, <1>6, <1>7, <1>8 DEF Inv

LEMMA NextInv == Inv /\ [Next]_vars => Inv'
<1>1. ASSUME Inv, NEW c \in Cpu, Run(c) PROVE Inv'
  <2>1. ASSUME NEW l \in {"lk", "ptable"},
               \/ AcquireBegin(c, l) \/ AcquireEnd(c, l)
               \/ ReleaseBegin(c, l) \/ ReleaseEnd(c, l)
        PROVE  Inv'
    BY <1>1, <2>1, AcquireBeginInv, AcquireEndInv, ReleaseBeginInv, ReleaseEndInv
  <2>2. CASE Test(c) \/ Sti(c) \/ ScanDone(c) \/ SetReady(c) \/ Wakeup(c)
    BY <1>1, <2>2, TestInv, StiInv, ScanDoneInv, SetReadyInv, WakeupInv
  <2>3. CASE Sleep(c) \/ YieldCpu(c) \/ Switch(c) \/ Iret(c)
    BY <1>1, <2>3, SwitchOutInv, SwitchInv, IretInv
  <2>. QED  BY <1>1, <2>1, <2>2, <2>3 DEF Run
<1>2. ASSUME Inv, NEW c \in Cpu, Enter(c) \/ Timer(c) \/ Disk(c) PROVE Inv'
  BY <1>2, EnterInv, InterruptInv
<1>. QED  BY <1>1, <1>2, StutterInv DEF Next

LEMMA InvAlways == Spec => []Inv
  BY InitInv, NextInv, PTL DEF Spec

\* The locks a frame holds, and the phase it is in, never add up to more than two.
LEMMA DepthBound ==
  ASSUME NEW f \in Frames, f.ph = 1 => f.at \in Phased
  PROVE  Depth(f) \in 0 .. 2
<1>1. f.ph \in {0, 1}
  BY DEF Frames
<1>2. CASE f.ph = 0
  BY <1>2, SMTT(30) DEF Depth, Bit
<1>3. CASE f.ph = 1
  <2>1. ~(LkAt(f) /\ PtAt(f))
    BY <1>3, SMTT(30) DEF Phased, LkAt, PtAt
  <2>. QED  BY <1>3, <2>1, SMTT(30) DEF Depth, Bit
<1>. QED  BY <1>1, <1>2, <1>3

LEMMA InvTypeOK == Inv => TypeOK
<1>. SUFFICES ASSUME Inv PROVE TypeOK
  OBVIOUS
<1>1. ASSUME NEW x \in Ctx
      PROVE  Len(stk[x]) \in 1 .. 3 /\ \A i \in 1 .. Len(stk[x]) : stk[x][i] \in [at : Labels, ph : {0, 1}]
  <2>1. stk[x] \in Seq(Frames) /\ Shape(x)
    BY DEF Inv, Types, Shapes
  <2>2. Len(stk[x]) \in 1 .. 3
    BY <2>1 DEF Shape
  <2>3. \A i \in 1 .. Len(stk[x]) : stk[x][i] \in Frames
    BY <2>1, SMTT(30)
  <2>. QED  BY <2>2, <2>3 DEF Frames
<1>2. ASSUME NEW c \in Cpu PROVE ncli[c] \in 0 .. 2
  <2>1. Top(c) \in Frames /\ (Top(c).ph = 1 => Top(c).at \in Phased)
    BY TopIs DEF Inv, Shape
  <2>. QED  BY <2>1, DepthBound DEF Inv, Locks
<1>3. ncli \in [Cpu -> 0 .. 2]
  BY <1>2 DEF Inv, Types
<1>. QED  BY <1>1, <1>3 DEF TypeOK, Inv, Types, Bools

LEMMA InvNoPanic == Inv => NoPanic
<1>. SUFFICES ASSUME Inv, NEW c \in Cpu
     PROVE  ~SchedPanics(c) /\ \A l \in {"lk", "ptable"} : ~LockPanics(c, l)
  BY DEF NoPanic
<1>. DEFINE f == Top(c)
            a == f.at
<1>1. f \in Frames /\ FlagsAt(f, ion[c], intena[c])
  BY TopIs, FlagsAre DEF Inv
<1>2. /\ owner["lk"] = c <=> LkAt(f)
      /\ owner["ptable"] = c <=> PtAt(f)
      /\ ncli[c] = Depth(f)
  BY DEF Inv, Locks
<1>3. ~SchedPanics(c)
  <2>1. ASSUME a \in {"sleep2", "yield1"} PROVE SchedOK(c)
    <3>1. f = Frame(a)
      BY <2>1, Unphased DEF Phased, Inv
    <3>2. ~LkAt(f) /\ PtAt(f) /\ Depth(f) = 1
      BY <2>1, <3>1, SMTT(30) DEF LkAt, PtAt, Depth, Bit, Frame
    <3>3. ~ion[c]
      BY <1>1, <3>2, SMTT(30) DEF FlagsAt
    <3>. QED  BY <1>2, <3>2, <3>3 DEF SchedOK
  <2>. QED  BY <2>1 DEF SchedPanics, At
<1>4. ASSUME NEW l \in {"lk", "ptable"}, AtAcquire(c, l, 0) PROVE owner[l] # c
  <2>1. f = Frame(a) /\ a \in DOMAIN Acquires /\ Acquires[a] = l
    BY <1>1, <1>4 DEF AtAcquire, Frames, Frame
  <2>. QED  BY <1>2, <2>1, AcquireFrames
<1>5. ASSUME NEW l \in {"lk", "ptable"}, AtRelease(c, l, 0) PROVE owner[l] = c
  <2>1. f = Frame(a) /\ a \in DOMAIN Releases /\ Releases[a] = l
    BY <1>1, <1>5 DEF AtRelease, Frames, Frame
  <2>. QED  BY <1>2, <2>1, ReleaseFrames
<1>6. ASSUME NEW l \in {"lk", "ptable"}, AtRelease(c, l, 1) PROVE ~ion[c] /\ ~(ncli[c] <= 0)
  <2>1. f.ph = 1
    BY <1>6 DEF AtRelease
  <2>2. Depth(f) > 0
    BY <1>1, <2>1, DepthIs, SMTT(30)
  <2>3. ~ion[c]
    BY <1>1, <2>2 DEF FlagsAt
  <2>4. ~(ncli[c] <= 0)
    BY <1>1, <1>2, <2>2, DepthIs, SMTT(30)
  <2>. QED  BY <2>3, <2>4
<1>. QED  BY <1>3, <1>4, <1>5, <1>6 DEF LockPanics

LEMMA InvNoLostWakeup == Inv => NoLostWakeup
<1>. SUFFICES ASSUME Inv, ready, NEW p \in Proc, state[p] = "SLEEPING" PROVE ~DiskIdle
  BY DEF NoLostWakeup
<1>. PICK d \in Cpu : Waking(Top(d))
  BY WakesAre DEF Inv
<1>1. cur[d] \in Ctx /\ Top(d) = stk[cur[d]][1] /\ 1 \in 1 .. Len(stk[cur[d]])
  <2>1. cur[d] \in Ctx /\ Top(d) = stk[cur[d]][1] /\ Len(stk[cur[d]]) \in 1 .. 3
    BY TopIs DEF Inv, Shape
  <2>. QED  BY <2>1, SMTT(30)
<1>. QED  BY <1>1 DEF DiskIdle, Waking

\* For any number of processes and CPUs: the types hold, acquire, release, popcli and
\* sched never panic, no process runs on two CPUs, and no wakeup is lost.
THEOREM SchedSafety == Spec => []SchedSound
<1>1. Inv => SchedSound
  BY InvTypeOK, InvNoPanic, InvNoLostWakeup DEF SchedSound, Inv, Placed
<1>. QED  BY <1>1, InvAlways, PTL

\* For any number of processes and CPUs, cpu->intena survives the context switches:
\* a handler runs with interrupts off, a process outside of the kernel's locks with
\* interrupts on.
THEOREM InterruptSafety == Spec => []InterruptsRestored
<1>1. ASSUME Inv, NEW c \in Cpu
      PROVE  /\ Top(c).at \in Handler => ~ion[c]
             /\ Len(stk[cur[c]]) = 1 /\ cur[c] \in Proc /\ ncli[c] = 0 => ion[c]
  <2>. DEFINE f == Top(c)
  <2>1. /\ f \in Frames /\ FlagsAt(f, ion[c], intena[c]) /\ ncli[c] = Depth(f)
        /\ f = stk[cur[c]][1] /\ Shape(cur[c])
    BY <1>1, TopIs, FlagsAre DEF Inv, Locks
  <2>2. f.at \in Handler => ~ion[c]
    BY <2>1 DEF FlagsAt
  <2>3. ASSUME Len(stk[cur[c]]) = 1, cur[c] \in Proc, ncli[c] = 0 PROVE ion[c]
    <3>1. f.ph = 0 /\ ~LkAt(f) /\ ~PtAt(f) /\ Depth(f) = 0
      BY <2>1, <2>3, DepthIs
    <3>2. f.at \notin SchedBase /\ f.at \notin Starting /\ f.at \notin Handler
      <4>1. Len(stk[cur[c]]) # 2 /\ Len(stk[cur[c]]) # 3
        BY <2>3, SMTT(30)
      <4>2. cur[c] \notin Cpu
        BY <2>3, CtxFacts
      <4>. QED  BY <2>1, <4>1, <4>2 DEF Shape
    <3>3. f.at \in {"user", "lock"}
      BY <2>1, <3>1, <3>2, LabelsAre DEF Frames, SchedBase, Starting, Handler, LkAt, PtAt
    <3>. QED  BY <2>1, <3>1, <3>3 DEF FlagsAt
  <2>. QED  BY <2>2, <2>3
<1>2. Inv => InterruptsRestored
  BY <1>1 DEF InterruptsRestored
<1>. QED  BY <1>2, InvAlways, PTL
==============================================================================

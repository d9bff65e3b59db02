-------------------------------- MODULE Pipe --------------------------------
(***************************************************************************)
(* pipe.c: one pipe between processes that inherited its two descriptors,  *)
(* which write, read, close, are killed and exit in any order.             *)
(*                                                                         *)
(* Everything from acquire(&p->lock), or from coming back from sleep, to   *)
(* the release is one step, except that sleep() is a step of its own: kill *)
(* does not take p->lock, and can fall between the test of proc->killed    *)
(* and the sleep.  nread and nwrite wrap around as unsigned integers do.   *)
(***************************************************************************)
EXTENDS Integers, Sequences, FiniteSets, FiniteSetsExt

CONSTANTS Proc, Byte,
          Readers, Writers,   \* who has the descriptors to begin with
          PIPESIZE,
          WORD,               \* values of an unsigned int
          MaxWrite, MaxRead,  \* bound: the largest n of write() and read()
          Killable,           \* processes that somebody may kill
          NoProc

ASSUME PipeAssumption ==
  /\ Readers \subseteq Proc /\ Writers \subseteq Proc /\ Killable \subseteq Proc
  /\ PIPESIZE \in Nat \ {0}
  /\ WORD \in Nat /\ WORD > PIPESIZE /\ WORD % PIPESIZE = 0
  /\ MaxWrite \in Nat \ {0} /\ MaxRead \in Nat \ {0}
  /\ NoProc \notin Proc

VARIABLES
  data, nread, nwrite, readopen, writeopen,   \* struct pipe
  freed,     \* kfree((char*)p) has happened
  lock,      \* who holds p->lock between two steps
  pc,        \* where each process is in pipe.c
  rest,      \* what a writer has still to write
  want,      \* n of a reader
  out,       \* what the last read returned
  rfds, wfds,   \* processes that hold the read end and the write end
  killed

vars == <<data, nread, nwrite, readopen, writeopen, freed, lock, pc, rest, want, out,
          rfds, wfds, killed>>
pipe == <<data, nread, nwrite, readopen, writeopen, freed>>

\* After pipealloc() and the forks that share the pipe.
Init ==
  /\ data \in [0 .. PIPESIZE - 1 -> Byte]
  /\ nread = 0 /\ nwrite = 0
  /\ readopen = TRUE /\ writeopen = TRUE
  /\ freed = FALSE
  /\ lock = NoProc
  /\ pc = [p \in Proc |-> "idle"]
  /\ rest = [p \in Proc |-> <<>>]
  /\ want = [p \in Proc |-> 0]
  /\ out = [p \in Proc |-> <<>>]
  /\ rfds = Readers /\ wfds = Writers
  /\ killed = {}

\* wakeup(&p->nread) and wakeup(&p->nwrite), in the control state cs.
WakeReaders(cs) == [p \in Proc |-> IF cs[p] = "readsleep" THEN "read" ELSE cs[p]]
WakeWriters(cs) == [p \in Proc |-> IF cs[p] = "writesleep" THEN "write" ELSE cs[p]]

Used == (nwrite - nread) % WORD

-----------------------------------------------------------------------------
(* pipewrite                                                                *)

Write(p, s) ==
  /\ pc[p] = "idle" /\ p \in wfds /\ p \notin killed
  /\ pc' = [pc EXCEPT ![p] = "write"]
  /\ rest' = [rest EXCEPT ![p] = s]
  /\ UNCHANGED <<pipe, lock, want, out, rfds, wfds, killed>>

\* while(p->nwrite == p->nread + PIPESIZE)
Room == PIPESIZE - Used

Fits(p) == Min({Room, Len(rest[p])})

\* The bytes that fit go to data[nwrite++ % PIPESIZE].
Fill(p) ==
  LET k == Fits(p) IN
  /\ data' = [i \in DOMAIN data |->
                IF \E j \in 1 .. k : (nwrite + j - 1) % PIPESIZE = i
                THEN rest[p][CHOOSE j \in 1 .. k : (nwrite + j - 1) % PIPESIZE = i]
                ELSE data[i]]
  /\ nwrite' = (nwrite + k) % WORD
  /\ UNCHANGED <<nread, readopen, writeopen, freed>>

\* The rest fits: write it, wakeup(&p->nread), return n.
WriteAll(p) ==
  /\ pc[p] = "write" /\ lock = NoProc
  /\ Fits(p) = Len(rest[p])
  /\ Fill(p)
  /\ pc' = WakeReaders([pc EXCEPT ![p] = "idle"])
  /\ rest' = [rest EXCEPT ![p] = <<>>]
  /\ UNCHANGED <<lock, want, out, rfds, wfds, killed>>

\* Full, and nobody reads or the writer has been killed: -1, waking nobody.
WriteFails(p) ==
  /\ pc[p] = "write" /\ lock = NoProc
  /\ Fits(p) < Len(rest[p])
  /\ ~readopen \/ p \in killed
  /\ Fill(p)
  /\ pc' = [pc EXCEPT ![p] = "idle"]
  /\ rest' = [rest EXCEPT ![p] = <<>>]
  /\ UNCHANGED <<lock, want, out, rfds, wfds, killed>>

\* Full: wakeup(&p->nread), and on to sleep(&p->nwrite, &p->lock).
WriteFull(p) ==
  /\ pc[p] = "write" /\ lock = NoProc
  /\ Fits(p) < Len(rest[p])
  /\ readopen /\ p \notin killed
  /\ Fill(p)
  /\ pc' = WakeReaders([pc EXCEPT ![p] = "writing"])
  /\ rest' = [rest EXCEPT ![p] = SubSeq(@, Fits(p) + 1, Len(@))]
  /\ lock' = p
  /\ UNCHANGED <<want, out, rfds, wfds, killed>>

WriteSleep(p) ==
  /\ pc[p] = "writing"
  /\ pc' = [pc EXCEPT ![p] = "writesleep"]
  /\ lock' = NoProc
  /\ UNCHANGED <<pipe, rest, want, out, rfds, wfds, killed>>

-----------------------------------------------------------------------------
(* piperead                                                                 *)

Read(p, n) ==
  /\ pc[p] = "idle" /\ p \in rfds /\ p \notin killed
  /\ pc' = [pc EXCEPT ![p] = "read"]
  /\ want' = [want EXCEPT ![p] = n]
  /\ UNCHANGED <<pipe, lock, rest, out, rfds, wfds, killed>>

\* Mutant: piperead returns while the write end is open.
Empty_Never == FALSE

\* while(p->nread == p->nwrite && p->writeopen)
Empty == nread = nwrite /\ writeopen

\* Copy what there is, up to n, wakeup(&p->nwrite), return.
ReadSome(p) ==
  /\ pc[p] = "read" /\ lock = NoProc
  /\ ~Empty
  /\ LET k == Min({want[p], Used}) IN
       /\ out' = [out EXCEPT ![p] = [i \in 1 .. k |-> data[(nread + i - 1) % PIPESIZE]]]
       /\ nread' = (nread + k) % WORD
  /\ pc' = WakeWriters([pc EXCEPT ![p] = "idle"])
  /\ want' = [want EXCEPT ![p] = 0]
  /\ UNCHANGED <<data, nwrite, readopen, writeopen, freed, lock, rest, rfds, wfds, killed>>

ReadFails(p) ==
  /\ pc[p] = "read" /\ lock = NoProc
  /\ Empty /\ p \in killed
  /\ pc' = [pc EXCEPT ![p] = "idle"]
  /\ want' = [want EXCEPT ![p] = 0]
  /\ UNCHANGED <<pipe, lock, rest, out, rfds, wfds, killed>>

ReadEmpty(p) ==
  /\ pc[p] = "read" /\ lock = NoProc
  /\ Empty /\ p \notin killed
  /\ pc' = [pc EXCEPT ![p] = "reading"]
  /\ lock' = p
  /\ UNCHANGED <<pipe, rest, want, out, rfds, wfds, killed>>

ReadSleep(p) ==
  /\ pc[p] = "reading"
  /\ pc' = [pc EXCEPT ![p] = "readsleep"]
  /\ lock' = NoProc
  /\ UNCHANGED <<pipe, rest, want, out, rfds, wfds, killed>>

-----------------------------------------------------------------------------
(* fileclose and pipeclose, kill                                            *)

\* Mutant: closing the write end does not wake the readers.
CloseWrite_Quiet(p) ==
  /\ pc[p] = "idle" /\ p \in wfds /\ lock = NoProc
  /\ wfds' = wfds \ {p}
  /\ writeopen' = (wfds' # {})
  /\ freed' = (~readopen /\ ~writeopen')
  /\ UNCHANGED <<data, nread, nwrite, readopen, lock, pc, rest, want, out, rfds, killed>>

\* The last reference to the write end goes through pipeclose().
CloseWrite(p) ==
  /\ pc[p] = "idle" /\ p \in wfds /\ lock = NoProc
  /\ wfds' = wfds \ {p}
  /\ writeopen' = (wfds' # {})
  /\ freed' = (~readopen /\ ~writeopen')
  /\ pc' = IF wfds' = {} THEN WakeReaders(pc) ELSE pc
  /\ UNCHANGED <<data, nread, nwrite, readopen, lock, rest, want, out, rfds, killed>>

\* Mutant: the pipe is freed as soon as its read end is closed.
CloseRead_Frees(p) ==
  /\ pc[p] = "idle" /\ p \in rfds /\ lock = NoProc
  /\ rfds' = rfds \ {p}
  /\ readopen' = (rfds' # {})
  /\ freed' = ~readopen'
  /\ pc' = IF rfds' = {} THEN WakeWriters(pc) ELSE pc
  /\ UNCHANGED <<data, nread, nwrite, writeopen, lock, rest, want, out, wfds, killed>>

CloseRead(p) ==
  /\ pc[p] = "idle" /\ p \in rfds /\ lock = NoProc
  /\ rfds' = rfds \ {p}
  /\ readopen' = (rfds' # {})
  /\ freed' = (~writeopen /\ ~readopen')
  /\ pc' = IF rfds' = {} THEN WakeWriters(pc) ELSE pc
  /\ UNCHANGED <<data, nread, nwrite, writeopen, lock, rest, want, out, wfds, killed>>

\* kill() wakes its victim, which goes back to the loop it slept in.
Kill(p) ==
  /\ p \in Killable \ killed
  /\ killed' = killed \cup {p}
  /\ pc' = [pc EXCEPT ![p] = CASE @ = "readsleep"  -> "read"
                               [] @ = "writesleep" -> "write"
                               [] OTHER            -> @]
  /\ UNCHANGED <<pipe, lock, rest, want, out, rfds, wfds>>

-----------------------------------------------------------------------------
Strings == UNION {[1 .. n -> Byte] : n \in 1 .. MaxWrite}

\* What a process does once it is inside pipe.c.
Step(p) ==
  \/ WriteAll(p) \/ WriteFails(p) \/ WriteFull(p) \/ WriteSleep(p)
  \/ ReadSome(p) \/ ReadFails(p) \/ ReadEmpty(p) \/ ReadSleep(p)

Next ==
  \/ \E p \in Proc :
       \/ \E s \in Strings : Write(p, s)
       \/ \E n \in 1 .. MaxRead : Read(p, n)
       \/ Step(p) \/ CloseWrite(p) \/ CloseRead(p) \/ Kill(p)
  \/ rfds \cup wfds = {} /\ UNCHANGED vars   \* everybody is done

Spec == Init /\ [][Next]_vars

-----------------------------------------------------------------------------
(* Correctness.                                                             *)

TypeOK ==
  /\ data \in [0 .. PIPESIZE - 1 -> Byte]
  /\ nread \in 0 .. WORD - 1 /\ nwrite \in 0 .. WORD - 1
  /\ Used <= PIPESIZE
  /\ readopen \in BOOLEAN /\ writeopen \in BOOLEAN /\ freed \in BOOLEAN
  /\ lock \in Proc \cup {NoProc}
  /\ pc \in [Proc -> {"idle", "write", "writing", "writesleep", "read", "reading", "readsleep"}]
  /\ rest \in [Proc -> {<<>>} \cup Strings]
  /\ want \in [Proc -> 0 .. MaxRead] /\ out \in [Proc -> Seq(Byte)]
  /\ rfds \in SUBSET Proc /\ wfds \in SUBSET Proc /\ killed \in SUBSET Proc

\* No lost wakeup in the pipe: a reader sleeps only while there is nothing to
\* read and somebody who can write, a writer only while there is no room and
\* somebody who can read.  The exception is in pipewrite: a killed writer that
\* fills the pipe returns without waking the readers.
SleepersHaveReason ==
  \A p \in Proc :
    /\ pc[p] = "readsleep" => Empty \/ killed # {}
    /\ pc[p] = "writesleep" => Room = 0 /\ readopen

\* The struct pipe is freed once both ends are closed, and nobody is in
\* pipewrite or piperead then.
NoUseAfterFree ==
  freed => rfds = {} /\ wfds = {} /\ \A p \in Proc : pc[p] = "idle"

\* Both, with the types.
PipeSound == TypeOK /\ SleepersHaveReason /\ NoUseAfterFree

Fifo == INSTANCE ByteFifo WITH
          Cap   <- PIPESIZE,
          q     <- [i \in 1 .. Used |-> data[(nread + i - 1) % PIPESIZE]],
          ropen <- readopen,
          wopen <- writeopen

\* The ring buffer with its wrapping counters is a FIFO of bytes.
Implements == Fifo!FSpec
=============================================================================

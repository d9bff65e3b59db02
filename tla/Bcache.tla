-------------------------------- MODULE Bcache --------------------------------
(***************************************************************************)
(* The buffer cache, bio.c, on top of the disk driver, ide.c.              *)
(*                                                                         *)
(* A critical section of bcache.lock or idelock is one step, sleep()       *)
(* included.  bget() and iderw() sleep on the same channel, the buffer, so *)
(* either one's wakeup reaches the sleepers of the other.  The drive works *)
(* on its own: it takes the data of a write when the command is given, and *)
(* raises an interrupt when it is done.                                    *)
(*                                                                         *)
(* A member of Proc is one use of a buffer, from bread() to brelse().  A   *)
(* process that holds several buffers at once (two in log_write() and      *)
(* install_trans(), three when bmap() allocates) is several members, here  *)
(* free to run in any order; what it holds while it waits is not modelled. *)
(***************************************************************************)
EXTENDS Integers, Sequences, FiniteSets

CONSTANTS Proc, Sector, Val,
          NBUF,
          MaxPinned,   \* buffers the log keeps B_DIRTY at a time
          Errors,      \* whether the drive may report read errors: one or both answers
          NoSector, NoCmd

Buf == 1 .. NBUF
NoBuf == 0

ASSUME BcacheAssumption ==
  /\ NBUF \in Nat \ {0}
  /\ MaxPinned \in Nat
  /\ Errors \subseteq BOOLEAN
  /\ NoSector \notin Sector
  /\ NoCmd \notin [write : BOOLEAN, sector : Sector, val : Val]

VARIABLES
  lru,                  \* bcache.head's list, the most recently used first
  sector,               \* b->sector
  data,                 \* b->data
  busy, valid, dirty,   \* buffers with B_BUSY, B_VALID, B_DIRTY
  idequeue,
  cmd,                  \* the drive's command: [write, sector, val]
  irq,                  \* the drive has finished it
  disk,                 \* what is on the platter
  errors,               \* the drive may report read errors
  pc, want, buf         \* where a process is, the sector it asked for, its buffer

cache == <<lru, sector, busy>>
drive == <<idequeue, cmd, irq, disk, errors>>
vars == <<lru, sector, data, busy, valid, dirty, idequeue, cmd, irq, disk, errors, pc, want, buf>>

\* binit() puts each buffer in front of the ones before it.
Init ==
  /\ lru = [i \in Buf |-> NBUF + 1 - i]
  /\ sector = [b \in Buf |-> NoSector]
  /\ data \in [Buf -> Val]
  /\ busy = {} /\ valid = {} /\ dirty = {}
  /\ idequeue = <<>> /\ cmd = NoCmd /\ irq = FALSE
  /\ disk \in [Sector -> Val]
  /\ errors \in Errors
  /\ pc = [p \in Proc |-> "idle"]
  /\ want = [p \in Proc |-> NoSector]
  /\ buf = [p \in Proc |-> NoBuf]

\* wakeup(b), in the control state cs: sleepers of bget and of iderw alike.
Wakeup(cs, b) ==
  [p \in Proc |-> IF buf[p] = b /\ cs[p] = "bgetsleep" THEN "bget"
                  ELSE IF buf[p] = b /\ cs[p] = "idesleep" THEN "idewoken"
                  ELSE cs[p]]

Goto(p, l) == pc' = [pc EXCEPT ![p] = l]

-------------------------------------------------------------------------------
(* bread, bget                                                                *)

Bread(p, s) ==
  /\ pc[p] = "idle"
  /\ want' = [want EXCEPT ![p] = s]
  /\ Goto(p, "bget")
  /\ UNCHANGED <<cache, data, valid, dirty, drive, buf>>

Cached(s) == {b \in Buf : sector[b] = s}

\* bget() panics with bcache.lock held, and nobody gets the lock after that.
LockFree == \A q \in Proc : pc[q] # "panic"

\* Is the sector already cached?  bread() goes to the disk unless it is valid.
BgetHit(p) ==
  /\ pc[p] = "bget" /\ LockFree
  /\ \E b \in Cached(want[p]) \ busy :
       /\ busy' = busy \cup {b}
       /\ buf' = [buf EXCEPT ![p] = b]
       /\ Goto(p, IF b \in valid THEN "held" ELSE "iderw")
  /\ UNCHANGED <<lru, sector, data, valid, dirty, drive, want>>

BgetSleep(p) ==
  /\ pc[p] = "bget" /\ LockFree
  /\ \E b \in Cached(want[p]) \cap busy : buf' = [buf EXCEPT ![p] = b]
  /\ Goto(p, "bgetsleep")
  /\ UNCHANGED <<cache, data, valid, dirty, drive, want>>

\* Mutant: bget() recycles dirty buffers.
Recyclable_Dirty == Buf \ busy

Recyclable == {b \in Buf : b \notin busy /\ b \notin dirty}

\* Mutant: bget() does not look again for the sector after sleep().
BgetRecycle_NoRescan(p) ==
  /\ pc[p] = "bget" /\ LockFree
  /\ \E i \in 1 .. Len(lru) :
       /\ lru[i] \in Recyclable
       /\ \A j \in i + 1 .. Len(lru) : lru[j] \notin Recyclable
       /\ sector' = [sector EXCEPT ![lru[i]] = want[p]]
       /\ busy' = busy \cup {lru[i]}
       /\ valid' = valid \ {lru[i]}
       /\ dirty' = dirty \ {lru[i]}
       /\ buf' = [buf EXCEPT ![p] = lru[i]]
  /\ Goto(p, "iderw")
  /\ UNCHANGED <<lru, data, drive, want>>

\* Not cached; recycle the least recently used non-busy and clean buffer.
BgetRecycle(p) ==
  /\ pc[p] = "bget" /\ LockFree
  /\ Cached(want[p]) = {}
  /\ \E i \in 1 .. Len(lru) :
       /\ lru[i] \in Recyclable
       /\ \A j \in i + 1 .. Len(lru) : lru[j] \notin Recyclable
       /\ sector' = [sector EXCEPT ![lru[i]] = want[p]]
       /\ busy' = busy \cup {lru[i]}
       /\ valid' = valid \ {lru[i]}
       /\ dirty' = dirty \ {lru[i]}
       /\ buf' = [buf EXCEPT ![p] = lru[i]]
  /\ Goto(p, "iderw")
  /\ UNCHANGED <<lru, data, drive, want>>

\* Every buffer is busy or dirty: panic("bget: no buffers").
BgetPanic(p) ==
  /\ pc[p] = "bget" /\ LockFree
  /\ Cached(want[p]) = {}
  /\ Recyclable = {}
  /\ Goto(p, "panic")
  /\ UNCHANGED <<cache, data, valid, dirty, drive, want, buf>>

\* The loop at the end of panic().
Panicked(p) == pc[p] = "panic" /\ UNCHANGED vars

-------------------------------------------------------------------------------
(* iderw, idestart, ideintr, and the drive                                    *)

IdeStart(b) == cmd' = [write |-> b \in dirty, sector |-> sector[b], val |-> data[b]]

\* Append b to idequeue, start the disk if necessary, wait for the request.
Iderw(p) ==
  /\ pc[p] = "iderw"
  /\ idequeue' = Append(idequeue, buf[p])
  /\ IF idequeue = <<>> THEN IdeStart(buf[p]) ELSE UNCHANGED cmd
  /\ Goto(p, "idesleep")
  /\ UNCHANGED <<cache, data, valid, dirty, irq, disk, errors, want, buf>>

\* The loop of iderw() after sleep().
IderwTest(p) ==
  /\ pc[p] = "idewoken"
  /\ Goto(p, IF buf[p] \in valid /\ buf[p] \notin dirty THEN "held" ELSE "idesleep")
  /\ UNCHANGED <<cache, data, valid, dirty, drive, want, buf>>

\* The drive, not under src/: it carries out the command and interrupts.
DriveDone ==
  /\ cmd # NoCmd
  /\ ~irq
  /\ disk' = IF cmd.write THEN [disk EXCEPT ![cmd.sector] = cmd.val] ELSE disk
  /\ irq' = TRUE
  /\ UNCHANGED <<cache, data, valid, dirty, idequeue, cmd, errors, pc, want, buf>>

\* On a read error ideintr() leaves the data alone, and sets B_VALID.
IdeIntr ==
  /\ irq
  /\ LET b == Head(idequeue) IN
       /\ \/ data' = [data EXCEPT ![b] = IF b \in dirty THEN @ ELSE disk[cmd.sector]]
          \/ errors /\ UNCHANGED data
       /\ valid' = valid \cup {b}
       /\ dirty' = dirty \ {b}
       /\ pc' = Wakeup(pc, b)
  /\ idequeue' = Tail(idequeue)
  /\ irq' = FALSE
  /\ IF Tail(idequeue) # <<>> THEN IdeStart(idequeue[2]) ELSE cmd' = NoCmd
  /\ UNCHANGED <<cache, disk, errors, want, buf>>

-------------------------------------------------------------------------------
(* What the holder of a buffer does with it                                   *)

\* New contents, and bwrite().
Bwrite(p, v) ==
  /\ pc[p] = "held"
  /\ data' = [data EXCEPT ![buf[p]] = v]
  /\ dirty' = dirty \cup {buf[p]}
  /\ Goto(p, "iderw")
  /\ UNCHANGED <<cache, valid, drive, want, buf>>

\* New contents, and log_write(), which sets B_DIRTY to prevent eviction.
Pin(p, v) ==
  /\ pc[p] = "held"
  /\ Cardinality(dirty \cup {buf[p]}) <= MaxPinned
  /\ data' = [data EXCEPT ![buf[p]] = v]
  /\ dirty' = dirty \cup {buf[p]}
  /\ UNCHANGED <<cache, valid, drive, pc, want, buf>>

\* The list with b unlinked and put back behind the head.
ToHead(b) ==
  LET k == CHOOSE i \in Buf : lru[i] = b
  IN  [i \in Buf |-> IF i = 1 THEN b ELSE IF i <= k THEN lru[i - 1] ELSE lru[i]]

\* Mutant: brelse() does not call wakeup().
Brelse_NoWakeup(p) ==
  /\ pc[p] = "held" /\ LockFree
  /\ lru' = ToHead(buf[p])
  /\ busy' = busy \ {buf[p]}
  /\ pc' = [pc EXCEPT ![p] = "idle"]
  /\ buf' = [buf EXCEPT ![p] = NoBuf]
  /\ want' = [want EXCEPT ![p] = NoSector]
  /\ UNCHANGED <<sector, data, valid, dirty, drive>>

\* Move to the head of the MRU list.
Brelse(p) ==
  /\ pc[p] = "held" /\ LockFree
  /\ lru' = ToHead(buf[p])
  /\ busy' = busy \ {buf[p]}
  /\ pc' = [Wakeup(pc, buf[p]) EXCEPT ![p] = "idle"]
  /\ buf' = [buf EXCEPT ![p] = NoBuf]
  /\ want' = [want EXCEPT ![p] = NoSector]
  /\ UNCHANGED <<sector, data, valid, dirty, drive>>

-------------------------------------------------------------------------------
Step(p) ==
  \/ BgetHit(p) \/ BgetSleep(p) \/ BgetRecycle(p) \/ BgetPanic(p)
  \/ Iderw(p) \/ IderwTest(p)

Next ==
  \/ \E p \in Proc : \/ \E s \in Sector : Bread(p, s)
                     \/ Step(p)
                     \/ \E v \in Val : Bwrite(p, v) \/ Pin(p, v)
                     \/ Brelse(p)
                     \/ Panicked(p)
  \/ DriveDone
  \/ IdeIntr

Spec == Init /\ [][Next]_vars
-------------------------------------------------------------------------------
(* Correctness.                                                               *)

TypeOK ==
  /\ lru \in [Buf -> Buf] /\ \A b \in Buf : \E i \in Buf : lru[i] = b
  /\ sector \in [Buf -> Sector \cup {NoSector}]
  /\ data \in [Buf -> Val]
  /\ busy \subseteq Buf /\ valid \subseteq Buf /\ dirty \subseteq Buf
  /\ idequeue \in Seq(Buf)
  /\ cmd \in [write : BOOLEAN, sector : Sector, val : Val] \cup {NoCmd}
  /\ irq \in BOOLEAN
  /\ disk \in [Sector -> Val]
  /\ pc \in [Proc -> {"idle", "bget", "bgetsleep", "iderw", "idesleep", "idewoken", "held", "panic"}]
  /\ want \in [Proc -> Sector \cup {NoSector}]
  /\ buf \in [Proc -> Buf \cup {NoBuf}]

Owns(p, b) == buf[p] = b /\ pc[p] \in {"iderw", "idesleep", "idewoken", "held"}

\* No sector has two buffers, however bget()'s sleepers and recyclers
\* interleave, and B_BUSY is a lock: each busy buffer is in the hands of one
\* process, and holds the sector that process asked for.
OneBuffer ==
  /\ \A b, c \in Buf : sector[b] = sector[c] /\ sector[b] # NoSector => b = c
  /\ \A b \in Buf : b \in busy <=> \E p \in Proc : Owns(p, b)
  /\ \A p, q \in Proc, b \in Buf : Owns(p, b) /\ Owns(q, b) => p = q
  /\ \A p \in Proc, b \in Buf : Owns(p, b) => sector[b] = want[p]

\* The flags of a queued buffer are ideintr()'s alone: idequeue lists exactly
\* the buffers whose owner is asleep in iderw() with its request not done, each
\* once, and the drive is working on the first one.
QueueServed ==
  /\ \A i, j \in 1 .. Len(idequeue) : idequeue[i] = idequeue[j] => i = j
  /\ \A b \in Buf : (\E i \in 1 .. Len(idequeue) : idequeue[i] = b)
                    <=> \E p \in Proc : Owns(p, b) /\ pc[p] = "idesleep"
  /\ \A i \in 1 .. Len(idequeue) : ~(idequeue[i] \in valid /\ idequeue[i] \notin dirty)
  /\ cmd = NoCmd <=> idequeue = <<>>
  /\ cmd # NoCmd => LET b == Head(idequeue) IN
       cmd.sector = sector[b] /\ cmd.val = data[b] /\ (cmd.write <=> b \in dirty)
  /\ irq => cmd # NoCmd

\* Whoever sleeps in bget() waits for a buffer somebody has yet to release, so
\* that a wakeup is still to come.
NoLostRelease == \A p \in Proc : pc[p] = "bgetsleep" => buf[p] \in busy

\* bread() returns "a B_BUSY buf with the contents of the indicated disk
\* sector": a valid, clean buffer agrees with the platter (where there are no
\* read errors), and nobody is given an invalid one.
ValidIsDisk ==
  /\ \A b \in valid : b \in dirty \/ data[b] = disk[sector[b]] \/ errors
  /\ \A p \in Proc : pc[p] = "held" => buf[p] \in valid

\* panic("iderw: buf not busy"), panic("iderw: nothing to do"), panic("bwrite"),
\* panic("brelse").
NoIdePanic ==
  /\ \A p \in Proc : pc[p] = "iderw" => /\ buf[p] \in busy
                                        /\ buf[p] \in valid => buf[p] \in dirty
  /\ \A p \in Proc : pc[p] = "held" => buf[p] \in busy

\* All of this together.
CacheSound ==
  TypeOK /\ OneBuffer /\ QueueServed /\ NoLostRelease /\ ValidIsDisk /\ NoIdePanic

\* What bread() would return for sector s.
Current(s) ==
  LET B == {b \in Cached(s) : b \in valid \/ b \in dirty}
  IN  IF B = {} THEN disk[s] ELSE data[CHOOSE b \in B : TRUE]

\* iderw() within bwrite() keeps the sector in the caller's hands.
Has(p) ==
  IF pc[p] = "held" \/ (pc[p] \in {"iderw", "idesleep", "idewoken"} /\ buf[p] \in valid)
  THEN want[p] ELSE NoSector

Store == INSTANCE BlockStore
  WITH store <- IF errors THEN [s \in Sector |-> CHOOSE v \in Val : TRUE]
                ELSE [s \in Sector |-> Current(s)], has <- [p \in Proc |-> Has(p)]

\* The cache and the driver together are a store with one current contents per
\* sector, given to one process at a time: recycling, the queue and the drive
\* are invisible.  (With read errors nothing is said of the contents.)
Implements == Store!SSpec
===============================================================================

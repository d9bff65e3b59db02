--------------------------------- MODULE Log ---------------------------------
(***************************************************************************)
(* The logging layer of the file system, log.c: a physical redo log that   *)
(* holds one transaction at a time, and its recovery after a crash.        *)
(*                                                                         *)
(* Persistent state is what the disk holds: the home blocks, the log       *)
(* blocks and the header block.  Volatile state is log.lh, log.busy, the   *)
(* buffer cache and where each process is.  Every action makes at most one *)
(* disk write, so Crash can fall between any two of them.  A sector write  *)
(* is atomic.  log.lh.sector[0..n-1] is the sequence lh, n its length.     *)
(***************************************************************************)
EXTENDS Integers, Sequences

CONSTANTS Proc, Block, Val,
          LogSize,      \* LOGSIZE of param.h, entries of a struct logheader
          LogSectors,   \* sb.nlog = log.size, sectors of the log, header included
          NoBuf,        \* the block is not in the buffer cache
          NoBlock,      \* the process has no modified, unlogged buffer
          NoProc

ASSUME LogAssumption ==
  /\ LogSize \in Nat \ {0}
  /\ LogSectors \in Nat \ {0}
  /\ NoBuf \notin Val
  /\ NoBlock \notin Block
  /\ NoProc \notin Proc

VARIABLES
  home,      \* disk: the sectors outside the log
  logData,   \* disk: sectors log.start+1 ..
  head,      \* disk: the header block at log.start
  lh,        \* log.lh
  busy,      \* log.busy
  cache,     \* buffer cache: data of the cached blocks
  dirty,     \* blocks whose buffer has B_DIRTY set
  pc,        \* where each process is in the transaction code
  wb,        \* the B_BUSY buffer a process has modified and not yet logged
  tail,      \* loop variable of install_trans
  boot,      \* "up", or the step of recover_from_log that runs next
  panicked   \* the kernel has called panic()

disk == <<home, logData, head>>
vars == <<home, logData, head, lh, busy, cache, dirty, pc, wb, tail, boot, panicked>>

Slot == 1 .. LogSectors - 1

Init ==
  /\ home \in [Block -> Val]
  /\ logData \in [Slot -> Val]
  /\ head = <<>>
  /\ lh = <<>>
  /\ busy = FALSE
  /\ cache = [b \in Block |-> NoBuf]
  /\ dirty = {}
  /\ pc = [p \in Proc |-> "idle"]
  /\ wb = [p \in Proc |-> NoBlock]
  /\ tail = 1
  /\ boot = "readhead"
  /\ panicked = FALSE

Running == boot = "up" /\ ~panicked

-----------------------------------------------------------------------------
(* Buffer cache, as far as the log depends on it.                           *)

Busy(b) == \E p \in Proc : wb[p] = b

\* bread() of a block that is not cached.
Fill(b) ==
  /\ Running
  /\ cache[b] = NoBuf
  /\ cache' = [cache EXCEPT ![b] = home[b]]
  /\ UNCHANGED <<disk, lh, busy, dirty, pc, wb, tail, boot, panicked>>

\* bget() recycles a buffer that is neither B_BUSY nor B_DIRTY.
Evict(b) ==
  /\ Running
  /\ cache[b] # NoBuf
  /\ b \notin dirty
  /\ ~Busy(b)
  /\ cache' = [cache EXCEPT ![b] = NoBuf]
  /\ UNCHANGED <<disk, lh, busy, dirty, pc, wb, tail, boot, panicked>>

-----------------------------------------------------------------------------
(* begin_trans                                                              *)

\* Mutant: begin_trans does not wait for the running transaction.
BeginTrans_NoWait(p) ==
  /\ Running
  /\ pc[p] \in {"idle", "woken"}
  /\ busy' = TRUE
  /\ pc' = [pc EXCEPT ![p] = "trans"]
  /\ UNCHANGED <<disk, lh, cache, dirty, wb, tail, boot, panicked>>

\* The loop test finds log.busy clear, on entry or after a wakeup.
BeginTrans(p) ==
  /\ Running
  /\ pc[p] \in {"idle", "woken"}
  /\ ~busy
  /\ busy' = TRUE
  /\ pc' = [pc EXCEPT ![p] = "trans"]
  /\ UNCHANGED <<disk, lh, cache, dirty, wb, tail, boot, panicked>>

\* It finds log.busy set: sleep(&log, &log.lock).
BeginSleep(p) ==
  /\ Running
  /\ pc[p] \in {"idle", "woken"}
  /\ busy
  /\ pc' = [pc EXCEPT ![p] = "asleep"]
  /\ UNCHANGED <<disk, lh, busy, cache, dirty, wb, tail, boot, panicked>>

-----------------------------------------------------------------------------
(* A write of the file system: bread, modify, log_write, brelse.            *)

Modify(p, b, v) ==
  /\ Running
  /\ pc[p] = "trans"
  /\ cache[b] # NoBuf
  /\ ~Busy(b)
  /\ cache' = [cache EXCEPT ![b] = v]
  /\ wb' = [wb EXCEPT ![p] = b]
  /\ pc' = [pc EXCEPT ![p] = "logging"]
  /\ UNCHANGED <<disk, lh, busy, dirty, tail, boot, panicked>>

LogFull == Len(lh) >= LogSize \/ Len(lh) >= LogSectors - 1

\* Log absorption: a sector logged before keeps its slot.
SlotFor(b) ==
  IF \E i \in 1 .. Len(lh) : lh[i] = b
  THEN CHOOSE i \in 1 .. Len(lh) : lh[i] = b
  ELSE Len(lh) + 1

\* Where the transaction's sector list ends after b has been logged.
Record(b) == IF SlotFor(b) > Len(lh) THEN Append(lh, b) ELSE lh

LogWrite(p) ==
  /\ Running
  /\ pc[p] = "logging"
  /\ ~LogFull
  /\ busy
  /\ logData' = [logData EXCEPT ![SlotFor(wb[p])] = cache[wb[p]]]
  /\ lh' = Record(wb[p])
  /\ dirty' = dirty \cup {wb[p]}
  /\ wb' = [wb EXCEPT ![p] = NoBlock]
  /\ pc' = [pc EXCEPT ![p] = "trans"]
  /\ UNCHANGED <<home, head, busy, cache, tail, boot, panicked>>

\* panic("too big a transaction") or panic("write outside of trans").
LogWritePanic(p) ==
  /\ Running
  /\ pc[p] = "logging"
  /\ LogFull \/ ~busy
  /\ panicked' = TRUE
  /\ UNCHANGED <<disk, lh, busy, cache, dirty, pc, wb, tail, boot>>

-----------------------------------------------------------------------------
(* commit_trans                                                             *)

\* Mutant: commit_trans installs without having written the header.
CommitTrans_NoHeader(p) ==
  /\ Running
  /\ pc[p] = "trans"
  /\ pc' = [pc EXCEPT ![p] = IF Len(lh) > 0 THEN "install" ELSE "end"]
  /\ UNCHANGED <<disk, lh, busy, cache, dirty, wb, tail, boot, panicked>>

CommitTrans(p) ==
  /\ Running
  /\ pc[p] = "trans"
  /\ pc' = [pc EXCEPT ![p] = IF Len(lh) > 0 THEN "head" ELSE "end"]
  /\ UNCHANGED <<disk, lh, busy, cache, dirty, wb, tail, boot, panicked>>

\* write_head() with the sectors of the transaction: the real commit.
WriteHead(p) ==
  /\ Running
  /\ pc[p] = "head"
  /\ head' = lh
  /\ tail' = 1
  /\ pc' = [pc EXCEPT ![p] = "install"]
  /\ UNCHANGED <<home, logData, lh, busy, cache, dirty, wb, boot, panicked>>

\* One round of the loop of install_trans; bwrite() clears B_DIRTY.
InstallTrans ==
  /\ tail <= Len(lh)
  /\ home' = [home EXCEPT ![lh[tail]] = logData[tail]]
  /\ cache' = [cache EXCEPT ![lh[tail]] = logData[tail]]
  /\ dirty' = dirty \ {lh[tail]}
  /\ tail' = tail + 1
  /\ UNCHANGED <<logData, head, lh>>

\* Mutant: the header is erased before every block has been installed.
EraseHead_Early ==
  /\ lh' = <<>>
  /\ head' = <<>>
  /\ tail' = 1
  /\ UNCHANGED <<home, logData, cache, dirty>>

\* log.lh.n = 0; write_head().
EraseHead ==
  /\ tail > Len(lh)
  /\ lh' = <<>>
  /\ head' = <<>>
  /\ tail' = 1
  /\ UNCHANGED <<home, logData, cache, dirty>>

Install(p) ==
  /\ Running
  /\ pc[p] = "install"
  /\ InstallTrans
  /\ UNCHANGED <<busy, pc, wb, boot, panicked>>

Erase(p) ==
  /\ Running
  /\ pc[p] = "install"
  /\ EraseHead
  /\ pc' = [pc EXCEPT ![p] = "end"]
  /\ UNCHANGED <<busy, wb, boot, panicked>>

\* Mutant: commit_trans does not wake the processes waiting in begin_trans.
EndTrans_NoWakeup(p) ==
  /\ Running
  /\ pc[p] = "end"
  /\ busy' = FALSE
  /\ pc' = [pc EXCEPT ![p] = "idle"]
  /\ UNCHANGED <<disk, lh, cache, dirty, wb, tail, boot, panicked>>

\* log.busy = 0; wakeup(&log).
EndTrans(p) ==
  /\ Running
  /\ pc[p] = "end"
  /\ busy' = FALSE
  /\ pc' = [q \in Proc |-> IF q = p THEN "idle"
                           ELSE IF pc[q] = "asleep" THEN "woken" ELSE pc[q]]
  /\ UNCHANGED <<disk, lh, cache, dirty, wb, tail, boot, panicked>>

-----------------------------------------------------------------------------
(* Power failure (or the reset that follows a panic), and recovery: the     *)
(* first process runs initlog() before anything else uses the disk.         *)

Crash ==
  /\ lh' = <<>>
  /\ busy' = FALSE
  /\ cache' = [b \in Block |-> NoBuf]
  /\ dirty' = {}
  /\ pc' = [p \in Proc |-> "idle"]
  /\ wb' = [p \in Proc |-> NoBlock]
  /\ tail' = 1
  /\ boot' = "readhead"
  /\ panicked' = FALSE
  /\ UNCHANGED disk

ReadHead ==
  /\ boot = "readhead"
  /\ lh' = head
  /\ tail' = 1
  /\ boot' = "install"
  /\ UNCHANGED <<disk, busy, cache, dirty, pc, wb, panicked>>

RecoverInstall ==
  /\ boot = "install"
  /\ InstallTrans
  /\ UNCHANGED <<busy, pc, wb, boot, panicked>>

RecoverErase ==
  /\ boot = "install"
  /\ EraseHead
  /\ boot' = "up"
  /\ UNCHANGED <<busy, pc, wb, panicked>>

-----------------------------------------------------------------------------
CommitStep(p) == WriteHead(p) \/ Install(p) \/ Erase(p) \/ EndTrans(p)

Recover == ReadHead \/ RecoverInstall \/ RecoverErase

Next ==
  \/ \E p \in Proc :
       \/ BeginTrans(p) \/ BeginSleep(p)
       \/ \E b \in Block, v \in Val : Modify(p, b, v)
       \/ LogWrite(p) \/ LogWritePanic(p)
       \/ CommitTrans(p) \/ CommitStep(p)
  \/ \E b \in Block : Fill(b) \/ Evict(b)
  \/ Crash
  \/ Recover

Spec == Init /\ [][Next]_vars

-----------------------------------------------------------------------------
(* Correctness.                                                             *)

TypeOK ==
  /\ home \in [Block -> Val]
  /\ logData \in [Slot -> Val]
  /\ head \in Seq(Block)
  /\ lh \in Seq(Block)
  /\ busy \in BOOLEAN
  /\ cache \in [Block -> Val \cup {NoBuf}]
  /\ dirty \in SUBSET Block
  /\ pc \in [Proc -> {"idle", "asleep", "woken", "trans", "logging",
                      "head", "install", "end"}]
  /\ wb \in [Proc -> Block \cup {NoBlock}]
  /\ tail \in Nat \ {0}
  /\ boot \in {"readhead", "install", "up"}
  /\ panicked \in BOOLEAN

InTrans(p) == pc[p] \in {"trans", "logging", "head", "install", "end"}

\* begin_trans() lets one process in: log.busy is set exactly while some
\* process is between begin_trans and the end of commit_trans, and never two.
OneTransaction ==
  /\ busy <=> \E p \in Proc : InTrans(p)
  /\ \A p, q \in Proc : InTrans(p) /\ InTrans(q) => p = q

\* No lost wakeup in begin_trans: whoever sleeps on &log sleeps behind a
\* transaction whose commit_trans has still to call wakeup(&log).
SleeperHasOwner ==
  (\E p \in Proc : pc[p] = "asleep") => busy

\* B_DIRTY ("XXX prevent eviction", log_write) keeps each logged block in the
\* cache, with the contents its log slot has, until install_trans has copied
\* it home; every other cached block agrees with the disk.
Uninstalled == {i \in 1 .. Len(lh) : boot = "up" /\ (tail <= i)}

LoggedIsPinned ==
  /\ \A i \in Uninstalled :
       lh[i] \in dirty /\ (Busy(lh[i]) \/ cache[lh[i]] = logData[i])
  /\ \A b \in Block :
       \/ cache[b] \in {NoBuf, home[b]}
       \/ Busy(b)
       \/ \E i \in Uninstalled : lh[i] = b

Distinct(h) == \A i, j \in 1 .. Len(h) : h[i] = h[j] => i = j

Installing == \E p \in Proc : pc[p] = "install"

\* Write-ahead: no home block is written before write_head() has put the
\* transaction's sectors in the on-disk header, the header stays until every
\* one of them is home, and outside of that window it is empty; log.lh lists
\* each sector once (absorption) and fits the log area.
WriteAhead ==
  /\ Distinct(lh) /\ Len(lh) < LogSectors /\ Len(lh) <= LogSize
  /\ Distinct(head) /\ Len(head) < LogSectors /\ Len(head) <= LogSize
  /\ tail <= Len(lh) + 1
  /\ \A i \in 1 .. Len(lh) : i < tail => home[lh[i]] = logData[i]
  /\ boot = "readhead" => lh = <<>>
  /\ boot = "install" => lh = head
  /\ boot = "up" => head = IF Installing THEN lh ELSE <<>>
  /\ boot = "up" /\ ~busy => lh = <<>>
  /\ boot # "install" /\ ~Installing => tail = 1

\* Until recovery is over nothing else runs, and a process holds a modified
\* buffer exactly between its bread and the end of its log_write.
Quiet ==
  /\ boot # "up" => ~busy /\ ~panicked /\ dirty = {} /\ \A p \in Proc : pc[p] = "idle"
  /\ boot = "readhead" => \A b \in Block : cache[b] = NoBuf
  /\ \A p \in Proc : wb[p] # NoBlock <=> pc[p] = "logging"
  /\ \A p \in Proc : wb[p] # NoBlock => cache[wb[p]] # NoBuf
  /\ \A p \in Proc : boot = "up" /\ pc[p] = "end" => lh = <<>>

\* What the disk holds once recover_from_log has replayed the header h.
Replay(h) ==
  [b \in Block |-> IF \E i \in 1 .. Len(h) : h[i] = b
                   THEN logData[CHOOSE i \in 1 .. Len(h) : h[i] = b]
                   ELSE home[b]]

View == [b \in Block |-> IF cache[b] = NoBuf THEN home[b] ELSE cache[b]]

\* The abstract transaction is over once the header has been erased.
Open(p) == pc[p] \in {"trans", "logging", "head", "install"}

Owner == IF \E p \in Proc : Open(p) THEN CHOOSE p \in Proc : Open(p) ELSE NoProc

Disk == INSTANCE AtomicDisk WITH
          committed <- Replay(head),
          view      <- IF boot = "up" THEN View ELSE Replay(head),
          owner     <- Owner,
          sealed    <- \E p \in Proc : pc[p] = "install"

\* The log implements the atomic disk: the writes of a transaction become
\* durable in one step, write_head() in commit_trans, or are all lost; a crash
\* at any point, recovery included, loses nothing that was committed; and
\* bread() always returns the latest write.
Implements == Disk!ASpec

-----------------------------------------------------------------------------
(* Liveness.                                                                *)

\* A process inside log_write or commit_trans keeps running, and a system call
\* makes finitely many writes before it calls commit_trans.  A woken process
\* is scheduled again, and recovery runs on.  Nobody is forced to begin a
\* transaction, to write or to crash.
Fairness ==
  /\ \A p \in Proc : /\ WF_vars(LogWrite(p) \/ LogWritePanic(p))
                     /\ SF_vars(CommitTrans(p))
                     /\ WF_vars(CommitStep(p))
                     /\ WF_vars(pc[p] = "woken" /\ (BeginTrans(p) \/ BeginSleep(p)))
  /\ WF_vars(Recover)

LiveSpec == Spec /\ Fairness

\* A process asleep in begin_trans is woken by the end of the transaction.
SleeperWakes == \A p \in Proc : pc[p] = "asleep" ~> (pc[p] # "asleep" \/ panicked)

=============================================================================

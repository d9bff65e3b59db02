------------------------------ MODULE LogProofs ------------------------------
(***************************************************************************)
(* Proofs about Log, for every set of processes, blocks and values and     *)
(* every size of the log.                                                  *)
(***************************************************************************)
EXTENDS Log, TLAPS

\* The prover of the leaves that name none.
USE ZenonT(30)

Inv ==
  /\ TypeOK
  /\ OneTransaction
  /\ SleeperHasOwner
  /\ LoggedIsPinned
  /\ WriteAhead
  /\ Quiet

USE LogAssumption

\* Appending to log.lh a sector it does not list, or leaving it alone when it
\* does (log absorption), keeps it free of duplicates; the slot is the one the
\* new list gives to the sector, and the other slots keep their sectors.
LEMMA RecordFacts ==
  ASSUME lh \in Seq(Block), Distinct(lh), NEW b \in Block
  PROVE  /\ Record(b) \in Seq(Block)
         /\ Distinct(Record(b))
         /\ SlotFor(b) \in 1 .. Len(Record(b))
         /\ Record(b)[SlotFor(b)] = b
         /\ Len(Record(b)) \in {Len(lh), Len(lh) + 1}
         /\ \A i \in 1 .. Len(Record(b)) :
              i # SlotFor(b) => i \in 1 .. Len(lh) /\ Record(b)[i] = lh[i]
<1>1. CASE \E i \in 1 .. Len(lh) : lh[i] = b
  <2>1. SlotFor(b) \in 1 .. Len(lh) /\ lh[SlotFor(b)] = b
    BY <1>1 DEF SlotFor
  <2>2. Record(b) = lh
    BY <2>1, SMTT(30) DEF Record
  <2> QED BY <2>1, <2>2
<1>2. CASE ~ \E i \in 1 .. Len(lh) : lh[i] = b
  <2>1. SlotFor(b) = Len(lh) + 1
    BY <1>2 DEF SlotFor
  <2>2. Record(b) = Append(lh, b)
    BY <2>1, SMTT(30) DEF Record
  <2>3. /\ Append(lh, b) \in Seq(Block)
        /\ Len(Append(lh, b)) = Len(lh) + 1
        /\ Append(lh, b)[Len(lh) + 1] = b
        /\ \A i \in 1 .. Len(lh) : Append(lh, b)[i] = lh[i]
    BY SMTT(30)
  <2>4. Distinct(Append(lh, b))
    BY <1>2, <2>3, SMTT(30) DEF Distinct
  <2> QED BY <2>1, <2>2, <2>3, <2>4, SMTT(30)
<1> QED BY <1>1, <1>2

USE DEF Running, disk

\* begin_trans() finds the log free and takes it.
LEMMA BeginTransInv ==
  ASSUME Inv, NEW p \in Proc, BeginTrans(p)
  PROVE  Inv'
<1>1. TypeOK'
  BY DEF Inv, TypeOK, BeginTrans
<1>2. OneTransaction'
  BY SMTT(30) DEF Inv, TypeOK, OneTransaction, InTrans, BeginTrans
<1>3. SleeperHasOwner'
  BY DEF SleeperHasOwner, BeginTrans
<1>4. LoggedIsPinned'
  BY SMTT(30) DEF Inv, LoggedIsPinned, Uninstalled, Busy, BeginTrans
<1>5. WriteAhead'
  BY SMTT(30) DEF Inv, WriteAhead, Installing, BeginTrans
<1>6. Quiet'
  BY SMTT(30) DEF Inv, Quiet, BeginTrans
<1> QED BY <1>1, <1>2, <1>3, <1>4, <1>5, <1>6 DEF Inv

\* begin_trans() finds the log busy: there is an owner to wake the sleeper.
LEMMA BeginSleepInv ==
  ASSUME Inv, NEW p \in Proc, BeginSleep(p)
  PROVE  Inv'
<1>1. TypeOK'
  BY DEF Inv, TypeOK, BeginSleep
<1>2. OneTransaction'
  BY SMTT(30) DEF Inv, OneTransaction, InTrans, BeginSleep
<1>3. SleeperHasOwner'
  BY DEF SleeperHasOwner, BeginSleep
<1>4. LoggedIsPinned'
  BY DEF Inv, LoggedIsPinned, Uninstalled, Busy, BeginSleep
<1>5. WriteAhead'
  BY SMTT(30) DEF Inv, WriteAhead, Installing, BeginSleep
<1>6. Quiet'
  BY SMTT(30) DEF Inv, Quiet, BeginSleep
<1> QED BY <1>1, <1>2, <1>3, <1>4, <1>5, <1>6 DEF Inv

\* A system call changes a block it holds B_BUSY; the block is exempt from
\* LoggedIsPinned until log_write has seen it.
LEMMA ModifyInv ==
  ASSUME Inv, NEW p \in Proc, NEW b \in Block, NEW v \in Val, Modify(p, b, v)
  PROVE  Inv'
<1>1. TypeOK'
  BY DEF Inv, TypeOK, Modify
<1>2. OneTransaction'
  BY SMTT(30) DEF Inv, OneTransaction, InTrans, Modify
<1>3. SleeperHasOwner'
  BY SMTT(30) DEF Inv, SleeperHasOwner, Modify
<1>4. LoggedIsPinned'
  <2>1. \A c \in Block : Busy(c)' <=> Busy(c) \/ c = b
    BY DEF Inv, TypeOK, Quiet, Busy, Modify
  <2>2. \A c \in Block \ {b} : cache'[c] = cache[c]
    BY DEF Inv, TypeOK, Modify
  <2>3. /\ Uninstalled' = Uninstalled /\ lh' = lh /\ dirty' = dirty
        /\ home' = home /\ logData' = logData
    BY DEF Uninstalled, Modify
  <2>4. \A i \in Uninstalled : lh[i] \in Block
    BY SMTT(30) DEF Inv, TypeOK, Uninstalled
  <2> QED BY <2>1, <2>2, <2>3, <2>4 DEF Inv, LoggedIsPinned
<1>5. WriteAhead'
  BY SMTT(30) DEF Inv, WriteAhead, Installing, Modify
<1>6. Quiet'
  BY DEF Inv, TypeOK, Quiet, Modify
<1> QED BY <1>1, <1>2, <1>3, <1>4, <1>5, <1>6 DEF Inv

\* log_write() copies the block into the slot it has, or gets, in log.lh, and
\* pins the buffer with B_DIRTY.
LEMMA LogWriteInv ==
  ASSUME Inv, NEW p \in Proc, LogWrite(p)
  PROVE  Inv'
<1> DEFINE b == wb[p]
           s == SlotFor(b)
<1>b. b \in Block /\ cache[b] \in Val /\ lh \in Seq(Block) /\ Distinct(lh)
  BY SMTT(30) DEF Inv, TypeOK, Quiet, WriteAhead, LogWrite
<1>r. /\ lh' \in Seq(Block) /\ Distinct(lh')
      /\ s \in 1 .. Len(lh') /\ lh'[s] = b
      /\ Len(lh') \in {Len(lh), Len(lh) + 1}
      /\ \A i \in 1 .. Len(lh') : i # s => i \in 1 .. Len(lh) /\ lh'[i] = lh[i]
  BY <1>b, RecordFacts DEF LogWrite
<1>s. s \in Slot /\ Len(lh') < LogSectors /\ Len(lh') <= LogSize
  BY <1>b, <1>r, SMTT(30) DEF LogWrite, LogFull, Slot
<1>1. TypeOK'
  BY <1>b, <1>r DEF Inv, TypeOK, LogWrite
<1>2. OneTransaction'
  BY SMTT(30) DEF Inv, OneTransaction, InTrans, LogWrite
<1>3. SleeperHasOwner'
  BY DEF SleeperHasOwner, LogWrite
<1>4. LoggedIsPinned'
  <2>1. \A q \in Proc : q # p => wb[q] = NoBlock
    BY DEF Inv, OneTransaction, InTrans, Quiet, LogWrite
  <2>2. boot = "up" /\ tail = 1
    BY DEF Inv, OneTransaction, InTrans, WriteAhead, Installing, LogWrite
  <2>3. \A i \in 1 .. Len(lh') :
          lh'[i] \in dirty' /\ cache[lh'[i]] = logData'[i]
    <3> TAKE i \in 1 .. Len(lh')
    <3>1. CASE i = s
      BY <3>1, <1>r, <1>s DEF Inv, TypeOK, LogWrite
    <3>2. CASE i # s
      <4>1. i \in 1 .. Len(lh) /\ lh'[i] = lh[i] /\ lh[i] # b
        BY <3>2, <1>r DEF Distinct
      <4>2. lh[i] \in Block /\ lh[i] \in dirty /\ (Busy(lh[i]) \/ cache[lh[i]] = logData[i])
        BY <4>1, <2>2, SMTT(30) DEF Inv, LoggedIsPinned, Uninstalled, TypeOK
      <4>3. ~ Busy(lh[i])
        BY <4>1, <4>2, <2>1 DEF Busy
      <4>4. logData'[i] = logData[i]
        BY <3>2, <4>1, <1>s, <1>r, SMTT(30) DEF Inv, TypeOK, LogWrite, Slot
      <4> QED BY <4>1, <4>2, <4>3, <4>4 DEF LogWrite
    <3> QED BY <3>1, <3>2
  <2>4. \A c \in Block : \/ cache[c] \in {NoBuf, home[c]}
                         \/ \E i \in 1 .. Len(lh') : lh'[i] = c
    <3> TAKE c \in Block
    <3>1. CASE c = b
      BY <3>1, <1>r
    <3>2. CASE c # b /\ \E i \in 1 .. Len(lh) : lh[i] = c
      <4>1. PICK i \in 1 .. Len(lh) : lh[i] = c
        BY <3>2
      <4>2. i \in 1 .. Len(lh') /\ (i # s => lh'[i] = lh[i])
        BY <4>1, <1>r, SMTT(30)
      <4>3. lh'[i] = c
        BY <3>2, <4>1, <1>b, <4>2, <1>r, SMTT(30) DEF LogWrite, Record, SlotFor
      <4> QED BY <4>2, <4>3
    <3>3. CASE c # b /\ ~ \E i \in 1 .. Len(lh) : lh[i] = c
      BY <3>3, <2>1, <2>2 DEF Inv, LoggedIsPinned, Uninstalled, Busy
    <3> QED BY <3>1, <3>2, <3>3
  <2> QED BY <2>2, <2>3, <2>4, <1>r, SMTT(30) DEF LoggedIsPinned, Uninstalled, LogWrite
<1>5. WriteAhead'
  <2>1. boot = "up" /\ tail = 1 /\ head = <<>> /\ ~ Installing
    BY DEF Inv, OneTransaction, InTrans, WriteAhead, Installing, LogWrite
  <2>2. ~ Installing'
    BY <2>1 DEF Inv, TypeOK, Installing, LogWrite
  <2> QED BY <2>1, <2>2, <1>r, <1>s, SMTT(30) DEF Inv, WriteAhead, Distinct, LogWrite
<1>6. Quiet'
  BY SMTT(30) DEF Inv, TypeOK, OneTransaction, InTrans, Quiet, LogWrite
<1> QED BY <1>1, <1>2, <1>3, <1>4, <1>5, <1>6 DEF Inv

\* The panics of log_write() leave the log as it is.
LEMMA LogWritePanicInv ==
  ASSUME Inv, NEW p \in Proc, LogWritePanic(p)
  PROVE  Inv'
<1>1. TypeOK'
  BY DEF Inv, TypeOK, LogWritePanic
<1>2. OneTransaction'
  BY DEF Inv, OneTransaction, InTrans, LogWritePanic
<1>3. SleeperHasOwner'
  BY DEF Inv, SleeperHasOwner, LogWritePanic
<1>4. LoggedIsPinned'
  BY SMTT(30) DEF Inv, LoggedIsPinned, Uninstalled, Busy, LogWritePanic
<1>5. WriteAhead'
  BY DEF Inv, WriteAhead, Installing, LogWritePanic
<1>6. Quiet'
  BY DEF Inv, Quiet, LogWritePanic
<1> QED BY <1>1, <1>2, <1>3, <1>4, <1>5, <1>6 DEF Inv

\* commit_trans() moves on to write_head() or, with nothing logged, to the end.
LEMMA CommitTransInv ==
  ASSUME Inv, NEW p \in Proc, CommitTrans(p)
  PROVE  Inv'
<1>1. TypeOK'
  BY DEF Inv, TypeOK, CommitTrans
<1>2. OneTransaction'
  BY SMTT(30) DEF Inv, OneTransaction, InTrans, CommitTrans
<1>3. SleeperHasOwner'
  BY SMTT(30) DEF Inv, SleeperHasOwner, CommitTrans
<1>4. LoggedIsPinned'
  BY DEF Inv, LoggedIsPinned, Uninstalled, Busy, CommitTrans
<1>5. WriteAhead'
  BY SMTT(30) DEF Inv, WriteAhead, Installing, CommitTrans
<1>6. Quiet'
  BY SMTT(30) DEF Inv, Quiet, CommitTrans
<1> QED BY <1>1, <1>2, <1>3, <1>4, <1>5, <1>6 DEF Inv

\* write_head() is the step that commits: the header on disk becomes log.lh.
LEMMA WriteHeadInv ==
  ASSUME Inv, NEW p \in Proc, WriteHead(p)
  PROVE  Inv'
<1>1. TypeOK'
  BY SMTT(30) DEF Inv, TypeOK, WriteHead
<1>2. OneTransaction'
  BY SMTT(30) DEF Inv, OneTransaction, InTrans, WriteHead
<1>3. SleeperHasOwner'
  BY SMTT(30) DEF Inv, SleeperHasOwner, WriteHead
<1>4. LoggedIsPinned'
  <2>1. tail = 1
    BY DEF Inv, OneTransaction, InTrans, WriteAhead, Installing, WriteHead
  <2> QED BY <2>1 DEF Inv, LoggedIsPinned, Uninstalled, Busy, WriteHead
<1>5. WriteAhead'
  BY SMTT(30) DEF Inv, TypeOK, WriteAhead, Installing, WriteHead
<1>6. Quiet'
  BY SMTT(30) DEF Inv, Quiet, WriteHead
<1> QED BY <1>1, <1>2, <1>3, <1>4, <1>5, <1>6 DEF Inv

\* A round of the loop of install_trans() during a commit.
LEMMA InstallInv ==
  ASSUME Inv, NEW p \in Proc, Install(p)
  PROVE  Inv'
<1>1. TypeOK'
  <2>1. lh[tail] \in Block /\ logData[tail] \in Val
    BY SMTT(30) DEF Inv, TypeOK, WriteAhead, Slot, Install, InstallTrans
  <2> QED BY <2>1, SMTT(30) DEF Inv, TypeOK, Install, InstallTrans
<1>2. OneTransaction'
  BY DEF Inv, OneTransaction, InTrans, Install
<1>3. SleeperHasOwner'
  BY DEF Inv, SleeperHasOwner, Install
<1>4. LoggedIsPinned'
  <2>1. lh[tail] \in Block /\ tail \in 1 .. Len(lh)
    BY SMTT(30) DEF Inv, TypeOK, Install, InstallTrans
  <2>2. Uninstalled' = Uninstalled \ {tail} /\ Uninstalled \subseteq 1 .. Len(lh)
    BY SMTT(30) DEF Inv, TypeOK, Uninstalled, Install, InstallTrans
  <2>3. \A i \in Uninstalled' : lh[i] # lh[tail]
    BY <2>1, <2>2 DEF Inv, WriteAhead, Distinct
  <2>4. \A c : Busy(c)' <=> Busy(c)
    BY DEF Busy, Install
  <2> QED BY <2>1, <2>2, <2>3, <2>4, SMTT(30) DEF Inv, TypeOK, LoggedIsPinned, Install, InstallTrans
<1>5. WriteAhead'
  BY SMTT(30) DEF Inv, TypeOK, WriteAhead, Distinct, Installing, Install, InstallTrans
<1>6. Quiet'
  BY SMTT(30) DEF Inv, OneTransaction, InTrans, LoggedIsPinned, Uninstalled, Quiet,
     Install
<1> QED BY <1>1, <1>2, <1>3, <1>4, <1>5, <1>6 DEF Inv

\* commit_trans() empties log.lh and the header once everything is home.
LEMMA EraseInv ==
  ASSUME Inv, NEW p \in Proc, Erase(p)
  PROVE  Inv'
<1>1. TypeOK'
  BY SMTT(30) DEF Inv, TypeOK, Erase, EraseHead
<1>2. OneTransaction'
  BY SMTT(30) DEF Inv, OneTransaction, InTrans, Erase
<1>3. SleeperHasOwner'
  BY SMTT(30) DEF Inv, SleeperHasOwner, Erase
<1>4. LoggedIsPinned'
  BY SMTT(30) DEF Inv, TypeOK, LoggedIsPinned, Uninstalled, Busy, WriteAhead, Erase,
     EraseHead
<1>5. WriteAhead'
  BY SMTT(30) DEF WriteAhead, Distinct, Erase, EraseHead
<1>6. Quiet'
  BY SMTT(30) DEF Inv, Quiet, Erase, EraseHead
<1> QED BY <1>1, <1>2, <1>3, <1>4, <1>5, <1>6 DEF Inv

\* commit_trans() clears log.busy and wakes everyone who sleeps on &log.
LEMMA EndTransInv ==
  ASSUME Inv, NEW p \in Proc, EndTrans(p)
  PROVE  Inv'
<1>1. TypeOK'
  <2>1. pc' \in [Proc -> {"idle", "asleep", "woken", "trans", "logging",
                          "head", "install", "end"}]
    BY DEF Inv, TypeOK, EndTrans
  <2> QED BY <2>1 DEF Inv, TypeOK, EndTrans
<1>2. OneTransaction'
  BY DEF Inv, OneTransaction, InTrans, EndTrans
<1>3. SleeperHasOwner'
  BY DEF SleeperHasOwner, EndTrans
<1>4. LoggedIsPinned'
  BY DEF Inv, LoggedIsPinned, Uninstalled, Busy, EndTrans
<1>5. WriteAhead'
  BY DEF Inv, WriteAhead, Installing, Quiet, EndTrans
<1>6. Quiet'
  BY DEF Inv, Quiet, EndTrans
<1> QED BY <1>1, <1>2, <1>3, <1>4, <1>5, <1>6 DEF Inv

\* bread() of a block that was not cached agrees with the disk.
LEMMA FillInv ==
  ASSUME Inv, NEW b \in Block, Fill(b)
  PROVE  Inv'
<1>1. TypeOK'
  BY DEF Inv, TypeOK, Fill
<1>2. OneTransaction'
  BY DEF Inv, OneTransaction, InTrans, Fill
<1>3. SleeperHasOwner'
  BY DEF Inv, SleeperHasOwner, Fill
<1>4. LoggedIsPinned'
  <2>1. Uninstalled' = Uninstalled /\ \A c : Busy(c)' <=> Busy(c)
    BY DEF Uninstalled, Busy, Fill
  <2>2. \A i \in Uninstalled : lh[i] \in Block /\ (cache[lh[i]] = logData[i] => lh[i] # b)
    BY SMTT(30) DEF Inv, TypeOK, WriteAhead, Uninstalled, Slot, Fill
  <2> QED BY <2>1, <2>2 DEF Inv, TypeOK, LoggedIsPinned, Uninstalled, Fill
<1>5. WriteAhead'
  BY DEF Inv, WriteAhead, Installing, Fill
<1>6. Quiet'
  BY SMTT(30) DEF Inv, Quiet, Fill
<1> QED BY <1>1, <1>2, <1>3, <1>4, <1>5, <1>6 DEF Inv

\* bget() recycles only buffers that are neither B_BUSY nor B_DIRTY.
LEMMA EvictInv ==
  ASSUME Inv, NEW b \in Block, Evict(b)
  PROVE  Inv'
<1>1. TypeOK'
  BY DEF Inv, TypeOK, Evict
<1>2. OneTransaction'
  BY DEF Inv, OneTransaction, InTrans, Evict
<1>3. SleeperHasOwner'
  BY DEF Inv, SleeperHasOwner, Evict
<1>4. LoggedIsPinned'
  <2>1. \A i \in Uninstalled : lh[i] # b
    BY DEF Inv, LoggedIsPinned, Evict
  <2>2. Uninstalled' = Uninstalled /\ \A c : Busy(c)' <=> Busy(c)
    BY DEF Uninstalled, Busy, Evict
  <2> QED BY <2>1, <2>2, SMTT(30) DEF Inv, TypeOK, LoggedIsPinned, Uninstalled, Evict
<1>5. WriteAhead'
  BY DEF Inv, WriteAhead, Installing, Evict
<1>6. Quiet'
  BY SMTT(30) DEF Inv, Busy, Quiet, Evict
<1> QED BY <1>1, <1>2, <1>3, <1>4, <1>5, <1>6 DEF Inv

\* A crash loses memory and keeps the header and the blocks on disk.
LEMMA CrashInv ==
  ASSUME Inv, Crash
  PROVE  Inv'
<1>1. TypeOK'
  <2>1. /\ cache' \in [Block -> Val \cup {NoBuf}]
        /\ wb' \in [Proc -> Block \cup {NoBlock}]
    BY DEF Crash
  <2>2. pc' \in [Proc -> {"idle", "asleep", "woken", "trans", "logging",
                          "head", "install", "end"}]
    BY DEF Crash
  <2>3. lh' \in Seq(Block) /\ tail' \in Nat \ {0} /\ dirty' \in SUBSET Block
    BY SMTT(30) DEF Crash
  <2>4. busy' \in BOOLEAN /\ panicked' \in BOOLEAN
    BY DEF Crash
  <2>5. boot' \in {"readhead", "install", "up"}
    BY DEF Crash
  <2>6. /\ home' \in [Block -> Val] /\ logData' \in [Slot -> Val]'
        /\ head' \in Seq(Block)
    BY DEF Inv, TypeOK, Crash, Slot
  <2> QED BY <2>1, <2>2, <2>3, <2>4, <2>5, <2>6 DEF TypeOK
<1>2. OneTransaction'
  BY DEF OneTransaction, InTrans, Crash
<1>3. SleeperHasOwner'
  BY DEF SleeperHasOwner, Crash
<1>4. LoggedIsPinned'
  BY DEF LoggedIsPinned, Uninstalled, Crash
<1>5. WriteAhead'
  BY SMTT(30) DEF Inv, WriteAhead, Distinct, Crash
<1>6. Quiet'
  BY DEF Quiet, Crash
<1> QED BY <1>1, <1>2, <1>3, <1>4, <1>5, <1>6 DEF Inv

\* recover_from_log() reads the header left by the last boot.
LEMMA ReadHeadInv ==
  ASSUME Inv, ReadHead
  PROVE  Inv'
<1>1. TypeOK'
  BY SMTT(30) DEF Inv, TypeOK, ReadHead
<1>2. OneTransaction'
  BY DEF Inv, OneTransaction, InTrans, ReadHead
<1>3. SleeperHasOwner'
  BY DEF Inv, SleeperHasOwner, ReadHead
<1>4. LoggedIsPinned'
  BY DEF Inv, LoggedIsPinned, Uninstalled, Quiet, ReadHead
<1>5. WriteAhead'
  BY SMTT(30) DEF Inv, WriteAhead, ReadHead
<1>6. Quiet'
  BY DEF Inv, Quiet, ReadHead
<1> QED BY <1>1, <1>2, <1>3, <1>4, <1>5, <1>6 DEF Inv

\* A round of the loop of install_trans() during recovery.
LEMMA RecoverInstallInv ==
  ASSUME Inv, RecoverInstall
  PROVE  Inv'
<1>1. TypeOK'
  <2>1. lh[tail] \in Block /\ logData[tail] \in Val
    BY SMTT(30) DEF Inv, TypeOK, WriteAhead, Slot, RecoverInstall, InstallTrans
  <2> QED BY <2>1, SMTT(30) DEF Inv, TypeOK, RecoverInstall, InstallTrans
<1>2. OneTransaction'
  BY DEF Inv, OneTransaction, InTrans, RecoverInstall
<1>3. SleeperHasOwner'
  BY DEF Inv, SleeperHasOwner, RecoverInstall
<1>4. LoggedIsPinned'
  BY SMTT(30) DEF Inv, TypeOK, LoggedIsPinned, Uninstalled, Busy, RecoverInstall,
     InstallTrans
<1>5. WriteAhead'
  BY SMTT(30) DEF Inv, TypeOK, WriteAhead, Distinct, RecoverInstall, InstallTrans
<1>6. Quiet'
  BY DEF Inv, Quiet, RecoverInstall, InstallTrans
<1> QED BY <1>1, <1>2, <1>3, <1>4, <1>5, <1>6 DEF Inv

\* recover_from_log() empties the header, and the file system may start.
LEMMA RecoverEraseInv ==
  ASSUME Inv, RecoverErase
  PROVE  Inv'
<1>1. TypeOK'
  BY SMTT(30) DEF Inv, TypeOK, RecoverErase, EraseHead
<1>2. OneTransaction'
  BY DEF Inv, OneTransaction, InTrans, RecoverErase
<1>3. SleeperHasOwner'
  BY DEF Inv, SleeperHasOwner, RecoverErase
<1>4. LoggedIsPinned'
  BY SMTT(30) DEF Inv, LoggedIsPinned, Uninstalled, Busy, RecoverErase, EraseHead
<1>5. WriteAhead'
  BY SMTT(30) DEF WriteAhead, Distinct, RecoverErase, EraseHead
<1>6. Quiet'
  BY DEF Inv, Quiet, RecoverErase
<1> QED BY <1>1, <1>2, <1>3, <1>4, <1>5, <1>6 DEF Inv

\* Init establishes the invariant: a freshly made disk (mkfs) has an empty
\* header and the machine starts in recover_from_log.
LEMMA InitInv == Init => Inv
<1> SUFFICES ASSUME Init PROVE Inv
  OBVIOUS
<1>1. TypeOK
  <2>1. lh \in Seq(Block) /\ head \in Seq(Block) /\ tail \in Nat \ {0} /\ dirty \in SUBSET Block
    BY SMTT(30) DEF Init
  <2>2. busy \in BOOLEAN /\ panicked \in BOOLEAN
    BY DEF Init
  <2>3. /\ cache \in [Block -> Val \cup {NoBuf}]
        /\ wb \in [Proc -> Block \cup {NoBlock}]
        /\ pc \in [Proc -> {"idle", "asleep", "woken", "trans", "logging",
                            "head", "install", "end"}]
        /\ boot \in {"readhead", "install", "up"}
    BY DEF Init
  <2> QED BY <2>1, <2>2, <2>3 DEF Init, TypeOK
<1>2. OneTransaction /\ SleeperHasOwner /\ Quiet
  BY DEF Init, OneTransaction, InTrans, SleeperHasOwner, Quiet
<1>3. LoggedIsPinned /\ WriteAhead
  BY SMTT(30) DEF Init, LoggedIsPinned, Uninstalled, WriteAhead, Distinct
<1> QED BY <1>1, <1>2, <1>3 DEF Inv

\* Every step of log.c, bio.c's cache, a crash and a reboot keeps the invariant.
LEMMA NextInv == Inv /\ [Next]_vars => Inv'
<1> SUFFICES ASSUME Inv, [Next]_vars PROVE Inv'
  OBVIOUS
<1>1. CASE UNCHANGED vars
  BY <1>1, SMTT(30) DEF Inv, TypeOK, OneTransaction, InTrans, SleeperHasOwner,
     LoggedIsPinned, Uninstalled, Busy, WriteAhead, Installing, Quiet, vars
<1>2. CASE Next
  BY <1>2, BeginTransInv, BeginSleepInv, ModifyInv, LogWriteInv,
     LogWritePanicInv, CommitTransInv, WriteHeadInv, InstallInv, EraseInv,
     EndTransInv, FillInv, EvictInv, CrashInv, ReadHeadInv, RecoverInstallInv,
     RecoverEraseInv DEF Next, CommitStep, Recover
<1> QED BY <1>1, <1>2

\* The logging layer keeps its invariant: one transaction at a time, no lost
\* wakeup in begin_trans, logged blocks pinned, header written ahead.
THEOREM LogInvariant == Spec => []Inv
BY InitInv, NextInv, PTL DEF Spec

\* begin_trans lets one process in at a time, however many there are.
THEOREM LogOneTransaction == Spec => []OneTransaction
<1>1. Inv => OneTransaction
  BY DEF Inv
<1> QED BY <1>1, LogInvariant, PTL

\* commit_trans and recover_from_log keep the write-ahead rule, whatever the
\* size of the log and wherever the machine crashes.
THEOREM LogWriteAhead == Spec => []WriteAhead
<1>1. Inv => WriteAhead
  BY DEF Inv
<1> QED BY <1>1, LogInvariant, PTL

-----------------------------------------------------------------------------
(* The log implements AtomicDisk: the proof that Spec => Implements, from the  *)
(* invariant.                                                                *)

USE LogAssumption DEF Running, disk

\* install_trans() leaves in a listed sector what its log slot holds.
LEMMA ReplayAt ==
  ASSUME NEW h \in Seq(Block), Distinct(h), NEW i \in 1 .. Len(h)
  PROVE  h[i] \in Block /\ Replay(h)[h[i]] = logData[i]
BY SMTT(30) DEF Replay, Distinct

\* install_trans() leaves a sector that is not listed alone.
LEMMA ReplayElsewhere ==
  ASSUME NEW h \in Seq(Block), NEW b \in Block, \A i \in 1 .. Len(h) : h[i] # b
  PROVE  Replay(h)[b] = home[b]
BY DEF Replay

\* An empty header makes install_trans() do nothing.
LEMMA ReplayEmpty ==
  ASSUME home \in [Block -> Val]
  PROVE  Replay(<<>>) = home
BY SMTT(30) DEF Replay

\* The process whose transaction is open is the owner, as there is only one.
LEMMA OwnerIs ==
  ASSUME OneTransaction, NEW p \in Proc, Open(p)
  PROVE  Owner = p
<1>1. \A q \in Proc : Open(q) => q = p
  BY DEF OneTransaction, InTrans, Open
<1> QED BY <1>1 DEF Owner

\* Outside of transactions the abstract disk has no owner.
LEMMA OwnerNone ==
  ASSUME \A p \in Proc : ~ Open(p)
  PROVE  Owner = NoProc
BY DEF Owner

\* A step that leaves the disk alone leaves what a reboot finds alone.
LEMMA ReplayStable ==
  ASSUME UNCHANGED disk
  PROVE  Replay(head)' = Replay(head)
BY DEF Replay

\* Copying a listed block home changes nothing of what a replay produces.
LEMMA ReplayInstall ==
  ASSUME TypeOK, Distinct(head), lh = head, InstallTrans
  PROVE  Replay(head)' = Replay(head)
<1>1. tail \in 1 .. Len(head) /\ head[tail] \in Block
  BY SMTT(30) DEF TypeOK, InstallTrans
<1>2. \A b \in Block : b # head[tail] => home'[b] = home[b]
  BY <1>1 DEF TypeOK, InstallTrans
<1> QED BY <1>1, <1>2 DEF Replay, InstallTrans

-----------------------------------------------------------------------------
USE DEF Disk!avars, Disk!ABegin, Disk!AWrite, Disk!ACommit, Disk!AEnd, Disk!ACrash

\* begin_trans() opens an abstract transaction.
LEMMA ImplBegin ==
  ASSUME Inv, Inv', NEW p \in Proc, BeginTrans(p)
  PROVE  Disk!ABegin(p)
<1>1. Replay(head)' = Replay(head)
  BY ReplayStable DEF BeginTrans
<1>2. View' = View /\ boot' = "up" /\ boot = "up"
  BY DEF View, BeginTrans
<1>3. Owner = NoProc
  BY DEF Inv, OneTransaction, InTrans, Owner, Open, BeginTrans
<1>4. Owner' = p
  <2>1. Open(p)'
    BY DEF Inv, TypeOK, Open, BeginTrans
  <2>2. \A q \in Proc : Open(q)' => q = p
    BY <2>1 DEF Inv, OneTransaction, InTrans, Open
  <2> QED BY <2>1, <2>2 DEF Owner
<1>5. (\E q \in Proc : pc'[q] = "install") <=> (\E q \in Proc : pc[q] = "install")
  BY DEF Inv, TypeOK, BeginTrans
<1> QED BY <1>1, <1>2, <1>3, <1>4, <1>5

\* Writing to a block in the cache is the abstract write.
LEMMA ImplModify ==
  ASSUME Inv, Inv', NEW p \in Proc, NEW b \in Block, NEW v \in Val, Modify(p, b, v)
  PROVE  Disk!AWrite(p, b, v)
<1>1. Replay(head)' = Replay(head)
  BY ReplayStable DEF Modify
<1>2. View' = [View EXCEPT ![b] = v] /\ boot' = "up" /\ boot = "up"
  BY DEF Inv, TypeOK, View, Modify
<1>3. Owner = p
  BY OwnerIs DEF Inv, Open, Modify
<1>4. Owner' = p
  <2>1. Open(p)'
    BY DEF Inv, TypeOK, Open, Modify
  <2>2. \A q \in Proc : Open(q)' => q = p
    BY <2>1 DEF Inv, OneTransaction, InTrans, Open
  <2> QED BY <2>1, <2>2 DEF Owner
<1>5. /\ ~ \E q \in Proc : pc[q] = "install"
      /\ ~ \E q \in Proc : pc'[q] = "install"
  BY DEF Inv, TypeOK, OneTransaction, InTrans, Modify
<1> QED BY <1>1, <1>2, <1>3, <1>4, <1>5

\* write_head() is the abstract commit: what a reboot would find changes from
\* the old contents to everything the transaction wrote, at once.
LEMMA ImplWriteHead ==
  ASSUME Inv, Inv', NEW p \in Proc, WriteHead(p)
  PROVE  Disk!ACommit(p)
<1>1. head = <<>> /\ tail = 1 /\ ~ \E q \in Proc : pc[q] = "install"
  BY DEF Inv, TypeOK, OneTransaction, InTrans, WriteAhead, Installing, WriteHead
<1>2. \A c : ~ (c \in Block /\ Busy(c))
  BY DEF Inv, OneTransaction, InTrans, Quiet, Busy, WriteHead
<1>3. Replay(head)' = View
  <2> SUFFICES ASSUME NEW c \in Block
               PROVE  Replay(head)'[c] = View[c]
    BY DEF Replay, View, WriteHead
  <2>1. Replay(head)'[c] = Replay(lh)[c]
    BY DEF Replay, WriteHead
  <2>2. CASE \E i \in 1 .. Len(lh) : lh[i] = c
    <3>1. PICK i \in 1 .. Len(lh) : lh[i] = c
      BY <2>2
    <3>2. Replay(lh)[c] = logData[i] /\ logData[i] \in Val
      BY <3>1, ReplayAt, SMTT(30) DEF Inv, TypeOK, WriteAhead, Slot
    <3>3. cache[c] = logData[i]
      BY <3>1, <1>1, <1>2, SMTT(30) DEF Inv, LoggedIsPinned, Uninstalled, WriteHead
    <3> QED BY <2>1, <3>2, <3>3 DEF View
  <2>3. CASE ~ \E i \in 1 .. Len(lh) : lh[i] = c
    <3>1. Replay(lh)[c] = home[c]
      BY <2>3, ReplayElsewhere DEF Inv, TypeOK
    <3>2. cache[c] \in {NoBuf, home[c]}
      BY <2>3, <1>2 DEF Inv, LoggedIsPinned, Uninstalled
    <3> QED BY <2>1, <3>1, <3>2 DEF View
  <2> QED BY <2>2, <2>3
<1>4. View' = View /\ boot' = "up" /\ boot = "up"
  BY DEF View, WriteHead
<1>5. Owner = p
  BY OwnerIs DEF Inv, Open, WriteHead
<1>6. Owner' = p /\ \E q \in Proc : pc'[q] = "install"
  <2>1. Open(p)' /\ pc'[p] = "install"
    BY DEF Inv, TypeOK, Open, WriteHead
  <2>2. \A q \in Proc : Open(q)' => q = p
    BY <2>1 DEF Inv, OneTransaction, InTrans, Open
  <2> QED BY <2>1, <2>2 DEF Owner
<1> QED BY <1>1, <1>3, <1>4, <1>5, <1>6

\* A step that opens and closes no transaction leaves the owner alone.
LEMMA OwnerStable ==
  ASSUME Inv, Inv', \A q \in Proc : Open(q)' <=> Open(q)
  PROVE  Owner' = Owner
<1>1. CASE \E p \in Proc : Open(p)
  <2>1. PICK p \in Proc : Open(p)
    BY <1>1
  <2>2. Owner = p
    BY <2>1, OwnerIs DEF Inv
  <2>3. \A q \in Proc : Open(q)' => q = p
    BY <2>1 DEF Inv, OneTransaction, InTrans, Open
  <2>4. Owner' = p
    BY <2>1, <2>3 DEF Owner
  <2> QED BY <2>2, <2>4
<1>2. CASE ~ \E p \in Proc : Open(p)
  BY <1>2 DEF Owner
<1> QED BY <1>1, <1>2

\* What a stuttering step of the abstract disk amounts to.
LEMMA Stutter ==
  ASSUME Inv, Inv', Replay(head)' = Replay(head),
         (IF boot = "up" THEN View ELSE Replay(head))'
           = IF boot = "up" THEN View ELSE Replay(head),
         \A q \in Proc : Open(q)' <=> Open(q),
         \A q \in Proc : pc'[q] = "install" <=> pc[q] = "install"
  PROVE  UNCHANGED Disk!avars
BY OwnerStable

\* Going to sleep in begin_trans(), the panics of log_write() and the end of
\* commit_trans() are invisible to the abstract disk.
LEMMA ImplQuiet ==
  ASSUME Inv, Inv', NEW p \in Proc,
         BeginSleep(p) \/ LogWritePanic(p) \/ EndTrans(p)
  PROVE  UNCHANGED Disk!avars
<1>1. Replay(head)' = Replay(head)
  BY ReplayStable DEF BeginSleep, LogWritePanic, EndTrans
<1>2. View' = View /\ boot' = boot
  BY DEF View, BeginSleep, LogWritePanic, EndTrans
<1>3. /\ \A q \in Proc : Open(q)' <=> Open(q)
      /\ \A q \in Proc : pc'[q] = "install" <=> pc[q] = "install"
  <2>1. CASE BeginSleep(p)
    BY <2>1 DEF Inv, TypeOK, Open, BeginSleep
  <2>2. CASE LogWritePanic(p)
    BY <2>2 DEF Open, LogWritePanic
  <2>3. CASE EndTrans(p)
    BY <2>3 DEF Inv, TypeOK, Open, EndTrans
  <2> QED BY <2>1, <2>2, <2>3
<1> QED BY <1>1, <1>2, <1>3, Stutter

\* What bread() returns does not depend on what bget() recycled.
LEMMA ImplCache ==
  ASSUME Inv, Inv', NEW b \in Block, Fill(b) \/ Evict(b)
  PROVE  UNCHANGED Disk!avars
<1>1. Replay(head)' = Replay(head)
  BY ReplayStable DEF Fill, Evict
<1>2. Evict(b) => cache[b] = home[b]
  BY SMTT(30) DEF Inv, LoggedIsPinned, Evict
<1>3. View' = View /\ boot' = boot
  BY <1>2, SMTT(30) DEF Inv, TypeOK, View, Fill, Evict
<1>4. /\ \A q \in Proc : Open(q)' <=> Open(q)
      /\ \A q \in Proc : pc'[q] = "install" <=> pc[q] = "install"
  BY DEF Open, Fill, Evict
<1> QED BY <1>1, <1>3, <1>4, Stutter

\* log_write touches log blocks only, and the header on disk is still empty.
LEMMA ImplLogWrite ==
  ASSUME Inv, Inv', NEW p \in Proc, LogWrite(p)
  PROVE  UNCHANGED Disk!avars
<1>1. head = <<>> /\ head' = <<>>
  BY DEF Inv, TypeOK, OneTransaction, InTrans, WriteAhead, Installing, LogWrite
<1>2. Replay(head)' = Replay(head)
  BY <1>1, SMTT(30) DEF Replay, LogWrite
<1>3. View' = View /\ boot' = boot
  BY DEF View, LogWrite
<1>4. /\ \A q \in Proc : Open(q)' <=> Open(q)
      /\ \A q \in Proc : pc'[q] = "install" <=> pc[q] = "install"
  BY DEF Inv, TypeOK, Open, LogWrite
<1> QED BY <1>2, <1>3, <1>4, Stutter

\* With nothing logged, the view is what the disk holds.
LEMMA ViewIsHome ==
  ASSUME TypeOK, LoggedIsPinned, lh = <<>>, \A p \in Proc : wb[p] = NoBlock
  PROVE  View = home
<1>1. \A b \in Block : cache[b] \in {NoBuf, home[b]}
  BY SMTT(30) DEF LoggedIsPinned, Uninstalled, Busy
<1> QED BY <1>1 DEF TypeOK, View

\* commit_trans() of a transaction that logged nothing ends the abstract one;
\* of any other it is invisible, as write_head() has yet to run.
LEMMA ImplCommitTrans ==
  ASSUME Inv, Inv', NEW p \in Proc, CommitTrans(p)
  PROVE  Disk!AEnd(p) \/ UNCHANGED Disk!avars
<1>1. Replay(head)' = Replay(head)
  BY ReplayStable DEF CommitTrans
<1>2. View' = View /\ boot' = "up" /\ boot = "up"
  BY DEF View, CommitTrans
<1>3. /\ ~ \E q \in Proc : pc[q] = "install"
      /\ ~ \E q \in Proc : pc'[q] = "install"
  BY DEF Inv, TypeOK, OneTransaction, InTrans, CommitTrans
<1>4. CASE Len(lh) > 0
  <2>1. \A q \in Proc : Open(q)' <=> Open(q)
    BY <1>4 DEF Inv, TypeOK, Open, CommitTrans
  <2> QED BY <1>1, <1>2, <1>3, <2>1, Stutter
<1>5. CASE ~ (Len(lh) > 0)
  <2>1. lh = <<>> /\ head = <<>>
    BY <1>5, <1>3, SMTT(30) DEF Inv, TypeOK, WriteAhead, Installing, CommitTrans
  <2>2. \A q \in Proc : wb[q] = NoBlock
    BY DEF Inv, TypeOK, OneTransaction, InTrans, Quiet, CommitTrans
  <2>3. View = Replay(head)
    BY <2>1, <2>2, ViewIsHome, ReplayEmpty DEF Inv, TypeOK
  <2>4. Owner = p
    BY OwnerIs DEF Inv, Open, CommitTrans
  <2>5. Owner' = NoProc
    <3>1. \A q \in Proc : ~ Open(q)'
      BY <1>5 DEF Inv, TypeOK, OneTransaction, InTrans, Open, CommitTrans
    <3> QED BY <3>1 DEF Owner
  <2> QED BY <1>1, <1>2, <1>3, <2>3, <2>4, <2>5
<1> QED BY <1>4, <1>5

\* install_trans() during a commit is invisible: the cache hides the old home
\* block, and the header promises the new one.
LEMMA ImplInstall ==
  ASSUME Inv, Inv', NEW p \in Proc, Install(p)
  PROVE  UNCHANGED Disk!avars
<1>1. lh = head /\ Installing
  BY DEF Inv, WriteAhead, Installing, Install
<1>2. Replay(head)' = Replay(head)
  BY <1>1, ReplayInstall DEF Inv, WriteAhead, Install
<1>3. tail \in Uninstalled /\ lh[tail] \in Block /\ ~ Busy(lh[tail])
  BY SMTT(30) DEF Inv, TypeOK, OneTransaction, InTrans, Quiet, Uninstalled, Busy, Install, InstallTrans
<1>4. cache[lh[tail]] = logData[tail]
  BY <1>3 DEF Inv, LoggedIsPinned
<1>5. logData[tail] \in Val
  BY SMTT(30) DEF Inv, TypeOK, WriteAhead, Slot, Install, InstallTrans
<1>6. View' = View /\ boot' = boot
  <2>1. home' = [home EXCEPT ![lh[tail]] = logData[tail]] /\ boot' = boot
    BY DEF Install, InstallTrans
  <2>2. cache' = cache
    BY <1>3, <1>4, <1>5, SMTT(30) DEF Inv, TypeOK, Install, InstallTrans
  <2>3. cache[lh[tail]] # NoBuf
    BY <1>4, <1>5
  <2>4. \A b \in Block \ {lh[tail]} : home'[b] = home[b]
    BY <2>1 DEF Inv, TypeOK
  <2> QED BY <2>1, <2>2, <2>3, <2>4, SMTT(30) DEF View
<1>7. /\ \A q \in Proc : Open(q)' <=> Open(q)
      /\ \A q \in Proc : pc'[q] = "install" <=> pc[q] = "install"
  BY DEF Open, Install
<1> QED BY <1>2, <1>6, <1>7, Stutter

\* When every listed block is home, a replay finds nothing to do.
LEMMA ReplayDone ==
  ASSUME TypeOK, lh = head, tail > Len(lh), WriteAhead
  PROVE  Replay(head) = home
<1> SUFFICES ASSUME NEW b \in Block PROVE Replay(head)[b] = home[b]
  BY DEF TypeOK, Replay
<1>1. CASE \E i \in 1 .. Len(head) : head[i] = b
  <2>1. PICK i \in 1 .. Len(head) : head[i] = b
    BY <1>1
  <2>2. i < tail
    BY <2>1, SMTT(30) DEF TypeOK
  <2> QED BY <2>1, <2>2, ReplayAt, SMTT(30) DEF TypeOK, WriteAhead
<1>2. CASE ~ \E i \in 1 .. Len(head) : head[i] = b
  BY <1>2, ReplayElsewhere DEF TypeOK
<1> QED BY <1>1, <1>2

\* Erasing the header closes the abstract transaction.
LEMMA ImplErase ==
  ASSUME Inv, Inv', NEW p \in Proc, Erase(p)
  PROVE  Disk!AEnd(p)
<1>1. lh = head /\ Installing /\ boot = "up" /\ boot' = "up"
  BY DEF Inv, WriteAhead, Installing, Erase
<1>2. Replay(head) = home
  BY <1>1, ReplayDone DEF Inv, Erase, EraseHead
<1>3. Replay(head)' = home
  BY SMTT(30) DEF Inv, TypeOK, Replay, Erase, EraseHead
<1>4. View = home /\ View' = View
  <2>1. \A q \in Proc : wb[q] = NoBlock
    BY DEF Inv, TypeOK, OneTransaction, InTrans, Quiet, Erase
  <2>2. Uninstalled = {}
    BY SMTT(30) DEF Inv, TypeOK, Uninstalled, Erase, EraseHead
  <2>3. \A b \in Block : cache[b] \in {NoBuf, home[b]}
    BY <2>1, <2>2, SMTT(30) DEF Inv, LoggedIsPinned, Busy
  <2> QED BY <2>3 DEF Inv, TypeOK, View, Erase, EraseHead
<1>5. Owner = p
  BY OwnerIs DEF Inv, Open, Erase
<1>6. \A q \in Proc : ~ Open(q)' /\ pc'[q] # "install"
  BY DEF Inv, TypeOK, OneTransaction, InTrans, Open, Erase
<1>7. Owner' = NoProc
  BY <1>6 DEF Owner
<1> QED BY <1>1, <1>2, <1>3, <1>4, <1>5, <1>6, <1>7

\* A crash takes the abstract disk back to its last commit.
LEMMA ImplCrash ==
  ASSUME Inv, Inv', Crash
  PROVE  Disk!ACrash
<1>1. Replay(head)' = Replay(head)
  BY ReplayStable DEF Crash
<1>2. \A q \in Proc : ~ Open(q)' /\ pc'[q] # "install"
  BY DEF Open, Crash
<1>3. Owner' = NoProc
  BY <1>2 DEF Owner
<1> QED BY <1>1, <1>2, <1>3 DEF Crash

\* recover_from_log() is invisible: it brings home what write_head() promised.
LEMMA ImplRecover ==
  ASSUME Inv, Inv', ReadHead \/ RecoverInstall \/ RecoverErase
  PROVE  UNCHANGED Disk!avars
<1>1. /\ \A q \in Proc : Open(q)' <=> Open(q)
      /\ \A q \in Proc : pc'[q] = "install" <=> pc[q] = "install"
  BY DEF Open, ReadHead, RecoverInstall, RecoverErase
<1>2. CASE ReadHead
  <2>1. Replay(head)' = Replay(head)
    BY <1>2, ReplayStable DEF ReadHead
  <2> QED BY <1>1, <1>2, <2>1, Stutter DEF ReadHead
<1>3. CASE RecoverInstall
  <2>1. Replay(head)' = Replay(head)
    BY <1>3, ReplayInstall DEF Inv, WriteAhead, RecoverInstall
  <2> QED BY <1>1, <1>3, <2>1, Stutter DEF RecoverInstall
<1>4. CASE RecoverErase
  <2>1. Replay(head) = home
    BY <1>4, ReplayDone DEF Inv, WriteAhead, RecoverErase, EraseHead
  <2>2. Replay(head)' = home
    BY <1>4, SMTT(30) DEF Inv, TypeOK, Replay, RecoverErase, EraseHead
  <2>3. View' = home
    <3>1. \A b \in Block : cache[b] \in {NoBuf, home[b]}
      BY <1>4, SMTT(30) DEF Inv, LoggedIsPinned, Uninstalled, Busy, Quiet, RecoverErase
    <3> QED BY <1>4, <3>1 DEF Inv, TypeOK, View, RecoverErase, EraseHead
  <2> QED BY <1>1, <1>4, <2>1, <2>2, <2>3, Stutter DEF RecoverErase
<1> QED BY <1>2, <1>3, <1>4

\* initlog() starts on the abstract initial disk.
LEMMA ImplInit == Init => Disk!AInit
<1> SUFFICES ASSUME Init PROVE Disk!AInit
  OBVIOUS
<1>1. Replay(head) = home
  BY SMTT(30) DEF Init, Replay
<1>2. Owner = NoProc
  BY DEF Init, Owner, Open
<1> QED BY <1>1, <1>2 DEF Init, Disk!AInit

\* Every step of the log is a step of the abstract disk or changes nothing of it.
LEMMA ImplNext == Inv /\ Inv' /\ [Next]_vars => [Disk!ANext]_(Disk!avars)
<1> SUFFICES ASSUME Inv, Inv', [Next]_vars
             PROVE  Disk!ANext \/ UNCHANGED Disk!avars
  OBVIOUS
<1> HIDE DEF Disk!AWrite, Disk!ABegin, Disk!ACommit, Disk!AEnd, Disk!ACrash
<1>1. CASE UNCHANGED vars
  BY <1>1 DEF vars, Replay, View, Owner, Open
<1>2. ASSUME NEW p \in Proc, BeginTrans(p) \/ BeginSleep(p)
      PROVE  Disk!ANext \/ UNCHANGED Disk!avars
  <2>1. CASE BeginTrans(p)
    BY <2>1, ImplBegin DEF Disk!ANext
  <2>2. CASE BeginSleep(p)
    BY <2>2, ImplQuiet
  <2> QED BY <1>2, <2>1, <2>2
<1>3. ASSUME NEW p \in Proc, NEW b \in Block, NEW v \in Val, Modify(p, b, v)
      PROVE  Disk!ANext
  <2>1. Disk!AWrite(p, b, v)
    BY <1>3, ImplModify
  <2> QED BY <2>1 DEF Disk!ANext
<1>4. ASSUME NEW p \in Proc, LogWrite(p) \/ LogWritePanic(p) \/ CommitTrans(p)
      PROVE  Disk!ANext \/ UNCHANGED Disk!avars
  <2>1. CASE LogWrite(p)
    BY <2>1, ImplLogWrite
  <2>2. CASE LogWritePanic(p)
    BY <2>2, ImplQuiet
  <2>3. CASE CommitTrans(p)
    BY <2>3, ImplCommitTrans DEF Disk!ANext
  <2> QED BY <1>4, <2>1, <2>2, <2>3
<1>5. ASSUME NEW p \in Proc, CommitStep(p)
      PROVE  Disk!ANext \/ UNCHANGED Disk!avars
  BY <1>5, ImplWriteHead, ImplInstall, ImplErase, ImplQuiet DEF CommitStep, Disk!ANext
<1>6. ASSUME NEW b \in Block, Fill(b) \/ Evict(b)
      PROVE  UNCHANGED Disk!avars
  BY <1>6, ImplCache
<1>7. CASE Crash
  BY <1>7, ImplCrash DEF Disk!ANext
<1>8. CASE Recover
  BY <1>8, ImplRecover DEF Recover
<1> QED BY <1>1, <1>2, <1>3, <1>4, <1>5, <1>6, <1>7, <1>8 DEF Next

\* Crash atomicity of the file system's transactions: log.c, with crashes at
\* any point and recovery on reboot, implements the atomic disk.
THEOREM LogImplementsAtomicDisk == Spec => Implements
<1>1. Init => Disk!AInit
  BY ImplInit
<1>2. Inv /\ Inv' /\ [Next]_vars => [Disk!ANext]_(Disk!avars)
  BY ImplNext
<1> QED BY <1>1, <1>2, LogInvariant, PTL DEF Spec, Implements, Disk!ASpec
=============================================================================

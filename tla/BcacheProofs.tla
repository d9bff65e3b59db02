---------------------------- MODULE BcacheProofs -----------------------------
(***************************************************************************)
(* Proofs about Bcache, for any processes, sectors, values and number of   *)
(* buffers, with and without read errors.  That the LRU list holds every   *)
(* buffer is proved at the end; its order plays no part.                   *)
(***************************************************************************)
EXTENDS Bcache, TLAPS

\* The prover of the leaves that name none.
USE ZenonT(30)

Cmd == [write : BOOLEAN, sector : Sector, val : Val]
Labels == {"idle", "bget", "bgetsleep", "iderw", "idesleep", "idewoken", "held", "panic"}
InHand == {"iderw", "idesleep", "idewoken", "held"}

\* TypeOK but for the list.
Types ==
  /\ sector \in [Buf -> Sector \cup {NoSector}]
  /\ data \in [Buf -> Val]
  /\ busy \subseteq Buf /\ valid \subseteq Buf /\ dirty \subseteq Buf
  /\ idequeue \in Seq(Buf)
  /\ cmd \in Cmd \cup {NoCmd}
  /\ irq \in BOOLEAN
  /\ disk \in [Sector -> Val]
  /\ pc \in [Proc -> Labels]
  /\ want \in [Proc -> Sector \cup {NoSector}]
  /\ buf \in [Proc -> Buf \cup {NoBuf}]

\* A process inside bread() or bwrite() has asked for a sector, and once bget() has
\* returned it has a buffer.
Asked ==
  \A p \in Proc : /\ pc[p] # "idle" => want[p] \in Sector
                  /\ pc[p] \in InHand => buf[p] \in Buf

\* B_DIRTY implies B_VALID, and a valid buffer has a sector.
Flags == dirty \subseteq valid /\ \A b \in valid : sector[b] \in Sector

\* When the drive interrupts, what it was told to write is on the platter.
Written == irq /\ cmd.write => disk[cmd.sector] = cmd.val

\* The request of a process that the disk interrupt has woken is done.
Done == \A p \in Proc : pc[p] = "idewoken" => buf[p] \in valid /\ buf[p] \notin dirty

Inv ==
  /\ Types /\ Asked /\ Flags /\ Written /\ Done
  /\ OneBuffer /\ QueueServed /\ NoLostRelease /\ ValidIsDisk /\ NoIdePanic

-----------------------------------------------------------------------------
(* What the conjuncts say of a process and its buffer.                      *)

\* The owner of a buffer is the one process that has it.
LEMMA OwnerIs ==
  ASSUME Inv, NEW p \in Proc, pc[p] \in InHand
  PROVE  /\ buf[p] \in Buf /\ buf[p] \in busy /\ sector[buf[p]] = want[p] /\ want[p] \in Sector
         /\ \A q \in Proc : q # p /\ pc[q] \in InHand => buf[q] # buf[p]
<1>1. buf[p] \in Buf /\ want[p] \in Sector
  BY DEF Inv, Asked, Types, InHand
<1>2. Owns(p, buf[p])
  BY DEF Owns, InHand
<1>3. \A q \in Proc : q # p /\ pc[q] \in InHand => buf[q] # buf[p]
  BY <1>1, <1>2 DEF Inv, OneBuffer, Owns, InHand
<1>. QED  BY <1>1, <1>2, <1>3 DEF Inv, OneBuffer

\* A process asleep in iderw() is one whose buffer is in the queue.
LEMMA Queued ==
  ASSUME Inv, NEW b \in Buf
  PROVE  (\E i \in 1 .. Len(idequeue) : idequeue[i] = b)
           <=> \E p \in Proc : buf[p] = b /\ pc[p] = "idesleep"
  BY SMTT(30) DEF Inv, QueueServed, Owns

\* Who may be on the queue: busy buffers, whose owner is not at another place.
LEMMA NotQueued ==
  ASSUME Inv, NEW b \in Buf,
         b \notin busy \/ \E p \in Proc : buf[p] = b /\ pc[p] \in InHand \ {"idesleep"}
  PROVE  \A i \in 1 .. Len(idequeue) : idequeue[i] # b
<1>. SUFFICES ASSUME NEW q \in Proc, buf[q] = b, pc[q] = "idesleep"
              PROVE  FALSE
  BY Queued
<1>1. b \in busy
  BY OwnerIs DEF InHand
<1>2. PICK p \in Proc : buf[p] = b /\ pc[p] \in InHand \ {"idesleep"}
  BY <1>1
<1>. QED  BY <1>2, OwnerIs DEF InHand

\* The first request, while there is one.
LEMMA HeadIs ==
  ASSUME Inv, cmd # NoCmd
  PROVE  /\ idequeue # <<>> /\ Len(idequeue) \in Nat \ {0} /\ Head(idequeue) = idequeue[1]
         /\ idequeue[1] \in Buf /\ cmd \in Cmd
         /\ cmd.sector = sector[idequeue[1]] /\ cmd.val = data[idequeue[1]]
         /\ (cmd.write <=> idequeue[1] \in dirty)
<1>1. idequeue # <<>> /\ idequeue \in Seq(Buf)
  BY DEF Inv, QueueServed, Types
<1>2. Len(idequeue) \in Nat \ {0} /\ Head(idequeue) = idequeue[1] /\ idequeue[1] \in Buf
  BY <1>1, SMTT(30)
<1>. QED  BY <1>1, <1>2, SMTT(30) DEF Inv, QueueServed, Types

\* Only the empty sequence has no elements.
LEMMA EmptyIs ==
  ASSUME NEW S, NEW s \in Seq(S)
  PROVE  s = <<>> <=> Len(s) = 0
  BY SMTT(30)

\* A step that leaves the queue, the drive and the flags alone, and puts nobody to
\* sleep in iderw() and wakes nobody there.
LEMMA QueueStable ==
  ASSUME Inv, UNCHANGED <<idequeue, cmd, irq, disk>>,
         \A p \in Proc : \/ buf'[p] = buf[p] /\ pc'[p] = pc[p]
                         \/ pc[p] # "idesleep" /\ pc'[p] # "idesleep",
         \A i \in 1 .. Len(idequeue) : LET b == idequeue[i] IN
            /\ sector'[b] = sector[b] /\ data'[b] = data[b]
            /\ b \in dirty' <=> b \in dirty
            /\ b \in valid' <=> b \in valid
  PROVE  QueueServed' /\ Written'
<1>1. QueueServed
  BY DEF Inv
<1>2. \A b \in Buf : (\E p \in Proc : Owns(p, b) /\ pc[p] = "idesleep")
                       <=> (\E p \in Proc : Owns(p, b) /\ pc[p] = "idesleep")'
  BY DEF Owns
<1>3. \A b \in Buf : (\E i \in 1 .. Len(idequeue') : idequeue'[i] = b)
                       <=> (\E p \in Proc : Owns(p, b) /\ pc[p] = "idesleep")'
  BY <1>1, <1>2, SMTT(30) DEF QueueServed
<1>4. \A i \in 1 .. Len(idequeue') : ~(idequeue'[i] \in valid' /\ idequeue'[i] \notin dirty')
  BY <1>1 DEF QueueServed
<1>5. cmd' # NoCmd => LET b == Head(idequeue)' IN
        cmd'.sector = sector'[b] /\ cmd'.val = data'[b] /\ (cmd'.write <=> b \in dirty')
  <2>. SUFFICES ASSUME cmd # NoCmd
                PROVE  LET b == idequeue[1] IN
                         cmd.sector = sector'[b] /\ cmd.val = data'[b] /\ (cmd.write <=> b \in dirty')
    BY HeadIs
  <2>1. 1 \in 1 .. Len(idequeue)
    BY HeadIs, SMTT(30)
  <2>. QED  BY <2>1, HeadIs
<1>6. Written'
  BY DEF Inv, Written
<1>. QED  BY <1>1, <1>3, <1>4, <1>5, <1>6 DEF QueueServed

-----------------------------------------------------------------------------
(* One lemma for each action.                                               *)

LEMMA InitInv ==
  ASSUME Init
  PROVE  Inv
<1>1. <<>> \in Seq(Buf) /\ Len(<<>>) = 0
  BY SMTT(30)
<1>2. Types /\ Asked /\ Flags /\ Written /\ Done
  BY <1>1 DEF Init, Types, Asked, Flags, Written, Done, Labels, InHand
<1>3. OneBuffer /\ NoLostRelease /\ ValidIsDisk /\ NoIdePanic
  BY DEF Init, OneBuffer, Owns, NoLostRelease, ValidIsDisk, NoIdePanic
<1>4. QueueServed
  BY <1>1, SMTT(30) DEF Init, QueueServed, Owns
<1>. QED  BY <1>2, <1>3, <1>4 DEF Inv

LEMMA BreadInv ==
  ASSUME Inv, NEW p \in Proc, NEW s \in Sector, Bread(p, s)
  PROVE  Inv'
<1>. USE DEF Bread, Goto, cache, drive
<1>1. Types' /\ Asked' /\ Flags' /\ Done'
  BY DEF Inv, Types, Asked, Flags, Done, Labels, InHand
<1>2. OneBuffer'
  <2>1. \A q \in Proc, b \in Buf : Owns(q, b)' <=> Owns(q, b)
    BY DEF Inv, Types, Owns
  <2>2. \A q \in Proc, b \in Buf : Owns(q, b) => want'[q] = want[q]
    BY DEF Inv, Types, Owns
  <2>. QED  BY <2>1, <2>2 DEF Inv, OneBuffer
<1>3. NoLostRelease' /\ ValidIsDisk' /\ NoIdePanic'
  BY DEF Inv, Types, NoLostRelease, ValidIsDisk, NoIdePanic
<1>4. QueueServed' /\ Written'
  <2>1. \A q \in Proc : \/ buf'[q] = buf[q] /\ pc'[q] = pc[q]
                        \/ pc[q] # "idesleep" /\ pc'[q] # "idesleep"
    BY DEF Inv, Types
  <2>. QED  BY <2>1, QueueStable
<1>. QED  BY <1>1, <1>2, <1>3, <1>4 DEF Inv

\* bget() finds the sector in a buffer that is not busy, and takes it.
LEMMA BgetHitInv ==
  ASSUME Inv, NEW p \in Proc, BgetHit(p)
  PROVE  Inv'
<1>1. PICK b \in Cached(want[p]) \ busy :
        /\ busy' = busy \cup {b}
        /\ buf' = [buf EXCEPT ![p] = b]
        /\ pc' = [pc EXCEPT ![p] = IF b \in valid THEN "held" ELSE "iderw"]
  BY DEF BgetHit, Goto
<1>2. /\ b \in Buf /\ b \notin busy /\ sector[b] = want[p] /\ pc[p] = "bget"
      /\ UNCHANGED <<sector, data, valid, dirty, want, idequeue, cmd, irq, disk, errors>>
  BY <1>1 DEF BgetHit, Cached, drive
<1>3. Types' /\ Asked' /\ Flags' /\ Done'
  BY <1>1, <1>2 DEF Inv, Types, Asked, Flags, Done, Labels, InHand
<1>4. OneBuffer'
  <2>1. \A q \in Proc, c \in Buf : Owns(q, c)' <=> (IF q = p THEN c = b ELSE Owns(q, c))
    BY <1>1, <1>2 DEF Inv, Types, Owns
  <2>2. \A c \in Buf : ~Owns(p, c)
    BY <1>2 DEF Owns
  <2>3. \A q \in Proc : ~Owns(q, b)
    BY <1>2 DEF Inv, OneBuffer
  <2>. QED  BY <1>1, <1>2, <2>1, <2>2, <2>3, SMTT(30) DEF Inv, OneBuffer
<1>5. NoLostRelease' /\ ValidIsDisk' /\ NoIdePanic'
  BY <1>1, <1>2 DEF Inv, Types, NoLostRelease, ValidIsDisk, NoIdePanic
<1>6. QueueServed' /\ Written'
  <2>1. \A q \in Proc : \/ buf'[q] = buf[q] /\ pc'[q] = pc[q]
                        \/ pc[q] # "idesleep" /\ pc'[q] # "idesleep"
    BY <1>1, <1>2 DEF Inv, Types
  <2>. QED  BY <1>2, <2>1, QueueStable
<1>. QED  BY <1>3, <1>4, <1>5, <1>6 DEF Inv

\* bget() finds the sector in a busy buffer, whose owner will call wakeup().
LEMMA BgetSleepInv ==
  ASSUME Inv, NEW p \in Proc, BgetSleep(p)
  PROVE  Inv'
<1>1. PICK b \in Cached(want[p]) \cap busy : buf' = [buf EXCEPT ![p] = b]
  BY DEF BgetSleep
<1>2. /\ b \in Buf /\ b \in busy /\ pc[p] = "bget" /\ pc' = [pc EXCEPT ![p] = "bgetsleep"]
      /\ UNCHANGED <<sector, data, busy, valid, dirty, want, idequeue, cmd, irq, disk, errors>>
  BY <1>1 DEF BgetSleep, Cached, Goto, cache, drive
<1>3. Types' /\ Asked' /\ Flags' /\ Done'
  BY <1>1, <1>2 DEF Inv, Types, Asked, Flags, Done, Labels, InHand
<1>4. OneBuffer'
  <2>1. \A q \in Proc, c \in Buf : Owns(q, c)' <=> Owns(q, c)
    BY <1>1, <1>2 DEF Inv, Types, Owns
  <2>. QED  BY <1>2, <2>1 DEF Inv, OneBuffer
<1>5. NoLostRelease' /\ ValidIsDisk' /\ NoIdePanic'
  BY <1>1, <1>2 DEF Inv, Types, NoLostRelease, ValidIsDisk, NoIdePanic
<1>6. QueueServed' /\ Written'
  <2>1. \A q \in Proc : \/ buf'[q] = buf[q] /\ pc'[q] = pc[q]
                        \/ pc[q] # "idesleep" /\ pc'[q] # "idesleep"
    BY <1>1, <1>2 DEF Inv, Types
  <2>. QED  BY <1>2, <2>1, QueueStable
<1>. QED  BY <1>3, <1>4, <1>5, <1>6 DEF Inv

\* bget() finds no buffer at all: only the process itself stops.
LEMMA BgetPanicInv ==
  ASSUME Inv, NEW p \in Proc, BgetPanic(p)
  PROVE  Inv'
<1>1. /\ pc[p] = "bget" /\ pc' = [pc EXCEPT ![p] = "panic"]
      /\ UNCHANGED <<sector, data, busy, valid, dirty, want, buf, idequeue, cmd, irq, disk, errors>>
  BY DEF BgetPanic, Goto, cache, drive
<1>2. Types' /\ Asked' /\ Flags' /\ Done'
  BY <1>1 DEF Inv, Types, Asked, Flags, Done, Labels, InHand
<1>3. OneBuffer'
  <2>1. \A q \in Proc, c \in Buf : Owns(q, c)' <=> Owns(q, c)
    BY <1>1 DEF Inv, Types, Owns
  <2>. QED  BY <1>1, <2>1 DEF Inv, OneBuffer
<1>4. NoLostRelease' /\ ValidIsDisk' /\ NoIdePanic'
  BY <1>1 DEF Inv, Types, NoLostRelease, ValidIsDisk, NoIdePanic
<1>5. QueueServed' /\ Written'
  <2>1. \A q \in Proc : \/ buf'[q] = buf[q] /\ pc'[q] = pc[q]
                        \/ pc[q] # "idesleep" /\ pc'[q] # "idesleep"
    BY <1>1 DEF Inv, Types
  <2>. QED  BY <1>1, <2>1, QueueStable
<1>. QED  BY <1>2, <1>3, <1>4, <1>5 DEF Inv

\* bget() finds no buffer with the sector, and gives it one that nobody has and whose
\* contents are on the platter.
LEMMA BgetRecycleInv ==
  ASSUME Inv, NEW p \in Proc, BgetRecycle(p)
  PROVE  Inv'
<1>1. PICK i \in 1 .. Len(lru) :
        /\ lru[i] \in Recyclable
        /\ sector' = [sector EXCEPT ![lru[i]] = want[p]]
        /\ busy' = busy \cup {lru[i]}
        /\ valid' = valid \ {lru[i]}
        /\ dirty' = dirty \ {lru[i]}
        /\ buf' = [buf EXCEPT ![p] = lru[i]]
  BY DEF BgetRecycle
<1>. DEFINE b == lru[i]
<1>. HIDE DEF b
<1>2. /\ b \in Buf /\ b \notin busy /\ b \notin dirty /\ pc[p] = "bget"
      /\ \A c \in Buf : sector[c] # want[p]
      /\ sector' = [sector EXCEPT ![b] = want[p]] /\ busy' = busy \cup {b} /\ valid' = valid \ {b}
      /\ dirty' = dirty \ {b} /\ buf' = [buf EXCEPT ![p] = b] /\ pc' = [pc EXCEPT ![p] = "iderw"]
      /\ UNCHANGED <<data, want, idequeue, cmd, irq, disk, errors>>
  BY <1>1 DEF b, BgetRecycle, Recyclable, Cached, Goto, drive
<1>3. want[p] \in Sector
  BY <1>2 DEF Inv, Asked
<1>4. Types' /\ Asked' /\ Flags' /\ Done'
  <2>1. Types' /\ Flags'
    BY <1>2, <1>3 DEF Inv, Types, Flags, Labels
  <2>2. Asked'
    BY <1>2, <1>3 DEF Inv, Types, Asked, InHand
  <2>3. \A q \in Proc : pc[q] = "idewoken" => buf[q] # b
    BY <1>2, OwnerIs DEF InHand
  <2>4. Done'
    BY <1>2, <2>3 DEF Inv, Types, Done
  <2>. QED  BY <2>1, <2>2, <2>4
<1>5. \A q \in Proc : pc[q] \in InHand => buf[q] # b
  BY <1>2, OwnerIs
<1>6. OneBuffer'
  <2>1. \A q \in Proc, c \in Buf : Owns(q, c)' <=> (IF q = p THEN c = b ELSE Owns(q, c))
    BY <1>2 DEF Inv, Types, Owns
  <2>2. \A c \in Buf : ~Owns(p, c)
    BY <1>2 DEF Owns
  <2>3. \A q \in Proc : ~Owns(q, b)
    BY <1>2 DEF Inv, OneBuffer
  <2>4. \A c, d \in Buf : sector'[c] = sector'[d] /\ sector'[c] # NoSector => c = d
    BY <1>2 DEF Inv, Types, OneBuffer
  <2>5. \A q \in Proc, c \in Buf : Owns(q, c)' => sector'[c] = want'[q]
    BY <1>2, <2>1, <2>3, SMTT(30) DEF Inv, Types, OneBuffer
  <2>. QED  BY <1>2, <2>1, <2>2, <2>3, <2>4, <2>5, SMTT(30) DEF Inv, OneBuffer
<1>7. NoLostRelease' /\ ValidIsDisk' /\ NoIdePanic'
  <2>1. NoLostRelease'
    BY <1>2 DEF Inv, Types, NoLostRelease
  <2>2. ValidIsDisk'
    BY <1>2, <1>5 DEF Inv, Types, ValidIsDisk, InHand
  <2>3. NoIdePanic'
    BY <1>2, <1>5 DEF Inv, Types, NoIdePanic, InHand
  <2>. QED  BY <2>1, <2>2, <2>3
<1>8. QueueServed' /\ Written'
  <2>1. \A q \in Proc : \/ buf'[q] = buf[q] /\ pc'[q] = pc[q]
                        \/ pc[q] # "idesleep" /\ pc'[q] # "idesleep"
    BY <1>2 DEF Inv, Types
  <2>2. \A j \in 1 .. Len(idequeue) : idequeue[j] # b
    BY <1>2, NotQueued
  <2>3. \A j \in 1 .. Len(idequeue) : LET c == idequeue[j] IN
            /\ sector'[c] = sector[c] /\ data'[c] = data[c]
            /\ c \in dirty' <=> c \in dirty
            /\ c \in valid' <=> c \in valid
    BY <1>2, <2>2, SMTT(30) DEF Inv, Types
  <2>. QED  BY <1>2, <2>1, <2>3, QueueStable
<1>. QED  BY <1>4, <1>6, <1>7, <1>8 DEF Inv

\* A process that is woken finds its request done.
LEMMA IderwTestInv ==
  ASSUME Inv, NEW p \in Proc, IderwTest(p)
  PROVE  Inv'
<1>1. /\ pc[p] = "idewoken" /\ buf[p] \in valid /\ pc' = [pc EXCEPT ![p] = "held"]
      /\ UNCHANGED <<sector, data, busy, valid, dirty, want, buf, idequeue, cmd, irq, disk, errors>>
  BY DEF Inv, Done, IderwTest, Goto, cache, drive
<1>2. Types' /\ Asked' /\ Flags' /\ Done'
  BY <1>1 DEF Inv, Types, Asked, Flags, Done, Labels, InHand
<1>3. OneBuffer'
  <2>1. \A q \in Proc, c \in Buf : Owns(q, c)' <=> Owns(q, c)
    BY <1>1 DEF Inv, Types, Owns
  <2>. QED  BY <1>1, <2>1 DEF Inv, OneBuffer
<1>4. NoLostRelease' /\ ValidIsDisk'
  BY <1>1 DEF Inv, Types, NoLostRelease, ValidIsDisk
<1>5. NoIdePanic'
  <2>1. buf[p] \in busy
    BY <1>1, OwnerIs DEF InHand
  <2>. QED  BY <1>1, <2>1 DEF Inv, Types, NoIdePanic
<1>6. QueueServed' /\ Written'
  <2>1. \A q \in Proc : \/ buf'[q] = buf[q] /\ pc'[q] = pc[q]
                        \/ pc[q] # "idesleep" /\ pc'[q] # "idesleep"
    BY <1>1 DEF Inv, Types
  <2>. QED  BY <1>1, <2>1, QueueStable
<1>. QED  BY <1>2, <1>3, <1>4, <1>5, <1>6 DEF Inv

\* The owner of a buffer changes its contents and marks it dirty, for bwrite() or
\* log_write().
LEMMA ChangeInv ==
  ASSUME Inv, NEW p \in Proc, NEW v \in Val, NEW l \in {"held", "iderw"}, pc[p] = "held",
         data' = [data EXCEPT ![buf[p]] = v], dirty' = dirty \cup {buf[p]},
         pc' = [pc EXCEPT ![p] = l],
         UNCHANGED <<sector, busy, valid, want, buf, idequeue, cmd, irq, disk, errors>>
  PROVE  Inv'
<1>1. /\ buf[p] \in Buf /\ buf[p] \in busy /\ buf[p] \in valid
      /\ \A q \in Proc : q # p /\ pc[q] \in InHand => buf[q] # buf[p]
  BY OwnerIs DEF Inv, ValidIsDisk, InHand
<1>2. Types' /\ Asked' /\ Flags'
  BY <1>1 DEF Inv, Types, Asked, Flags, Labels, InHand
<1>3. Done'
  BY <1>1 DEF Inv, Types, Done, InHand
<1>4. OneBuffer'
  <2>1. \A q \in Proc, c \in Buf : Owns(q, c)' <=> Owns(q, c)
    BY DEF Inv, Types, Owns
  <2>. QED  BY <2>1 DEF Inv, OneBuffer
<1>5. NoLostRelease' /\ ValidIsDisk' /\ NoIdePanic'
  BY <1>1 DEF Inv, Types, NoLostRelease, ValidIsDisk, NoIdePanic
<1>6. QueueServed' /\ Written'
  <2>1. \A q \in Proc : \/ buf'[q] = buf[q] /\ pc'[q] = pc[q]
                        \/ pc[q] # "idesleep" /\ pc'[q] # "idesleep"
    BY DEF Inv, Types
  <2>2. \A j \in 1 .. Len(idequeue) : idequeue[j] # buf[p]
    BY <1>1, NotQueued DEF InHand
  <2>3. \A j \in 1 .. Len(idequeue) : LET c == idequeue[j] IN
            /\ sector'[c] = sector[c] /\ data'[c] = data[c]
            /\ c \in dirty' <=> c \in dirty
            /\ c \in valid' <=> c \in valid
    BY <2>2, SMTT(30) DEF Inv, Types
  <2>. QED  BY <2>1, <2>3, QueueStable
<1>. QED  BY <1>2, <1>3, <1>4, <1>5, <1>6 DEF Inv

LEMMA BwriteInv ==
  ASSUME Inv, NEW p \in Proc, NEW v \in Val, Bwrite(p, v)
  PROVE  Inv'
  BY ChangeInv DEF Bwrite, Goto, cache, drive

LEMMA PinInv ==
  ASSUME Inv, NEW p \in Proc, NEW v \in Val, Pin(p, v)
  PROVE  Inv'
<1>1. pc' = [pc EXCEPT ![p] = "held"] /\ pc[p] = "held"
  BY DEF Inv, Types, Pin
<1>. QED  BY <1>1, ChangeInv DEF Pin, cache, drive

\* brelse() gives the buffer up and wakes whoever waits for it.
LEMMA BrelseInv ==
  ASSUME Inv, NEW p \in Proc, Brelse(p)
  PROVE  Inv'
<1>. DEFINE b == buf[p]
<1>1. /\ b \in Buf /\ b \in busy /\ pc[p] = "held"
      /\ \A q \in Proc : q # p /\ pc[q] \in InHand => buf[q] # b
  BY OwnerIs DEF Brelse, InHand
<1>2. /\ busy' = busy \ {b} /\ buf' = [buf EXCEPT ![p] = NoBuf] /\ want' = [want EXCEPT ![p] = NoSector]
      /\ UNCHANGED <<sector, data, valid, dirty, idequeue, cmd, irq, disk, errors>>
  BY DEF Brelse, drive
<1>3. /\ pc' \in [Proc -> Labels] /\ pc'[p] = "idle"
      /\ \A q \in Proc : q # p => pc'[q] = IF buf[q] = b /\ pc[q] = "bgetsleep" THEN "bget" ELSE pc[q]
  BY <1>1 DEF Inv, Types, Brelse, Wakeup, Labels, InHand
<1>4. NoBuf \notin Buf
  BY SMTT(30) DEF NoBuf, Buf
<1>. HIDE DEF b
<1>5. Types'
  BY <1>2, <1>3 DEF Inv, Types
<1>6. Asked' /\ Flags' /\ Done'
  BY <1>2, <1>3 DEF Inv, Types, Asked, Flags, Done, InHand
<1>7. OneBuffer'
  <2>1. \A q \in Proc, c \in Buf : Owns(q, c)' <=> (q # p /\ Owns(q, c))
    BY <1>2, <1>3, <1>4 DEF Inv, Types, Owns
  <2>2. \A q \in Proc : q # p => ~Owns(q, b)
    BY <1>1 DEF Owns, InHand
  <2>3. Owns(p, b) /\ \A c \in Buf : Owns(p, c) => c = b
    BY <1>1 DEF Owns, b
  <2>4. \A q \in Proc : q # p => want'[q] = want[q]
    BY <1>2 DEF Inv, Types
  <2>5. \A c \in Buf : c \in busy' <=> \E q \in Proc : Owns(q, c)'
    BY <1>2, <2>1, <2>2, <2>3, SMTT(30) DEF Inv, OneBuffer
  <2>. QED  BY <1>2, <2>1, <2>4, <2>5 DEF Inv, OneBuffer
<1>8. NoLostRelease'
  BY <1>2, <1>3 DEF Inv, Types, NoLostRelease
<1>9. ValidIsDisk'
  BY <1>2, <1>3 DEF Inv, Types, ValidIsDisk
<1>10. NoIdePanic'
  BY <1>1, <1>2, <1>3 DEF Inv, Types, NoIdePanic, InHand
<1>11. QueueServed' /\ Written'
  <2>1. \A q \in Proc : \/ buf'[q] = buf[q] /\ pc'[q] = pc[q]
                        \/ pc[q] # "idesleep" /\ pc'[q] # "idesleep"
    BY <1>1, <1>2, <1>3 DEF Inv, Types
  <2>. QED  BY <1>2, <2>1, QueueStable
<1>. QED  BY <1>5, <1>6, <1>7, <1>8, <1>9, <1>10, <1>11 DEF Inv

\* iderw() puts the buffer behind the others, and starts the drive if it is alone.
LEMMA IderwInv ==
  ASSUME Inv, NEW p \in Proc, Iderw(p)
  PROVE  Inv'
<1>. DEFINE b == buf[p]
<1>1. /\ b \in Buf /\ b \in busy /\ pc[p] = "iderw" /\ sector[b] = want[p] /\ want[p] \in Sector
      /\ \A q \in Proc : q # p /\ pc[q] \in InHand => buf[q] # b
  BY OwnerIs DEF Iderw, InHand
<1>2. /\ idequeue' = Append(idequeue, b) /\ pc' = [pc EXCEPT ![p] = "idesleep"]
      /\ UNCHANGED <<sector, data, busy, valid, dirty, irq, disk, errors, want, buf>>
      /\ IF idequeue = <<>> THEN cmd' = [write |-> b \in dirty, sector |-> sector[b], val |-> data[b]]
                            ELSE cmd' = cmd
  BY DEF Iderw, IdeStart, Goto, cache
<1>3. b \in valid => b \in dirty
  BY <1>1 DEF Inv, NoIdePanic
<1>4. \A i \in 1 .. Len(idequeue) : idequeue[i] # b
  BY <1>1, NotQueued DEF InHand
<1>5. /\ idequeue \in Seq(Buf) /\ Len(idequeue) \in Nat
      /\ idequeue' \in Seq(Buf) /\ Len(idequeue') = Len(idequeue) + 1
      /\ \A i \in 1 .. Len(idequeue) : idequeue'[i] = idequeue[i]
      /\ idequeue'[Len(idequeue) + 1] = b
  BY <1>1, <1>2, SMTT(30) DEF Inv, Types
<1>6. cmd' \in Cmd /\ cmd' # NoCmd
  <2>1. [write |-> b \in dirty, sector |-> sector[b], val |-> data[b]] \in Cmd
    BY <1>1, SMTT(30) DEF Inv, Types, Cmd
  <2>2. idequeue # <<>> => cmd \in Cmd
    BY DEF Inv, Types, QueueServed
  <2>3. NoCmd \notin Cmd
    BY BcacheAssumption DEF Cmd
  <2>. QED  BY <1>2, <2>1, <2>2, <2>3
<1>. HIDE DEF b
<1>7. Types'
  BY <1>2, <1>5, <1>6 DEF Inv, Types, Labels
<1>8. Asked' /\ Flags' /\ Done'
  BY <1>1, <1>2 DEF Inv, Types, Asked, Flags, Done, InHand, b
<1>9. OneBuffer'
  <2>1. \A q \in Proc, c \in Buf : Owns(q, c)' <=> Owns(q, c)
    BY <1>1, <1>2 DEF Inv, Types, Owns
  <2>. QED  BY <1>2, <2>1 DEF Inv, OneBuffer
<1>10. NoLostRelease' /\ ValidIsDisk' /\ NoIdePanic'
  BY <1>2 DEF Inv, Types, NoLostRelease, ValidIsDisk, NoIdePanic
<1>11. Written'
  <2>1. CASE idequeue = <<>>
    BY <1>2, <2>1 DEF Inv, QueueServed, Written
  <2>2. CASE idequeue # <<>>
    BY <1>2, <2>2 DEF Inv, Written
  <2>. QED  BY <2>1, <2>2
<1>12. QueueServed'
  <2>. DEFINE n == Len(idequeue)
  <2>1. \A i, j \in 1 .. n + 1 : idequeue'[i] = idequeue'[j] => i = j
    <3>. SUFFICES ASSUME NEW i \in 1 .. n + 1, NEW j \in 1 .. n + 1, idequeue'[i] = idequeue'[j]
                  PROVE  i = j
      OBVIOUS
    <3>1. CASE i \in 1 .. n /\ j \in 1 .. n
      BY <1>5, <3>1, SMTT(30) DEF Inv, QueueServed
    <3>2. CASE i = n + 1 \/ j = n + 1
      BY <1>4, <1>5, <3>2, SMTT(30)
    <3>. QED  BY <1>5, <3>1, <3>2, SMTT(30)
  <2>2. ASSUME NEW c \in Buf
        PROVE  (\E i \in 1 .. n + 1 : idequeue'[i] = c) <=> \E q \in Proc : Owns(q, c)' /\ pc'[q] = "idesleep"
    <3>1. (\E i \in 1 .. n + 1 : idequeue'[i] = c) <=> c = b \/ \E i \in 1 .. n : idequeue[i] = c
      <4>1. ASSUME NEW i \in 1 .. n + 1, idequeue'[i] = c
            PROVE  c = b \/ \E k \in 1 .. n : idequeue[k] = c
        <5>1. CASE i \in 1 .. n
          BY <1>5, <4>1, <5>1
        <5>2. CASE i = n + 1
          BY <1>5, <4>1, <5>2
        <5>. QED  BY <1>5, <5>1, <5>2, SMTT(30)
      <4>2. ASSUME NEW i \in 1 .. n, idequeue[i] = c
            PROVE  \E k \in 1 .. n + 1 : idequeue'[k] = c
        BY <1>5, <4>2, SMTT(30)
      <4>3. c = b => \E k \in 1 .. n + 1 : idequeue'[k] = c
        BY <1>5, SMTT(30)
      <4>. QED  BY <4>1, <4>2, <4>3
    <3>2. (\E q \in Proc : Owns(q, c)' /\ pc'[q] = "idesleep")
            <=> c = b \/ \E q \in Proc : buf[q] = c /\ pc[q] = "idesleep"
      BY <1>1, <1>2 DEF Inv, Types, Owns, b
    <3>. QED  BY <3>1, <3>2, Queued
  <2>3. ASSUME NEW i \in 1 .. n + 1
        PROVE  ~(idequeue'[i] \in valid' /\ idequeue'[i] \notin dirty')
    <3>1. CASE i \in 1 .. n
      BY <1>2, <1>5, <3>1 DEF Inv, QueueServed
    <3>2. CASE i = n + 1
      BY <1>2, <1>3, <1>5, <3>2
    <3>. QED  BY <1>5, <3>1, <3>2, SMTT(30)
  <2>4. idequeue' # <<>> /\ Head(idequeue') = idequeue'[1]
    BY <1>5, SMTT(30)
  <2>5. cmd'.sector = sector'[idequeue'[1]] /\ cmd'.val = data'[idequeue'[1]]
        /\ (cmd'.write <=> idequeue'[1] \in dirty')
    <3>1. CASE idequeue = <<>>
      <4>1. idequeue'[1] = b
        BY <1>5, <3>1, SMTT(30)
      <4>2. cmd' = [write |-> b \in dirty, sector |-> sector[b], val |-> data[b]]
        BY <1>2, <3>1
      <4>3. cmd'.sector = sector[b] /\ cmd'.val = data[b]
        BY <4>2
      <4>4. cmd'.write <=> b \in dirty
        BY <4>2
      <4>. QED  BY <1>2, <4>1, <4>3, <4>4
    <3>2. CASE idequeue # <<>>
      <4>1. cmd # NoCmd
        BY <3>2 DEF Inv, QueueServed
      <4>2. 1 \in 1 .. n
        BY <4>1, HeadIs, SMTT(30)
      <4>. QED  BY <1>2, <1>5, <3>2, <4>1, <4>2, HeadIs
    <3>. QED  BY <3>1, <3>2
  <2>. QED  BY <1>5, <1>6, <2>1, <2>2, <2>3, <2>4, <2>5 DEF QueueServed
<1>. QED  BY <1>7, <1>8, <1>9, <1>10, <1>11, <1>12 DEF Inv

\* The drive writes only to the sector of the first request, whose buffer is dirty.
LEMMA DriveDoneInv ==
  ASSUME Inv, DriveDone
  PROVE  Inv'
<1>1. /\ cmd # NoCmd /\ irq' = TRUE
      /\ disk' = IF cmd.write THEN [disk EXCEPT ![cmd.sector] = cmd.val] ELSE disk
      /\ UNCHANGED <<sector, data, busy, valid, dirty, idequeue, cmd, errors, pc, want, buf>>
  BY DEF DriveDone, cache
<1>2. /\ cmd \in Cmd /\ idequeue[1] \in Buf /\ cmd.sector = sector[idequeue[1]]
      /\ (cmd.write <=> idequeue[1] \in dirty) /\ cmd.sector \in Sector /\ cmd.val \in Val
  BY <1>1, HeadIs DEF Cmd
<1>3. Types'
  BY <1>1, <1>2 DEF Inv, Types
<1>4. Asked' /\ Flags' /\ Done'
  BY <1>1 DEF Inv, Types, Asked, Flags, Done, InHand
<1>5. Written'
  BY <1>1, <1>2 DEF Inv, Types, Written
<1>6. OneBuffer' /\ NoLostRelease' /\ NoIdePanic'
  BY <1>1 DEF Inv, OneBuffer, Owns, NoLostRelease, NoIdePanic
<1>7. ValidIsDisk'
  <2>1. ASSUME NEW b \in valid, b \notin dirty, ~errors
        PROVE  data[b] = disk'[sector[b]]
    <3>1. b \in Buf /\ sector[b] \in Sector /\ data[b] = disk[sector[b]]
      BY <2>1 DEF Inv, Types, Flags, ValidIsDisk
    <3>2. cmd.write => sector[b] # cmd.sector
      <4>1. sector[b] # NoSector
        BY <3>1, BcacheAssumption
      <4>. QED  BY <1>2, <2>1, <3>1, <4>1 DEF Inv, OneBuffer
    <3>. QED  BY <1>1, <3>1, <3>2 DEF Inv, Types
  <2>. QED  BY <1>1, <2>1 DEF Inv, ValidIsDisk
<1>8. QueueServed'
  BY <1>1, SMTT(30) DEF Inv, QueueServed, Owns
<1>. QED  BY <1>3, <1>4, <1>5, <1>6, <1>7, <1>8 DEF Inv

\* ideintr() finishes the first request, wakes its owner and starts the next one.
LEMMA IdeIntrInv ==
  ASSUME Inv, IdeIntr
  PROVE  Inv'
<1>. DEFINE b == idequeue[1]
            n == Len(idequeue)
<1>1. irq /\ cmd # NoCmd
  BY DEF IdeIntr, Inv, QueueServed
<1>2. /\ idequeue # <<>> /\ idequeue \in Seq(Buf) /\ n \in Nat \ {0} /\ Head(idequeue) = b /\ b \in Buf
      /\ cmd \in Cmd /\ cmd.sector = sector[b] /\ cmd.val = data[b] /\ (cmd.write <=> b \in dirty)
      /\ cmd.sector \in Sector
  BY <1>1, HeadIs DEF Inv, Types, Cmd
<1>3. /\ valid' = valid \cup {b} /\ dirty' = dirty \ {b} /\ pc' = Wakeup(pc, b)
      /\ \/ data' = [data EXCEPT ![b] = IF b \in dirty THEN @ ELSE disk[cmd.sector]]
         \/ errors /\ data' = data
      /\ idequeue' = Tail(idequeue) /\ irq' = FALSE
      /\ UNCHANGED <<sector, busy, disk, errors, want, buf>>
  BY <1>2 DEF IdeIntr, cache
<1>4. IF Tail(idequeue) # <<>>
      THEN cmd' = [write |-> idequeue[2] \in dirty, sector |-> sector[idequeue[2]], val |-> data[idequeue[2]]]
      ELSE cmd' = NoCmd
  BY DEF IdeIntr, IdeStart
<1>5. PICK p \in Proc : buf[p] = b /\ pc[p] = "idesleep"
  <2>1. 1 \in 1 .. n
    BY <1>2, SMTT(30)
  <2>. QED  BY <1>2, <2>1, Queued
<1>6. /\ b \in busy /\ \A q \in Proc : q # p /\ pc[q] \in InHand => buf[q] # b
  BY <1>5, OwnerIs DEF InHand
<1>7. /\ idequeue' \in Seq(Buf) /\ Len(idequeue') = n - 1
      /\ \A i \in 1 .. n - 1 : idequeue'[i] = idequeue[i + 1]
  BY <1>2, <1>3, SMTT(30)
<1>8. \A i, j \in 1 .. n : idequeue[i] = idequeue[j] => i = j
  BY DEF Inv, QueueServed
<1>9. /\ data' \in [Buf -> Val] /\ \A c \in Buf : c # b => data'[c] = data[c]
      /\ b \in dirty => data'[b] = data[b]
      /\ b \notin dirty /\ ~errors => data'[b] = disk[sector[b]]
  BY <1>2, <1>3 DEF Inv, Types
<1>10. /\ pc' \in [Proc -> Labels]
       /\ pc'[p] = "idewoken"
       /\ \A q \in Proc : q # p => pc'[q] = IF buf[q] = b /\ pc[q] = "bgetsleep" THEN "bget" ELSE pc[q]
  BY <1>3, <1>5, <1>6 DEF Inv, Types, Wakeup, Labels, InHand
<1>. HIDE DEF b, n
<1>11. n > 1 => idequeue[2] \in Buf /\ idequeue[2] # b /\ sector[idequeue[2]] \in Sector
  <2>. SUFFICES ASSUME n > 1
                PROVE  idequeue[2] \in Buf /\ idequeue[2] # b /\ sector[idequeue[2]] \in Sector
    OBVIOUS
  <2>1. 1 \in 1 .. n /\ 2 \in 1 .. n
    BY <1>2, SMTT(30)
  <2>2. idequeue[2] \in Buf /\ idequeue[2] # b
    BY <1>2, <1>8, <2>1, SMTT(30) DEF b, n
  <2>3. PICK q \in Proc : buf[q] = idequeue[2] /\ pc[q] = "idesleep"
    BY <2>1, <2>2, Queued DEF n
  <2>. QED  BY <2>2, <2>3, OwnerIs DEF InHand
<1>12. /\ n > 1 => cmd' = [write |-> idequeue[2] \in dirty, sector |-> sector[idequeue[2]], val |-> data[idequeue[2]]]
       /\ n = 1 => cmd' = NoCmd
       /\ cmd' \in Cmd \cup {NoCmd} /\ (cmd' = NoCmd <=> n = 1)
  <2>1. Tail(idequeue) = <<>> <=> n = 1
    <3>1. Tail(idequeue) \in Seq(Buf) /\ Len(Tail(idequeue)) = n - 1
      BY <1>3, <1>7
    <3>2. Tail(idequeue) = <<>> <=> Len(Tail(idequeue)) = 0
      BY <3>1, EmptyIs
    <3>. QED  BY <1>2, <3>1, <3>2, SMTT(30)
  <2>2. n > 1 => [write |-> idequeue[2] \in dirty, sector |-> sector[idequeue[2]], val |-> data[idequeue[2]]] \in Cmd
    BY <1>11, SMTT(30) DEF Inv, Types, Cmd
  <2>3. NoCmd \notin Cmd
    BY BcacheAssumption DEF Cmd
  <2>4. n = 1 \/ n > 1
    BY <1>2, SMTT(30)
  <2>. QED  BY <1>4, <2>1, <2>2, <2>3, <2>4, SMTT(30)
<1>13. Types'
  BY <1>2, <1>3, <1>7, <1>9, <1>10, <1>12 DEF Inv, Types
<1>14. Asked' /\ Flags'
  BY <1>2, <1>3, <1>5, <1>10, SMTT(30) DEF Inv, Types, Asked, Flags, InHand
<1>15. Done'
  BY <1>3, <1>5, <1>6, <1>10 DEF Inv, Types, Done, InHand
<1>16. Written'
  BY <1>3 DEF Written
<1>17. OneBuffer'
  <2>1. \A q \in Proc, c \in Buf : Owns(q, c)' <=> Owns(q, c)
    BY <1>3, <1>5, <1>10 DEF Inv, Types, Owns
  <2>. QED  BY <1>3, <2>1 DEF Inv, OneBuffer
<1>18. NoLostRelease'
  BY <1>3, <1>5, <1>10 DEF Inv, Types, NoLostRelease
<1>19. ValidIsDisk'
  <2>1. ASSUME NEW c \in valid', c \notin dirty', ~errors
        PROVE  data'[c] = disk[sector[c]]
    <3>1. CASE c # b
      BY <1>3, <1>9, <2>1, <3>1 DEF Inv, Types, ValidIsDisk
    <3>2. CASE c = b /\ b \notin dirty
      BY <1>9, <2>1, <3>2
    <3>3. CASE c = b /\ b \in dirty
      <4>1. disk[cmd.sector] = cmd.val
        BY <1>1, <1>2, <3>3 DEF Inv, Written
      <4>. QED  BY <1>2, <1>9, <3>3, <4>1
    <3>. QED  BY <3>1, <3>2, <3>3
  <2>2. \A q \in Proc : pc'[q] = "held" => buf'[q] \in valid'
    BY <1>3, <1>5, <1>10 DEF Inv, Types, ValidIsDisk
  <2>. QED  BY <1>3, <2>1, <2>2 DEF ValidIsDisk
<1>20. NoIdePanic'
  BY <1>3, <1>5, <1>6, <1>10 DEF Inv, Types, NoIdePanic, InHand
<1>21. QueueServed'
  <2>1. ASSUME NEW i \in 1 .. n - 1, NEW j \in 1 .. n - 1, idequeue'[i] = idequeue'[j] PROVE i = j
    <3>1. i + 1 \in 1 .. n /\ j + 1 \in 1 .. n /\ (i + 1 = j + 1 => i = j)
      BY <1>2, SMTT(30)
    <3>. QED  BY <1>7, <1>8, <2>1, <3>1
  <2>2. ASSUME NEW c \in Buf
        PROVE  (\E i \in 1 .. n - 1 : idequeue'[i] = c) <=> \E q \in Proc : Owns(q, c)' /\ pc'[q] = "idesleep"
    <3>1. (\E i \in 1 .. n - 1 : idequeue'[i] = c) <=> c # b /\ \E i \in 1 .. n : idequeue[i] = c
      <4>1. ASSUME NEW i \in 1 .. n - 1, idequeue'[i] = c
            PROVE  c # b /\ \E k \in 1 .. n : idequeue[k] = c
        <5>1. i + 1 \in 1 .. n /\ 1 \in 1 .. n /\ i + 1 # 1
          BY <1>2, SMTT(30)
        <5>. QED  BY <1>7, <1>8, <4>1, <5>1 DEF b
      <4>2. ASSUME NEW i \in 1 .. n, idequeue[i] = c, c # b
            PROVE  \E k \in 1 .. n - 1 : idequeue'[k] = c
        <5>1. i # 1
          BY <4>2 DEF b
        <5>2. i - 1 \in 1 .. n - 1 /\ (i - 1) + 1 = i
          BY <1>2, <5>1, SMTT(30)
        <5>. QED  BY <1>7, <4>2, <5>2
      <4>. QED  BY <4>1, <4>2
    <3>2. (\E q \in Proc : Owns(q, c)' /\ pc'[q] = "idesleep")
            <=> c # b /\ \E q \in Proc : buf[q] = c /\ pc[q] = "idesleep"
      BY <1>3, <1>5, <1>6, <1>10 DEF Owns, InHand
    <3>. QED  BY <3>1, <3>2, Queued DEF n
  <2>3. ASSUME NEW i \in 1 .. n - 1
        PROVE  ~(idequeue'[i] \in valid' /\ idequeue'[i] \notin dirty')
    <3>1. i + 1 \in 1 .. n /\ 1 \in 1 .. n /\ i + 1 # 1
      BY <1>2, SMTT(30)
    <3>2. idequeue[i + 1] # b
      BY <1>8, <3>1 DEF b
    <3>. QED  BY <1>3, <1>7, <3>1, <3>2 DEF Inv, QueueServed, n
  <2>4. cmd' = NoCmd <=> idequeue' = <<>>
    BY <1>2, <1>7, <1>12, SMTT(30)
  <2>5. cmd' # NoCmd => LET c == Head(idequeue') IN
          cmd'.sector = sector'[c] /\ cmd'.val = data'[c] /\ (cmd'.write <=> c \in dirty')
    <3>. SUFFICES ASSUME cmd' # NoCmd
                  PROVE  LET c == Head(idequeue') IN
                           cmd'.sector = sector'[c] /\ cmd'.val = data'[c] /\ (cmd'.write <=> c \in dirty')
      OBVIOUS
    <3>1. n > 1
      BY <1>2, <1>12, SMTT(30)
    <3>2. Head(idequeue') = idequeue[2]
      BY <1>2, <1>7, <3>1, SMTT(30)
    <3>3. cmd' = [write |-> idequeue[2] \in dirty, sector |-> sector[idequeue[2]], val |-> data[idequeue[2]]]
      BY <1>12, <3>1
    <3>4. cmd'.sector = sector[idequeue[2]] /\ cmd'.val = data[idequeue[2]]
      BY <3>3
    <3>5. cmd'.write <=> idequeue[2] \in dirty
      BY <3>3
    <3>6. idequeue[2] \in dirty' <=> idequeue[2] \in dirty
      BY <1>3, <1>11, <3>1
    <3>. QED  BY <1>3, <1>9, <1>11, <3>1, <3>2, <3>4, <3>5, <3>6
  <2>. QED  BY <1>3, <1>7, <2>1, <2>2, <2>3, <2>4, <2>5 DEF QueueServed
<1>. QED  BY <1>13, <1>14, <1>15, <1>16, <1>17, <1>18, <1>19, <1>20, <1>21 DEF Inv

LEMMA NextInv ==
  ASSUME Inv, [Next]_vars
  PROVE  Inv'
<1>1. ASSUME NEW p \in Proc, NEW s \in Sector, Bread(p, s) PROVE Inv'
  BY <1>1, BreadInv
<1>2. ASSUME NEW p \in Proc, Step(p) PROVE Inv'
  BY <1>2, BgetHitInv, BgetSleepInv, BgetRecycleInv, BgetPanicInv, IderwInv, IderwTestInv DEF Step
<1>3. ASSUME NEW p \in Proc, NEW v \in Val, Bwrite(p, v) \/ Pin(p, v) PROVE Inv'
  BY <1>3, BwriteInv, PinInv
<1>4. ASSUME NEW p \in Proc, Brelse(p) PROVE Inv'
  BY <1>4, BrelseInv
<1>5. CASE DriveDone \/ IdeIntr
  BY <1>5, DriveDoneInv, IdeIntrInv
<1>6. CASE UNCHANGED vars
  <2>1. Types' /\ Asked' /\ Flags'
    BY <1>6 DEF vars, Inv, Types, Asked, Flags
  <2>2. Written' /\ Done' /\ NoLostRelease' /\ ValidIsDisk' /\ NoIdePanic'
    BY <1>6 DEF vars, Inv, Written, Done, NoLostRelease, ValidIsDisk, NoIdePanic
  <2>3. OneBuffer'
    BY <1>6 DEF vars, Inv, OneBuffer, Owns
  <2>4. QueueServed'
    BY <1>6, QueueStable DEF vars
  <2>. QED  BY <2>1, <2>2, <2>3, <2>4 DEF Inv
<1>. QED  BY <1>1, <1>2, <1>3, <1>4, <1>5, <1>6 DEF Next, Panicked

\* One buffer for a sector, B_BUSY is a lock, queue and drive agree, no release is
\* missed, valid buffers agree with the platter, and the panics of iderw(), bwrite()
\* and brelse() do not happen: for any number of processes, buffers and sectors.
THEOREM BcacheInvariant == Spec => []Inv
<1>1. Init => Inv
  BY InitInv
<1>2. Inv /\ [Next]_vars => Inv'
  BY NextInv
<1>. QED  BY <1>1, <1>2, PTL DEF Spec

-----------------------------------------------------------------------------
(* The list.                                                                 *)

\* The list has every buffer once.
Listed == lru \in [Buf -> Buf] /\ \A b \in Buf : \E i \in Buf : lru[i] = b

LEMMA ListedStep == Inv /\ Listed /\ [Next]_vars => Listed'
<1>. SUFFICES ASSUME Inv, Listed, [Next]_vars PROVE Listed'
  OBVIOUS
<1>1. ASSUME NEW p \in Proc, Brelse(p) PROVE Listed'
  <2>. DEFINE b == buf[p]
              k == CHOOSE i \in Buf : lru[i] = b
  <2>1. b \in Buf
    BY <1>1, OwnerIs DEF Brelse, InHand
  <2>2. k \in Buf /\ lru[k] = b
    BY <2>1 DEF Listed
  <2>3. lru' = [i \in Buf |-> IF i = 1 THEN b ELSE IF i <= k THEN lru[i - 1] ELSE lru[i]]
    BY <1>1 DEF Brelse, ToHead
  <2>. HIDE DEF b, k
  <2>4. Buf = 1 .. NBUF /\ NBUF \in Nat \ {0}
    BY BcacheAssumption DEF Buf
  <2>5. lru' \in [Buf -> Buf]
    <3>1. \A i \in Buf : i # 1 => i - 1 \in Buf
      BY <2>4, SMTT(30)
    <3>. QED  BY <2>1, <2>3, <3>1 DEF Listed
  <2>6. ASSUME NEW c \in Buf PROVE \E i \in Buf : lru'[i] = c
    <3>1. PICK i \in Buf : lru[i] = c
      BY DEF Listed
    <3>2. CASE i = k
      <4>1. 1 \in Buf /\ c = b
        BY <2>2, <2>4, <3>1, <3>2, SMTT(30)
      <4>. QED  BY <4>1, <2>3
    <3>3. CASE i < k
      <4>1. i + 1 \in Buf /\ i + 1 # 1 /\ i + 1 <= k /\ (i + 1) - 1 = i
        BY <2>2, <2>4, <3>3, SMTT(30)
      <4>2. lru'[i + 1] = lru[(i + 1) - 1]
        BY <4>1, <2>3
      <4>. QED  BY <4>1, <4>2, <3>1
    <3>4. CASE i > k
      <4>1. i # 1 /\ ~(i <= k)
        BY <2>2, <2>4, <3>4, SMTT(30)
      <4>. QED  BY <4>1, <2>3, <3>1
    <3>. QED  BY <2>2, <2>4, <3>2, <3>3, <3>4, SMTT(30)
  <2>. QED  BY <2>5, <2>6 DEF Listed
<1>2. ASSUME lru' = lru PROVE Listed'
  BY <1>2 DEF Listed
<1>3. ASSUME NEW p \in Proc, NEW s \in Sector, Bread(p, s) PROVE lru' = lru
  BY <1>3 DEF Bread, cache
<1>4. ASSUME NEW p \in Proc, Step(p) PROVE lru' = lru
  BY <1>4 DEF Step, BgetHit, BgetSleep, BgetRecycle, BgetPanic, Iderw, IderwTest, cache
<1>5. ASSUME NEW p \in Proc, NEW v \in Val, Bwrite(p, v) \/ Pin(p, v) PROVE lru' = lru
  BY <1>5 DEF Bwrite, Pin, cache
<1>6. ASSUME DriveDone \/ IdeIntr PROVE lru' = lru
  BY <1>6 DEF DriveDone, IdeIntr, cache
<1>7. ASSUME UNCHANGED vars PROVE lru' = lru
  BY <1>7 DEF vars
<1>. QED  BY <1>1, <1>2, <1>3, <1>4, <1>5, <1>6, <1>7 DEF Next, Panicked

LEMMA ListedInit == Init => Listed
<1>. SUFFICES ASSUME Init PROVE Listed
  OBVIOUS
<1>1. lru = [i \in Buf |-> NBUF + 1 - i] /\ Buf = 1 .. NBUF /\ NBUF \in Nat
  BY BcacheAssumption DEF Init, Buf
<1>2. \A i \in 1 .. NBUF : NBUF + 1 - i \in 1 .. NBUF /\ NBUF + 1 - (NBUF + 1 - i) = i
  BY <1>1, SMTT(30)
<1>. QED  BY <1>1, <1>2 DEF Listed

\* All that CacheSound says of bio.c and ide.c, for any processes, sectors, values,
\* number of buffers and read errors, up to and after bget()'s panic.
THEOREM BcacheSafety == Spec => []CacheSound
<1>1. Inv /\ Listed => CacheSound
  <2>1. Inv /\ Listed => TypeOK
    BY DEF Inv, Listed, Types, TypeOK, Cmd, Labels
  <2>. QED  BY <2>1 DEF CacheSound, Inv
<1>. QED  BY <1>1, BcacheInvariant, ListedInit, ListedStep, PTL DEF Spec
=============================================================================

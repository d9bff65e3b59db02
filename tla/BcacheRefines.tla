---------------------------- MODULE BcacheRefines ----------------------------
(***************************************************************************)
(* The proof that Bcache implements BlockStore: bget() of a valid buffer   *)
(* and the interrupt that ends a read are SRead, bwrite() and log_write()  *)
(* are SWrite, brelse() is SRelease, and every other step is invisible.    *)
(***************************************************************************)
EXTENDS BcacheProofs

\* The prover of the leaves that name none.
USE ZenonT(30)

\* The mapped variables.
StoreNow ==
  IF errors THEN [s \in Sector |-> CHOOSE v \in Val : TRUE] ELSE [s \in Sector |-> Current(s)]
HasNow == [p \in Proc |-> Has(p)]

\* Current() is the data of the valid buffer of the sector, or what is on the platter.
CurrentOK ==
  \A s \in Sector : /\ \A b \in valid : sector[b] = s => Current(s) = data[b]
                    /\ (\A b \in valid : sector[b] # s) => Current(s) = disk[s]

\* Who has a sector has its buffer, and the buffer is valid.
HasOK ==
  \A p \in Proc : \/ Has(p) = NoSector
                  \/ /\ pc[p] \in InHand /\ Has(p) = want[p]
                     /\ buf[p] \in valid /\ buf[p] \in busy /\ sector[buf[p]] = want[p]

LEMMA CurrentIs == Inv => CurrentOK
<1>. SUFFICES ASSUME Inv, NEW s \in Sector
              PROVE  /\ \A b \in valid : sector[b] = s => Current(s) = data[b]
                     /\ (\A b \in valid : sector[b] # s) => Current(s) = disk[s]
  BY DEF CurrentOK
<1>. DEFINE B == {b \in Cached(s) : b \in valid \/ b \in dirty}
<1>1. B = {b \in valid : sector[b] = s}
  BY DEF Inv, Types, Flags, Cached
<1>2. ASSUME NEW b \in valid, sector[b] = s
      PROVE  Current(s) = data[b]
  <2>1. \A c \in B : c = b
    BY <1>1, <1>2, BcacheAssumption, SMTT(30) DEF Inv, Types, OneBuffer
  <2>2. b \in B
    BY <1>1, <1>2
  <2>. HIDE DEF B
  <2>3. (CHOOSE c \in B : TRUE) = b
    BY <2>1, <2>2
  <2>4. Current(s) = IF B = {} THEN disk[s] ELSE data[CHOOSE c \in B : TRUE]
    BY DEF Current, B
  <2>. QED  BY <2>2, <2>3, <2>4
<1>3. ASSUME \A b \in valid : sector[b] # s
      PROVE  Current(s) = disk[s]
  <2>1. B = {}
    BY <1>1, <1>3
  <2>. QED  BY <2>1 DEF Current
<1>. QED  BY <1>2, <1>3

LEMMA HasIs == Inv => HasOK
<1>. SUFFICES ASSUME Inv, NEW p \in Proc, Has(p) # NoSector
              PROVE  /\ pc[p] \in InHand /\ Has(p) = want[p]
                     /\ buf[p] \in valid /\ buf[p] \in busy /\ sector[buf[p]] = want[p]
  BY DEF HasOK
<1>1. pc[p] \in InHand /\ Has(p) = want[p] /\ buf[p] \in valid
  BY DEF Has, InHand, Inv, ValidIsDisk
<1>. QED  BY <1>1, OwnerIs

\* A process that takes a buffer which was not busy, or whose read has just ended,
\* takes a sector nobody has.
LEMMA Free ==
  ASSUME Inv, NEW p \in Proc, NEW b \in Buf, sector[b] = want[p], want[p] \in Sector,
         b \notin busy \/ b \notin valid
  PROVE  \A q \in Proc : Has(q) # want[p]
<1>. SUFFICES ASSUME NEW q \in Proc, Has(q) = want[p]
              PROVE  FALSE
  OBVIOUS
<1>1. /\ Has(q) = want[q] /\ buf[q] \in valid /\ buf[q] \in busy /\ sector[buf[q]] = want[q]
  BY HasIs, BcacheAssumption DEF HasOK
<1>2. buf[q] = b
  BY <1>1, BcacheAssumption, SMTT(30) DEF Inv, Types, OneBuffer
<1>. QED  BY <1>1, <1>2

-----------------------------------------------------------------------------
(* What a step must do to the mapped variables to be a step of BlockStore.   *)

LEMMA Invisible ==
  ASSUME errors' = errors, \A s \in Sector : errors \/ Current(s)' = Current(s),
         \A q \in Proc : Has(q)' = Has(q)
  PROVE  UNCHANGED <<StoreNow, HasNow>>
  BY DEF StoreNow, HasNow

LEMMA Reads ==
  ASSUME errors' = errors, \A s \in Sector : errors \/ Current(s)' = Current(s),
         NEW p \in Proc, NEW s \in Sector, Has(p) = NoSector, \A q \in Proc : Has(q) # s,
         Has(p)' = s, \A q \in Proc : q # p => Has(q)' = Has(q)
  PROVE  Store!SRead(p, s)
<1>1. StoreNow' = StoreNow
  BY DEF StoreNow
<1>2. HasNow' = [HasNow EXCEPT ![p] = s] /\ HasNow[p] = NoSector /\ \A q \in Proc : HasNow[q] # s
  BY DEF HasNow
<1>. QED  BY <1>1, <1>2 DEF Store!SRead, StoreNow, HasNow

LEMMA Releases ==
  ASSUME errors' = errors, \A s \in Sector : errors \/ Current(s)' = Current(s),
         NEW p \in Proc, Has(p) # NoSector,
         Has(p)' = NoSector, \A q \in Proc : q # p => Has(q)' = Has(q)
  PROVE  Store!SRelease(p)
<1>1. StoreNow' = StoreNow
  BY DEF StoreNow
<1>2. HasNow' = [HasNow EXCEPT ![p] = NoSector] /\ HasNow[p] # NoSector
  BY DEF HasNow
<1>. QED  BY <1>1, <1>2 DEF Store!SRelease, StoreNow, HasNow

LEMMA Writes ==
  ASSUME errors' = errors, NEW p \in Proc, NEW v \in Val, Has(p) \in Sector,
         \A s \in Sector : errors \/ Current(s)' = IF s = Has(p) THEN v ELSE Current(s),
         \A q \in Proc : Has(q)' = Has(q)
  PROVE  Store!SWrite(p, v) \/ UNCHANGED <<StoreNow, HasNow>>
<1>1. HasNow' = HasNow /\ HasNow[p] = Has(p) /\ Has(p) # NoSector
  BY BcacheAssumption DEF HasNow
<1>2. CASE errors
  BY <1>1, <1>2 DEF StoreNow
<1>3. CASE ~errors
  <2>1. StoreNow' = [StoreNow EXCEPT ![Has(p)] = v]
    BY <1>3 DEF StoreNow
  <2>. QED  BY <1>1, <2>1 DEF Store!SWrite, StoreNow, HasNow
<1>. QED  BY <1>2, <1>3

-----------------------------------------------------------------------------
(* One lemma for each kind of step.  CurrentOK and Inv hold after it too.    *)

LEMMA CurrentNext == Inv' => CurrentOK'
  BY CurrentIs, PTL

\* Steps that touch neither buffers nor platter, and move one process.
LEMMA MoveRefines ==
  ASSUME Inv, NEW p \in Proc,
         (\E s \in Sector : Bread(p, s)) \/ BgetSleep(p) \/ BgetPanic(p) \/ Iderw(p) \/ IderwTest(p)
  PROVE  UNCHANGED <<StoreNow, HasNow>>
<1>1. UNCHANGED <<sector, data, valid, dirty, disk, errors>>
  BY DEF Bread, BgetSleep, BgetPanic, Iderw, IderwTest, cache, drive
<1>2. \A s \in Sector : Current(s)' = Current(s)
  BY <1>1, SMTT(30) DEF Current, Cached
<1>3. \A q \in Proc : q # p => Has(q)' = Has(q)
  BY <1>1 DEF Bread, BgetSleep, BgetPanic, Iderw, IderwTest, Goto, Has, Inv, Types
<1>4. Has(p)' = Has(p)
  <2>1. CASE (\E s \in Sector : Bread(p, s)) \/ BgetSleep(p) \/ BgetPanic(p)
    BY <1>1, <2>1 DEF Bread, BgetSleep, BgetPanic, Goto, Has, Inv, Types
  <2>2. CASE Iderw(p)
    BY <1>1, <2>2 DEF Iderw, Goto, Has, Inv, Types
  <2>3. CASE IderwTest(p)
    BY <1>1, <2>3 DEF IderwTest, Goto, Has, Inv, Types, Done
  <2>. QED  BY <2>1, <2>2, <2>3
<1>. QED  BY <1>1, <1>2, <1>3, <1>4, Invisible

\* bget() that finds the buffer returns the sector at once if the buffer is valid.
LEMMA BgetHitRefines ==
  ASSUME Inv, NEW p \in Proc, BgetHit(p)
  PROVE  (\E s \in Sector : Store!SRead(p, s)) \/ UNCHANGED <<StoreNow, HasNow>>
<1>1. PICK b \in Cached(want[p]) \ busy : /\ buf' = [buf EXCEPT ![p] = b]
                                          /\ Goto(p, IF b \in valid THEN "held" ELSE "iderw")
  BY DEF BgetHit
<1>2. pc[p] = "bget" /\ want[p] \in Sector /\ b \in Buf /\ sector[b] = want[p] /\ b \notin busy
  BY <1>1 DEF BgetHit, Cached, Inv, Asked
<1>3. UNCHANGED <<sector, data, valid, dirty, disk, errors, want>>
  BY DEF BgetHit, drive
<1>4. \A s \in Sector : Current(s)' = Current(s)
  BY <1>3, SMTT(30) DEF Current, Cached
<1>5. \A q \in Proc : q # p => Has(q)' = Has(q)
  BY <1>1, <1>3 DEF Goto, Has, Inv, Types
<1>6. Has(p) = NoSector
  BY <1>2 DEF Has
<1>7. pc'[p] = (IF b \in valid THEN "held" ELSE "iderw") /\ buf'[p] = b
  BY <1>1 DEF Goto, Inv, Types
<1>8. CASE b \in valid
  <2>1. Has(p)' = want[p]
    BY <1>3, <1>7, <1>8 DEF Has
  <2>2. \A q \in Proc : Has(q) # want[p]
    BY <1>2, Free
  <2>. QED  BY <1>2, <1>3, <1>4, <1>5, <1>6, <2>1, <2>2, Reads
<1>9. CASE b \notin valid
  <2>1. Has(p)' = NoSector
    BY <1>3, <1>7, <1>9 DEF Has
  <2>. QED  BY <1>3, <1>4, <1>5, <1>6, <2>1, Invisible
<1>. QED  BY <1>8, <1>9

\* Recycling a buffer loses nothing: it is clean, so its contents are on the platter.
LEMMA BgetRecycleRefines ==
  ASSUME Inv, Inv', NEW p \in Proc, BgetRecycle(p)
  PROVE  UNCHANGED <<StoreNow, HasNow>>
<1>1. PICK i \in 1 .. Len(lru) :
        /\ lru[i] \in Recyclable
        /\ sector' = [sector EXCEPT ![lru[i]] = want[p]]
        /\ valid' = valid \ {lru[i]}
        /\ buf' = [buf EXCEPT ![p] = lru[i]]
  BY DEF BgetRecycle
<1>. DEFINE b == lru[i]
<1>2. /\ pc[p] = "bget" /\ want[p] \in Sector /\ \A c \in Buf : sector[c] # want[p]
      /\ pc' = [pc EXCEPT ![p] = "iderw"]
      /\ UNCHANGED <<data, disk, errors, want>>
  BY DEF BgetRecycle, Cached, Inv, Asked, Goto, drive
<1>3. b \in Buf /\ b \notin busy /\ b \notin dirty
  BY <1>1 DEF Recyclable
<1>. HIDE DEF b
<1>4. /\ sector' = [sector EXCEPT ![b] = want[p]] /\ valid' = valid \ {b}
      /\ buf' = [buf EXCEPT ![p] = b]
  BY <1>1 DEF b
<1>5. \A q \in Proc : Has(q)' = Has(q)
  <2>1. Has(p) = NoSector
    BY <1>2 DEF Has
  <2>2. pc'[p] = "iderw" /\ buf'[p] = b /\ b \notin valid'
    BY <1>2, <1>4 DEF Inv, Types
  <2>3. Has(p)' = NoSector
    BY <2>2 DEF Has
  <2>4. ASSUME NEW q \in Proc, q # p
        PROVE  Has(q)' = Has(q)
    <3>1. pc'[q] = pc[q] /\ buf'[q] = buf[q]
      BY <1>2, <1>4, <2>4 DEF Inv, Types
    <3>2. pc[q] \in InHand => buf[q] # b
      BY <1>3, OwnerIs
    <3>3. pc[q] \in InHand => (buf[q] \in valid' <=> buf[q] \in valid)
      BY <1>4, <3>2
    <3>. QED  BY <1>2, <3>1, <3>3 DEF Has, InHand
  <2>. QED  BY <2>1, <2>3, <2>4
<1>6. ASSUME NEW s \in Sector, ~errors
      PROVE  Current(s)' = Current(s)
  <2>1. CurrentOK /\ CurrentOK'
    BY CurrentIs, CurrentNext
  <2>2. \A c \in Buf : c # b => sector'[c] = sector[c] /\ (c \in valid' <=> c \in valid)
    BY <1>3, <1>4 DEF Inv, Types
  <2>3. b \notin valid' /\ valid \subseteq Buf /\ valid' \subseteq Buf
    BY <1>4 DEF Inv, Types
  <2>4. CASE \E c \in valid : sector[c] = s
    <3>1. PICK c \in valid : sector[c] = s
      BY <2>4
    <3>2. Current(s) = data[c]
      BY <2>1, <3>1 DEF CurrentOK
    <3>3. CASE c = b
      <4>1. data[b] = disk[s]
        BY <1>3, <1>6, <3>1, <3>3 DEF Inv, ValidIsDisk
      <4>2. \A d \in valid' : sector'[d] # s
        BY <2>2, <2>3, <3>1, <3>3, BcacheAssumption DEF Inv, OneBuffer
      <4>3. Current(s)' = disk[s]
        BY <1>2, <2>1, <4>2 DEF CurrentOK
      <4>. QED  BY <3>2, <3>3, <4>1, <4>3
    <3>4. CASE c # b
      <4>1. c \in valid' /\ sector'[c] = s
        BY <2>2, <2>3, <3>1, <3>4
      <4>. QED  BY <1>2, <2>1, <3>2, <4>1 DEF CurrentOK
    <3>. QED  BY <3>3, <3>4
  <2>5. CASE \A c \in valid : sector[c] # s
    <3>1. \A c \in valid' : sector'[c] # s
      BY <2>2, <2>3, <2>5
    <3>. QED  BY <1>2, <2>1, <2>5, <3>1, SMTT(30) DEF CurrentOK
  <2>. QED  BY <2>4, <2>5
<1>. QED  BY <1>2, <1>5, <1>6, Invisible

\* What the drive writes is what the dirty buffer of the sector already holds.
LEMMA DriveDoneRefines ==
  ASSUME Inv, Inv', DriveDone
  PROVE  UNCHANGED <<StoreNow, HasNow>>
<1>1. /\ cmd # NoCmd
      /\ disk' = IF cmd.write THEN [disk EXCEPT ![cmd.sector] = cmd.val] ELSE disk
      /\ UNCHANGED <<sector, data, valid, dirty, errors, pc, want, buf>>
  BY DEF DriveDone, cache
<1>2. /\ idequeue[1] \in Buf /\ cmd.sector = sector[idequeue[1]]
      /\ (cmd.write <=> idequeue[1] \in dirty) /\ dirty \subseteq valid
  BY <1>1, HeadIs DEF Inv, Flags
<1>3. \A q \in Proc : Has(q)' = Has(q)
  BY <1>1 DEF Has
<1>4. ASSUME NEW s \in Sector
      PROVE  Current(s)' = Current(s)
  <2>1. CurrentOK /\ CurrentOK'
    BY CurrentIs, CurrentNext
  <2>2. CASE \E c \in valid : sector[c] = s
    BY <1>1, <2>1, <2>2, SMTT(30) DEF CurrentOK
  <2>3. CASE \A c \in valid : sector[c] # s
    <3>1. disk'[s] = disk[s]
      BY <1>1, <1>2, <2>3 DEF Inv, Types
    <3>. QED  BY <1>1, <2>1, <2>3, <3>1, SMTT(30) DEF CurrentOK
  <2>. QED  BY <2>2, <2>3
<1>. QED  BY <1>1, <1>3, <1>4, Invisible

\* The interrupt that ends a read gives the sector to the reader; the one that ends a
\* write changes nothing the callers can see.
LEMMA IdeIntrRefines ==
  ASSUME Inv, Inv', IdeIntr
  PROVE  (\E p \in Proc, s \in Sector : Store!SRead(p, s)) \/ UNCHANGED <<StoreNow, HasNow>>
<1>. DEFINE b == idequeue[1]
<1>1. cmd # NoCmd
  BY DEF IdeIntr, Inv, QueueServed
<1>2. /\ Len(idequeue) \in Nat \ {0} /\ Head(idequeue) = b /\ b \in Buf /\ cmd.sector = sector[b]
  BY <1>1, HeadIs
<1>3. /\ valid' = valid \cup {b} /\ pc' = Wakeup(pc, b)
      /\ \/ data' = [data EXCEPT ![b] = IF b \in dirty THEN @ ELSE disk[cmd.sector]]
         \/ errors /\ data' = data
      /\ UNCHANGED <<sector, disk, errors, want, buf>>
  BY <1>2 DEF IdeIntr, cache
<1>4. 1 \in 1 .. Len(idequeue)
  BY <1>2, SMTT(30)
<1>5. PICK p \in Proc : buf[p] = b /\ pc[p] = "idesleep"
  BY <1>2, <1>4, Queued
<1>6. b \in valid => b \in dirty
  BY <1>4 DEF Inv, QueueServed
<1>. HIDE DEF b
<1>7. /\ b \in busy /\ sector[b] = want[p] /\ want[p] \in Sector
      /\ \A q \in Proc : q # p /\ pc[q] \in InHand => buf[q] # b
  BY <1>5, OwnerIs DEF InHand
<1>8. /\ pc'[p] = "idewoken"
      /\ \A q \in Proc : q # p => pc'[q] = IF buf[q] = b /\ pc[q] = "bgetsleep" THEN "bget" ELSE pc[q]
  BY <1>3, <1>5, <1>7 DEF Inv, Types, Wakeup, InHand
<1>9. \A q \in Proc : q # p => Has(q)' = Has(q)
  BY <1>3, <1>7, <1>8 DEF Has, InHand
<1>10. Has(p)' = want[p]
  BY <1>3, <1>5, <1>8 DEF Has
<1>11. ASSUME NEW s \in Sector, ~errors
       PROVE  Current(s)' = Current(s)
  <2>1. CurrentOK /\ CurrentOK'
    BY CurrentIs, CurrentNext
  <2>2. /\ \A c \in Buf : c # b => data'[c] = data[c]
        /\ data'[b] = IF b \in dirty THEN data[b] ELSE disk[sector[b]]
    BY <1>2, <1>3, <1>11, SMTT(30) DEF Inv, Types
  <2>3. CASE sector[b] = s
    <3>1. Current(s)' = data'[b]
      BY <1>3, <2>1, <2>3 DEF CurrentOK
    <3>2. CASE b \in valid
      BY <1>6, <2>1, <2>2, <2>3, <3>1, <3>2 DEF CurrentOK
    <3>3. CASE b \notin valid
      <4>1. \A c \in valid : sector[c] # s
        BY <1>2, <2>3, <3>3, BcacheAssumption, SMTT(30) DEF Inv, Types, OneBuffer
      <4>2. b \notin dirty
        BY <3>3 DEF Inv, Flags
      <4>. QED  BY <2>1, <2>2, <2>3, <3>1, <4>1, <4>2 DEF CurrentOK
    <3>. QED  BY <3>2, <3>3
  <2>4. CASE sector[b] # s /\ \E c \in valid : sector[c] = s
    <3>1. PICK c \in valid : sector[c] = s
      BY <2>4
    <3>2. c # b /\ c \in Buf /\ c \in valid'
      BY <1>3, <2>4, <3>1 DEF Inv, Types
    <3>. QED  BY <1>3, <2>1, <2>2, <3>1, <3>2, SMTT(30) DEF CurrentOK
  <2>5. CASE sector[b] # s /\ \A c \in valid : sector[c] # s
    BY <1>3, <2>1, <2>5, SMTT(30) DEF CurrentOK
  <2>. QED  BY <2>3, <2>4, <2>5
<1>12. CASE b \in valid
  <2>1. Has(p) = want[p]
    BY <1>5, <1>12 DEF Has
  <2>. QED  BY <1>3, <1>9, <1>10, <1>11, <2>1, Invisible
<1>13. CASE b \notin valid
  <2>1. Has(p) = NoSector
    BY <1>5, <1>13 DEF Has
  <2>2. \A q \in Proc : Has(q) # want[p]
    BY <1>2, <1>7, <1>13, Free
  <2>3. Store!SRead(p, want[p])
    BY <1>3, <1>7, <1>9, <1>10, <1>11, <2>1, <2>2, Reads
  <2>. QED  BY <1>7, <2>3
<1>. QED  BY <1>12, <1>13

\* bwrite() and log_write() replace the contents of the sector the process has.
LEMMA ChangeRefines ==
  ASSUME Inv, Inv', NEW p \in Proc, NEW v \in Val, Bwrite(p, v) \/ Pin(p, v)
  PROVE  Store!SWrite(p, v) \/ UNCHANGED <<StoreNow, HasNow>>
<1>1. /\ pc[p] = "held" /\ data' = [data EXCEPT ![buf[p]] = v]
      /\ pc' = [pc EXCEPT ![p] = "iderw"] \/ pc' = pc
      /\ UNCHANGED <<sector, valid, disk, errors, want, buf>>
  BY DEF Bwrite, Pin, Goto, cache, drive
<1>2. /\ buf[p] \in Buf /\ buf[p] \in valid /\ sector[buf[p]] = want[p] /\ want[p] \in Sector
  BY <1>1, OwnerIs DEF Inv, ValidIsDisk, InHand
<1>3. Has(p) = want[p]
  BY <1>1 DEF Has
<1>4. \A q \in Proc : Has(q)' = Has(q)
  BY <1>1, <1>2 DEF Has, Inv, Types
<1>5. ASSUME NEW s \in Sector
      PROVE  Current(s)' = IF s = Has(p) THEN v ELSE Current(s)
  <2>1. CurrentOK /\ CurrentOK'
    BY CurrentIs, CurrentNext
  <2>2. data'[buf[p]] = v /\ \A c \in Buf : c # buf[p] => data'[c] = data[c]
    BY <1>1, <1>2 DEF Inv, Types
  <2>3. CASE s = want[p]
    BY <1>1, <1>2, <1>3, <2>1, <2>2, <2>3 DEF CurrentOK
  <2>4. CASE s # want[p] /\ \E c \in valid : sector[c] = s
    <3>1. PICK c \in valid : sector[c] = s
      BY <2>4
    <3>2. c \in Buf /\ c # buf[p]
      BY <1>2, <2>4, <3>1 DEF Inv, Types
    <3>. QED  BY <1>1, <1>3, <2>1, <2>2, <2>4, <3>1, <3>2, SMTT(30) DEF CurrentOK
  <2>5. CASE s # want[p] /\ \A c \in valid : sector[c] # s
    BY <1>1, <1>3, <2>1, <2>5, SMTT(30) DEF CurrentOK
  <2>. QED  BY <2>3, <2>4, <2>5
<1>. QED  BY <1>1, <1>2, <1>3, <1>4, <1>5, Writes

LEMMA BrelseRefines ==
  ASSUME Inv, NEW p \in Proc, Brelse(p)
  PROVE  Store!SRelease(p)
<1>1. /\ pc[p] = "held" /\ pc' = [Wakeup(pc, buf[p]) EXCEPT ![p] = "idle"]
      /\ buf' = [buf EXCEPT ![p] = NoBuf] /\ want' = [want EXCEPT ![p] = NoSector]
      /\ UNCHANGED <<sector, data, valid, dirty, disk, errors>>
  BY DEF Brelse, drive
<1>2. /\ want[p] \in Sector
      /\ \A q \in Proc : q # p /\ pc[q] \in InHand => buf[q] # buf[p]
  BY <1>1, OwnerIs DEF InHand
<1>3. Has(p) # NoSector
  BY <1>1, <1>2, BcacheAssumption DEF Has
<1>4. pc'[p] = "idle"
  BY <1>1 DEF Inv, Types, Wakeup
<1>5. Has(p)' = NoSector
  BY <1>4 DEF Has
<1>6. ASSUME NEW q \in Proc, q # p
      PROVE  Has(q)' = Has(q)
  <2>1. /\ buf'[q] = buf[q] /\ want'[q] = want[q]
        /\ pc'[q] = IF buf[q] = buf[p] /\ pc[q] = "bgetsleep" THEN "bget" ELSE pc[q]
    BY <1>1, <1>2, <1>6 DEF Inv, Types, Wakeup, InHand
  <2>. QED  BY <1>1, <2>1, SMTT(30) DEF Has
<1>7. \A s \in Sector : Current(s)' = Current(s)
  BY <1>1, SMTT(30) DEF Current, Cached
<1>. QED  BY <1>1, <1>3, <1>5, <1>6, <1>7, Releases

-----------------------------------------------------------------------------
LEMMA InitRefines ==
  ASSUME Init
  PROVE  Store!SInit
<1>1. Inv
  BY InitInv
<1>2. HasNow = [p \in Proc |-> NoSector]
  BY DEF HasNow, Has, Init
<1>3. \A s \in Sector : Current(s) = disk[s] /\ disk[s] \in Val
  BY <1>1, CurrentIs DEF CurrentOK, Init
<1>4. StoreNow \in [Sector -> Val]
  <2>1. CASE errors
    <3>1. ASSUME NEW s \in Sector PROVE (CHOOSE v \in Val : TRUE) \in Val
      BY <1>3
    <3>. QED  BY <2>1, <3>1 DEF StoreNow
  <2>2. CASE ~errors
    BY <1>3, <2>2 DEF StoreNow
  <2>. QED  BY <2>1, <2>2
<1>. QED  BY <1>2, <1>4 DEF Store!SInit, StoreNow, HasNow

LEMMA StepRefines ==
  ASSUME Inv, Inv', [Next]_vars
  PROVE  [Store!SNext]_(Store!svars)
<1>. DEFINE Goal == Store!SNext \/ UNCHANGED <<StoreNow, HasNow>>
<1>. SUFFICES Goal
  BY DEF Store!svars, StoreNow, HasNow
<1>1. ASSUME NEW p \in Proc, NEW s \in Sector, Bread(p, s) PROVE Goal
  BY <1>1, MoveRefines
<1>2. ASSUME NEW p \in Proc, Step(p) PROVE Goal
  BY <1>2, MoveRefines, BgetHitRefines, BgetRecycleRefines DEF Step, Store!SNext
<1>3. ASSUME NEW p \in Proc, NEW v \in Val, Bwrite(p, v) \/ Pin(p, v) PROVE Goal
  BY <1>3, ChangeRefines DEF Store!SNext
<1>4. ASSUME NEW p \in Proc, Brelse(p) PROVE Goal
  BY <1>4, BrelseRefines DEF Store!SNext
<1>5. CASE DriveDone
  BY <1>5, DriveDoneRefines
<1>6. CASE IdeIntr
  BY <1>6, IdeIntrRefines DEF Store!SNext
<1>7. CASE UNCHANGED vars
  <2>1. UNCHANGED <<sector, data, valid, dirty, disk, errors, pc, want, buf>>
    BY <1>7 DEF vars
  <2>2. \A s \in Sector : Current(s)' = Current(s)
    BY <2>1, SMTT(30) DEF Current, Cached
  <2>3. \A q \in Proc : Has(q)' = Has(q)
    BY <2>1 DEF Has
  <2>. QED  BY <2>1, <2>2, <2>3, Invisible
<1>. QED  BY <1>1, <1>2, <1>3, <1>4, <1>5, <1>6, <1>7 DEF Next, Panicked

\* The buffer cache and the disk driver together implement BlockStore, for any
\* processes, sectors, values and number of buffers: every sector has one current
\* contents, which bread() hands to one process at a time and only that process
\* changes; recycling, the request queue and the drive are invisible.
THEOREM BcacheImplementsStore == Spec => Implements
<1>1. Init => Store!SInit
  BY InitRefines
<1>2. Inv /\ Inv' /\ [Next]_vars => [Store!SNext]_(Store!svars)
  BY StepRefines
<1>. QED  BY <1>1, <1>2, BcacheInvariant, PTL DEF Spec, Implements, Store!SSpec
==============================================================================

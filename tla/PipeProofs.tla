----------------------------- MODULE PipeProofs ------------------------------
(***************************************************************************)
(* Proofs about Pipe, for any processes, bytes, ring size and counter      *)
(* width (a multiple of the ring size).                                    *)
(***************************************************************************)
EXTENDS Pipe, Rings

\* The prover of the leaves that name none.
USE ZenonT(30)

-----------------------------------------------------------------------------
(* The inductive invariant.                                                 *)

WriteSide == {"write", "writing", "writesleep"}
ReadSide == {"read", "reading", "readsleep"}

\* Who has decided to sleep still holds the lock.
LockHeld == \A p \in Proc : pc[p] \in {"writing", "reading"} => lock = p

\* A process inside pipewrite has the write end and bytes to write, one inside
\* piperead the read end and room for a byte.
InCall ==
  \A p \in Proc : /\ pc[p] \in WriteSide => p \in wfds /\ rest[p] # <<>>
                  /\ pc[p] \in ReadSide => p \in rfds /\ want[p] # 0

\* An end that somebody holds is open, and the pipe is freed when both are closed.
EndsOpen ==
  /\ rfds # {} => readopen
  /\ wfds # {} => writeopen
  /\ freed => ~readopen /\ ~writeopen

\* SleepersHaveReason, from the decision to sleep on.
Reasons ==
  \A p \in Proc :
    /\ pc[p] \in {"reading", "readsleep"} => Empty \/ killed # {}
    /\ pc[p] \in {"writing", "writesleep"} => Room = 0 /\ readopen

Inv == TypeOK /\ LockHeld /\ InCall /\ EndsOpen /\ Reasons

-----------------------------------------------------------------------------
(* What pipewrite puts in and piperead takes out.                           *)

\* The smaller of two numbers.
LEMMA MinOfTwo ==
  ASSUME NEW m \in Int, NEW n \in Int
  PROVE  Min({m, n}) = IF m <= n THEN m ELSE n
  BY SMTT(30) DEF Min

\* A string written is a sequence of 1 to MaxWrite bytes.
LEMMA StringsAre ==
  ASSUME NEW s \in Strings
  PROVE  s \in Seq(Byte) /\ Len(s) \in 1 .. MaxWrite /\ s # <<>>
<1>1. PICK n \in 1 .. MaxWrite : s \in [1 .. n -> Byte]
  BY DEF Strings
<1>2. n \in Nat \ {0} /\ MaxWrite \in Nat
  BY PipeAssumption, SMTT(30)
<1>3. s \in Seq(Byte) /\ Len(s) = n
  BY <1>1, <1>2, SMTT(30)
<1>. QED  BY <1>2, <1>3

\* What is left of a string after its first k bytes is one.
LEMMA StringsRest ==
  ASSUME NEW s \in Strings, NEW k \in Nat, k < Len(s)
  PROVE  SubSeq(s, k + 1, Len(s)) \in Strings
<1>. DEFINE t == SubSeq(s, k + 1, Len(s))
            n == Len(s) - k
<1>1. s \in Seq(Byte) /\ Len(s) \in 1 .. MaxWrite /\ MaxWrite \in Nat
  BY StringsAre, PipeAssumption
<1>2. n \in 1 .. MaxWrite
  BY <1>1, SMTT(30)
<1>3. t \in Seq(Byte) /\ Len(t) = n
  BY <1>1, <1>2, SMTT(30)
<1>. HIDE DEF t, n
<1>4. t \in [1 .. n -> Byte]
  BY <1>3, SMTT(30)
<1>5. t \in Strings
  BY <1>2, <1>4 DEF Strings
<1>. QED  BY <1>5 DEF t

\* The ring holds between 0 and PIPESIZE bytes.
LEMMA UsedRange ==
  ASSUME TypeOK
  PROVE  /\ WORD \in Nat \ {0} /\ PIPESIZE \in Nat \ {0} /\ PIPESIZE < WORD
         /\ Used \in 0 .. PIPESIZE /\ Room \in 0 .. PIPESIZE /\ Room = PIPESIZE - Used
         /\ nread \in 0 .. WORD - 1 /\ nwrite \in 0 .. WORD - 1
<1>1. WORD \in Nat \ {0} /\ PIPESIZE \in Nat \ {0} /\ PIPESIZE < WORD
  BY PipeAssumption, SMTT(30)
<1>2. nread \in 0 .. WORD - 1 /\ nwrite \in 0 .. WORD - 1 /\ Used <= PIPESIZE
  BY DEF TypeOK
<1>3. nwrite - nread \in Int
  BY <1>1, <1>2, SMTT(30)
<1>4. Used \in 0 .. WORD - 1
  BY <1>1, <1>3, DivMod DEF Used
<1>. QED  BY <1>1, <1>2, <1>4, SMTT(30) DEF Room

\* The number of bytes that fit.
LEMMA FitsIs ==
  ASSUME TypeOK, NEW p \in Proc, rest[p] # <<>>
  PROVE  /\ rest[p] \in Strings
         /\ Fits(p) \in 0 .. Room
         /\ Fits(p) <= Len(rest[p])
         /\ Fits(p) = Len(rest[p]) \/ Fits(p) = Room
<1>1. rest[p] \in Strings
  BY DEF TypeOK
<1>2. Len(rest[p]) \in Nat \ {0} /\ Room \in Nat
  BY <1>1, StringsAre, UsedRange, PipeAssumption, SMTT(30)
<1>3. Fits(p) = IF Room <= Len(rest[p]) THEN Room ELSE Len(rest[p])
  BY <1>2, MinOfTwo, SMTT(30) DEF Fits
<1>. QED  BY <1>1, <1>2, <1>3, SMTT(30)

\* Filling keeps the types and makes room smaller by what was put in.
LEMMA FillKeeps ==
  ASSUME TypeOK, NEW p \in Proc, rest[p] # <<>>, Fill(p)
  PROVE  /\ data' \in [0 .. PIPESIZE - 1 -> Byte]
         /\ nwrite' \in 0 .. WORD - 1 /\ nread' = nread
         /\ Used' = Used + Fits(p) /\ Room' = Room - Fits(p)
         /\ readopen' = readopen /\ writeopen' = writeopen /\ freed' = freed
<1>. DEFINE k == Fits(p)
<1>1. k \in 0 .. Room /\ k <= Len(rest[p]) /\ rest[p] \in Seq(Byte)
  BY FitsIs, StringsAre
<1>2. k \in 0 .. WORD - 1 /\ Used + k < WORD
  BY <1>1, UsedRange, SMTT(30)
<1>3. (nwrite + k) % WORD \in 0 .. WORD - 1 /\ (((nwrite + k) % WORD) - nread) % WORD = ((nwrite - nread) % WORD) + k
  BY <1>2, UsedRange, Widens DEF Used
<1>4. nwrite' = (nwrite + k) % WORD /\ nread' = nread
  BY DEF Fill
<1>5. Used' = Used + k
  BY <1>3, <1>4 DEF Used
<1>6. \A j \in 1 .. k : rest[p][j] \in Byte
  BY <1>1, UsedRange, SMTT(30)
<1>7. data' \in [0 .. PIPESIZE - 1 -> Byte]
  <2>1. data \in [0 .. PIPESIZE - 1 -> Byte]
    BY DEF TypeOK
  <2>. DEFINE Q(i, j) == (nwrite + j - 1) % PIPESIZE = i
              Put(i) == IF \E j \in 1 .. k : Q(i, j) THEN rest[p][CHOOSE j \in 1 .. k : Q(i, j)] ELSE data[i]
  <2>2. data' = [i \in DOMAIN data |-> Put(i)]
    BY DEF Fill
  <2>3. ASSUME NEW i \in 0 .. PIPESIZE - 1 PROVE Put(i) \in Byte
    <3>. HIDE DEF Q
    <3>1. CASE \E j \in 1 .. k : Q(i, j)
      BY <3>1, <1>6
    <3>2. CASE ~ \E j \in 1 .. k : Q(i, j)
      BY <3>2, <2>1
    <3>. QED  BY <3>1, <3>2
  <2>. QED  BY <2>1, <2>2, <2>3
<1>8. readopen' = readopen /\ writeopen' = writeopen /\ freed' = freed
  BY DEF Fill
<1>9. Room' = Room - k
  BY <1>1, <1>5, UsedRange, SMTT(30) DEF Room
<1>. QED  BY <1>3, <1>4, <1>5, <1>7, <1>8, <1>9

\* Reading keeps the types and makes room by what was taken out.
LEMMA ReadKeeps ==
  ASSUME TypeOK, NEW p \in Proc, want[p] # 0, ReadSome(p)
  PROVE  /\ nread' \in 0 .. WORD - 1
         /\ Used' = Used - Min({want[p], Used})
         /\ Min({want[p], Used}) \in 0 .. Used /\ (Used # 0 => Min({want[p], Used}) # 0)
         /\ out' \in [Proc -> Seq(Byte)]
<1>. DEFINE k == Min({want[p], Used})
<1>1. want[p] \in 1 .. MaxRead /\ MaxRead \in Nat /\ Used \in Nat
  BY UsedRange, PipeAssumption, SMTT(30) DEF TypeOK
<1>2. k = IF want[p] <= Used THEN want[p] ELSE Used
  BY <1>1, MinOfTwo, SMTT(30)
<1>3. k \in 0 .. Used /\ (Used # 0 => k # 0)
  BY <1>1, <1>2, SMTT(30)
<1>. HIDE DEF k
<1>4. nread' = (nread + k) % WORD /\ nwrite' = nwrite
  BY DEF ReadSome, k
<1>5. (nread + k) % WORD \in 0 .. WORD - 1 /\ (nwrite - ((nread + k) % WORD)) % WORD = ((nwrite - nread) % WORD) - k
  <2>1. k \in 0 .. (nwrite - nread) % WORD
    BY <1>3 DEF Used
  <2>. QED  BY <2>1, UsedRange, Narrows, SMTT(30)
<1>6. Used' = Used - k
  BY <1>4, <1>5 DEF Used
<1>. DEFINE Got(i) == data[(nread + i - 1) % PIPESIZE]
            o == [i \in 1 .. k |-> Got(i)]
<1>7. o \in Seq(Byte)
  <2>1. ASSUME NEW i \in 1 .. k PROVE Got(i) \in Byte
    <3>1. nread + i - 1 \in Int /\ PIPESIZE \in Nat \ {0}
      BY <1>3, <1>1, UsedRange, SMTT(30)
    <3>2. (nread + i - 1) % PIPESIZE \in 0 .. PIPESIZE - 1
      BY <3>1, DivMod
    <3>. QED  BY <3>2 DEF TypeOK
  <2>. HIDE DEF Got
  <2>2. k \in Nat
    BY <1>1, <1>3, SMTT(30)
  <2>. QED  BY <2>1, <2>2, SMTT(30)
<1>8. out' = [out EXCEPT ![p] = o]
  BY DEF ReadSome, k
<1>9. out' \in [Proc -> Seq(Byte)]
  <2>. HIDE DEF o
  <2>. QED  BY <1>7, <1>8 DEF TypeOK
<1>. QED  BY <1>3, <1>4, <1>5, <1>6, <1>9 DEF k

-----------------------------------------------------------------------------
(* The invariant is inductive: one lemma for each kind of step.             *)

LEMMA InitInv ==
  ASSUME Init
  PROVE  Inv
<1>1. Used = 0
  <2>1. WORD \in Nat \ {0} /\ nwrite = 0 /\ nread = 0
    BY PipeAssumption, SMTT(30) DEF Init
  <2>2. 0 % WORD = 0
    BY <2>1, Z3
  <2>. QED  BY <2>1, <2>2, SMTT(30) DEF Used
<1>2. <<>> \in Seq(Byte)
  BY SMTT(30)
<1>3. 0 \in 0 .. WORD - 1 /\ 0 \in 0 .. MaxRead /\ 0 <= PIPESIZE
  BY PipeAssumption, SMTT(30)
<1>4. /\ data \in [0 .. PIPESIZE - 1 -> Byte]
      /\ nread \in 0 .. WORD - 1 /\ nwrite \in 0 .. WORD - 1 /\ Used <= PIPESIZE
      /\ want \in [Proc -> 0 .. MaxRead] /\ out \in [Proc -> Seq(Byte)]
  BY <1>1, <1>2, <1>3 DEF Init
<1>5. TypeOK
  BY <1>4, PipeAssumption DEF Init, TypeOK
<1>. QED  BY <1>5 DEF Init, Inv, LockHeld, InCall, EndsOpen, Reasons, WriteSide, ReadSide

\* A step that moves no byte keeps what is in the ring.
LEMMA RingStable ==
  ASSUME UNCHANGED <<nread, nwrite>>
  PROVE  Used' = Used /\ Room' = Room
  BY DEF Used, Room

LEMMA WriteInv ==
  ASSUME Inv, NEW p \in Proc, NEW s \in Strings, Write(p, s)
  PROVE  Inv'
<1>1. Used' = Used /\ Room' = Room
  BY RingStable DEF Write, pipe
<1>2. TypeOK'
  BY <1>1 DEF Inv, TypeOK, Write, pipe
<1>3. InCall'
  BY StringsAre DEF Inv, TypeOK, InCall, Write, WriteSide, ReadSide
<1>4. LockHeld' /\ EndsOpen'
  BY DEF Inv, TypeOK, LockHeld, EndsOpen, Write, pipe
<1>5. Reasons'
  BY <1>1 DEF Inv, TypeOK, Reasons, Empty, Write, pipe
<1>. QED  BY <1>2, <1>3, <1>4, <1>5 DEF Inv

LEMMA ReadInv ==
  ASSUME Inv, NEW p \in Proc, NEW n \in 1 .. MaxRead, Read(p, n)
  PROVE  Inv'
<1>1. Used' = Used /\ Room' = Room
  BY RingStable DEF Read, pipe
<1>2. TypeOK'
  BY <1>1, PipeAssumption, SMTT(30) DEF Inv, TypeOK, Read, pipe
<1>3. InCall'
  BY PipeAssumption, SMTT(30) DEF Inv, TypeOK, InCall, Read, WriteSide, ReadSide
<1>4. LockHeld' /\ EndsOpen'
  BY DEF Inv, TypeOK, LockHeld, EndsOpen, Read, pipe
<1>5. Reasons'
  BY <1>1 DEF Inv, TypeOK, Reasons, Empty, Read, pipe
<1>. QED  BY <1>2, <1>3, <1>4, <1>5 DEF Inv

\* A write that needs room finds no writer asleep, and wakes every reader.
LEMMA WriteAllInv ==
  ASSUME Inv, NEW p \in Proc, WriteAll(p)
  PROVE  Inv'
<1>0. TypeOK /\ pc[p] = "write" /\ lock = NoProc /\ rest[p] # <<>> /\ Fill(p)
  BY DEF Inv, InCall, WriteAll, WriteSide
<1>1. /\ data' \in [0 .. PIPESIZE - 1 -> Byte] /\ nwrite' \in 0 .. WORD - 1 /\ nread' = nread
      /\ Used' = Used + Fits(p) /\ Room' = Room - Fits(p)
      /\ readopen' = readopen /\ writeopen' = writeopen /\ freed' = freed
  BY <1>0, FillKeeps
<1>2. rest[p] \in Strings /\ Fits(p) \in 0 .. Room /\ Used \in 0 .. PIPESIZE
      /\ Room = PIPESIZE - Used /\ PIPESIZE \in Nat
  BY <1>0, FitsIs, UsedRange
<1>3. Len(rest[p]) # 0
  BY <1>2, StringsAre, PipeAssumption, SMTT(30)
<1>4. Room # 0
  BY <1>2, <1>3, SMTT(30) DEF WriteAll
<1>5. Used' <= PIPESIZE
  BY <1>1, <1>2, SMTT(30)
<1>6. TypeOK'
  BY <1>0, <1>1, <1>5 DEF TypeOK, WriteAll, WakeReaders
<1>7. InCall'
  BY <1>0 DEF Inv, TypeOK, InCall, WriteAll, WakeReaders, WriteSide, ReadSide
<1>8. LockHeld' /\ EndsOpen'
  BY <1>0, <1>1 DEF Inv, TypeOK, LockHeld, EndsOpen, WriteAll, WakeReaders
<1>9. Reasons'
  <2>1. \A r \in Proc : pc[r] \notin {"writing", "reading"}
    BY <1>0, PipeAssumption DEF Inv, LockHeld
  <2>2. \A r \in Proc : pc'[r] \notin {"reading", "readsleep", "writing", "writesleep"}
    BY <1>0, <1>4, <2>1 DEF Inv, TypeOK, Reasons, WriteAll, WakeReaders
  <2>. QED  BY <2>2 DEF Reasons
<1>. QED  BY <1>6, <1>7, <1>8, <1>9 DEF Inv

\* A write that fails has filled the ring and wakes nobody: the readers are gone,
\* or somebody has been killed.
LEMMA WriteFailsInv ==
  ASSUME Inv, NEW p \in Proc, WriteFails(p)
  PROVE  Inv'
<1>0. TypeOK /\ pc[p] = "write" /\ lock = NoProc /\ rest[p] # <<>> /\ Fill(p)
  BY DEF Inv, InCall, WriteFails, WriteSide
<1>1. /\ data' \in [0 .. PIPESIZE - 1 -> Byte] /\ nwrite' \in 0 .. WORD - 1 /\ nread' = nread
      /\ Used' = Used + Fits(p) /\ Room' = Room - Fits(p)
      /\ readopen' = readopen /\ writeopen' = writeopen /\ freed' = freed
  BY <1>0, FillKeeps
<1>2. rest[p] \in Strings /\ Fits(p) \in 0 .. Room /\ Used \in 0 .. PIPESIZE
      /\ Room = PIPESIZE - Used /\ PIPESIZE \in Nat
      /\ (Fits(p) = Len(rest[p]) \/ Fits(p) = Room)
  BY <1>0, FitsIs, UsedRange
<1>3. Len(rest[p]) \in Nat
  BY <1>2, StringsAre, PipeAssumption, SMTT(30)
<1>4. Fits(p) = Room /\ Room' = 0
  BY <1>1, <1>2, <1>3, SMTT(30) DEF WriteFails
<1>5. Used' <= PIPESIZE
  BY <1>1, <1>2, SMTT(30)
<1>6. TypeOK'
  BY <1>0, <1>1, <1>5 DEF TypeOK, WriteFails
<1>7. InCall'
  BY <1>0 DEF Inv, TypeOK, InCall, WriteFails, WriteSide, ReadSide
<1>8. LockHeld' /\ EndsOpen'
  BY <1>0, <1>1 DEF Inv, TypeOK, LockHeld, EndsOpen, WriteFails
<1>9. Reasons'
  <2>1. ASSUME NEW r \in Proc, pc'[r] \in {"reading", "readsleep"}
        PROVE  killed' # {}
    <3>1. r \in rfds
      BY <1>0, <2>1 DEF Inv, TypeOK, InCall, ReadSide, WriteFails
    <3>2. readopen
      BY <3>1 DEF Inv, EndsOpen
    <3>. QED  BY <3>2 DEF WriteFails
  <2>2. ASSUME NEW r \in Proc, pc'[r] \in {"writing", "writesleep"}
        PROVE  Room' = 0 /\ readopen'
    BY <1>0, <1>1, <1>4, <2>2 DEF Inv, TypeOK, Reasons, WriteFails
  <2>. QED  BY <2>1, <2>2 DEF Reasons
<1>. QED  BY <1>6, <1>7, <1>8, <1>9 DEF Inv

\* A writer that goes to sleep has filled the ring and woken every reader.
LEMMA WriteFullInv ==
  ASSUME Inv, NEW p \in Proc, WriteFull(p)
  PROVE  Inv'
<1>0. TypeOK /\ pc[p] = "write" /\ lock = NoProc /\ rest[p] # <<>> /\ Fill(p) /\ readopen
  BY DEF Inv, InCall, WriteFull, WriteSide
<1>1. /\ data' \in [0 .. PIPESIZE - 1 -> Byte] /\ nwrite' \in 0 .. WORD - 1 /\ nread' = nread
      /\ Used' = Used + Fits(p) /\ Room' = Room - Fits(p)
      /\ readopen' = readopen /\ writeopen' = writeopen /\ freed' = freed
  BY <1>0, FillKeeps
<1>2. rest[p] \in Strings /\ Fits(p) \in 0 .. Room /\ Used \in 0 .. PIPESIZE
      /\ Room = PIPESIZE - Used /\ PIPESIZE \in Nat
      /\ (Fits(p) = Len(rest[p]) \/ Fits(p) = Room)
  BY <1>0, FitsIs, UsedRange
<1>3. Len(rest[p]) \in Nat /\ Fits(p) \in Nat /\ Fits(p) < Len(rest[p])
  BY <1>2, StringsAre, PipeAssumption, SMTT(30) DEF WriteFull
<1>4. Fits(p) = Room /\ Room' = 0
  BY <1>1, <1>2, <1>3, SMTT(30)
<1>5. Used' <= PIPESIZE
  BY <1>1, <1>2, SMTT(30)
<1>. DEFINE left == SubSeq(rest[p], Fits(p) + 1, Len(rest[p]))
<1>a. left \in Strings
  BY <1>2, <1>3, StringsRest
<1>b. left # <<>>
  BY <1>a, StringsAre
<1>. HIDE DEF left
<1>c. rest' = [rest EXCEPT ![p] = left]
  BY DEF WriteFull, left
<1>6. TypeOK'
  BY <1>0, <1>1, <1>5, <1>a, <1>c DEF TypeOK, WriteFull, WakeReaders
<1>7. InCall'
  BY <1>0, <1>b, <1>c DEF Inv, TypeOK, InCall, WriteFull, WakeReaders, WriteSide, ReadSide
<1>d. \A r \in Proc : pc[r] \notin {"writing", "reading"}
  BY <1>0, PipeAssumption DEF Inv, LockHeld
<1>8. LockHeld' /\ EndsOpen'
  BY <1>0, <1>1, <1>d DEF Inv, TypeOK, LockHeld, EndsOpen, WriteFull, WakeReaders
<1>9. Reasons'
  <2>1. \A r \in Proc : pc'[r] \notin {"reading", "readsleep"}
    BY <1>0, <1>d DEF Inv, TypeOK, WriteFull, WakeReaders
  <2>. QED  BY <1>0, <1>1, <1>4, <2>1 DEF Reasons
<1>. QED  BY <1>6, <1>7, <1>8, <1>9 DEF Inv

\* A writer goes to sleep, and gives up the lock, with the reason it found.
LEMMA WriteSleepInv ==
  ASSUME Inv, NEW p \in Proc, WriteSleep(p)
  PROVE  Inv'
<1>1. Used' = Used /\ Room' = Room
  BY RingStable DEF WriteSleep, pipe
<1>2. TypeOK'
  BY <1>1 DEF Inv, TypeOK, WriteSleep, pipe
<1>3. InCall' /\ EndsOpen'
  BY DEF Inv, TypeOK, InCall, EndsOpen, WriteSleep, WriteSide, ReadSide, pipe
<1>4. LockHeld'
  BY DEF Inv, TypeOK, LockHeld, WriteSleep
<1>5. Reasons'
  BY <1>1 DEF Inv, TypeOK, Reasons, Empty, WriteSleep, pipe
<1>. QED  BY <1>2, <1>3, <1>4, <1>5 DEF Inv

\* A read wakes every writer, and the readers asleep found the ring empty as well.
LEMMA ReadSomeInv ==
  ASSUME Inv, NEW p \in Proc, ReadSome(p)
  PROVE  Inv'
<1>0. TypeOK /\ pc[p] = "read" /\ lock = NoProc /\ want[p] # 0 /\ ~Empty
  BY DEF Inv, InCall, ReadSome, ReadSide
<1>. DEFINE k == Min({want[p], Used})
<1>1. /\ nread' \in 0 .. WORD - 1 /\ Used' = Used - k /\ k \in 0 .. Used
      /\ out' \in [Proc -> Seq(Byte)]
  BY <1>0, ReadKeeps
<1>. HIDE DEF k
<1>2. Used \in 0 .. PIPESIZE /\ PIPESIZE \in Nat
  BY <1>0, UsedRange
<1>3. Used' <= PIPESIZE
  BY <1>1, <1>2, SMTT(30)
<1>4. TypeOK'
  <2>1. 0 \in 0 .. MaxRead
    BY PipeAssumption, SMTT(30)
  <2>. QED  BY <1>0, <1>1, <1>3, <2>1 DEF TypeOK, ReadSome, WakeWriters
<1>5. InCall' /\ EndsOpen'
  BY <1>0 DEF Inv, TypeOK, InCall, EndsOpen, ReadSome, WakeWriters, WriteSide, ReadSide
<1>6. \A r \in Proc : pc[r] \notin {"writing", "reading"}
  BY <1>0, PipeAssumption DEF Inv, LockHeld
<1>7. LockHeld'
  BY <1>0, <1>6 DEF Inv, TypeOK, LockHeld, ReadSome, WakeWriters
<1>8. Reasons'
  <2>1. \A r \in Proc : pc'[r] \notin {"writing", "writesleep"}
    BY <1>0, <1>6 DEF TypeOK, ReadSome, WakeWriters
  <2>2. ASSUME NEW r \in Proc, pc'[r] \in {"reading", "readsleep"}
        PROVE  killed' # {}
    BY <1>0, <1>6, <2>2 DEF Inv, TypeOK, Reasons, ReadSome, WakeWriters
  <2>. QED  BY <2>1, <2>2 DEF Reasons
<1>. QED  BY <1>4, <1>5, <1>7, <1>8 DEF Inv

LEMMA ReadFailsInv ==
  ASSUME Inv, NEW p \in Proc, ReadFails(p)
  PROVE  Inv'
<1>1. Used' = Used /\ Room' = Room
  BY RingStable DEF ReadFails, pipe
<1>2. TypeOK'
  BY <1>1, PipeAssumption, SMTT(30) DEF Inv, TypeOK, ReadFails, pipe
<1>3. InCall' /\ EndsOpen' /\ LockHeld'
  BY DEF Inv, TypeOK, InCall, EndsOpen, LockHeld, ReadFails, WriteSide, ReadSide, pipe
<1>4. Reasons'
  BY <1>1 DEF Inv, TypeOK, Reasons, Empty, ReadFails, pipe
<1>. QED  BY <1>2, <1>3, <1>4 DEF Inv

LEMMA ReadEmptyInv ==
  ASSUME Inv, NEW p \in Proc, ReadEmpty(p)
  PROVE  Inv'
<1>1. Used' = Used /\ Room' = Room
  BY RingStable DEF ReadEmpty, pipe
<1>2. TypeOK'
  BY <1>1 DEF Inv, TypeOK, ReadEmpty, pipe
<1>3. InCall' /\ EndsOpen'
  BY DEF Inv, TypeOK, InCall, EndsOpen, ReadEmpty, WriteSide, ReadSide, pipe
<1>4. LockHeld'
  BY PipeAssumption DEF Inv, TypeOK, LockHeld, ReadEmpty
<1>5. Reasons'
  BY <1>1 DEF Inv, TypeOK, Reasons, Empty, ReadEmpty, pipe
<1>. QED  BY <1>2, <1>3, <1>4, <1>5 DEF Inv

LEMMA ReadSleepInv ==
  ASSUME Inv, NEW p \in Proc, ReadSleep(p)
  PROVE  Inv'
<1>1. Used' = Used /\ Room' = Room
  BY RingStable DEF ReadSleep, pipe
<1>2. TypeOK'
  BY <1>1 DEF Inv, TypeOK, ReadSleep, pipe
<1>3. InCall' /\ EndsOpen'
  BY DEF Inv, TypeOK, InCall, EndsOpen, ReadSleep, WriteSide, ReadSide, pipe
<1>4. LockHeld'
  BY DEF Inv, TypeOK, LockHeld, ReadSleep
<1>5. Reasons'
  BY <1>1 DEF Inv, TypeOK, Reasons, Empty, ReadSleep, pipe
<1>. QED  BY <1>2, <1>3, <1>4, <1>5 DEF Inv

\* The last close of the write end wakes the readers, which then find the end of
\* the file; before it the write end stays open.
LEMMA CloseWriteInv ==
  ASSUME Inv, NEW p \in Proc, CloseWrite(p)
  PROVE  Inv'
<1>1. Used' = Used /\ Room' = Room
  BY RingStable DEF CloseWrite
<1>2. TypeOK'
  BY <1>1 DEF Inv, TypeOK, CloseWrite, WakeReaders
<1>3. InCall'
  BY DEF Inv, TypeOK, InCall, CloseWrite, WakeReaders, WriteSide, ReadSide
<1>4. EndsOpen'
  BY DEF Inv, TypeOK, EndsOpen, CloseWrite
<1>5. LockHeld'
  BY DEF Inv, TypeOK, LockHeld, CloseWrite, WakeReaders
<1>6. Reasons'
  <2>1. \A r \in Proc : pc[r] \notin {"writing", "reading"}
    BY PipeAssumption DEF Inv, LockHeld, CloseWrite
  <2>2. CASE wfds' = {}
    <3>1. \A r \in Proc : pc'[r] \notin {"reading", "readsleep"}
      BY <2>1, <2>2 DEF Inv, TypeOK, CloseWrite, WakeReaders
    <3>2. \A r \in Proc : pc'[r] \in {"writing", "writesleep"} => pc[r] = pc'[r]
      BY <2>1, <2>2 DEF Inv, TypeOK, CloseWrite, WakeReaders
    <3>. QED  BY <1>1, <3>1, <3>2 DEF Inv, Reasons, CloseWrite
  <2>3. CASE wfds' # {}
    <3>1. pc' = pc /\ writeopen' /\ UNCHANGED <<nread, nwrite, readopen, killed>>
      BY <2>3 DEF CloseWrite
    <3>. QED  BY <1>1, <3>1 DEF Inv, Reasons, Empty
  <2>. QED  BY <2>2, <2>3
<1>. QED  BY <1>2, <1>3, <1>4, <1>5, <1>6 DEF Inv

\* The last close of the read end wakes the writers, which then fail.
LEMMA CloseReadInv ==
  ASSUME Inv, NEW p \in Proc, CloseRead(p)
  PROVE  Inv'
<1>1. Used' = Used /\ Room' = Room
  BY RingStable DEF CloseRead
<1>2. TypeOK'
  BY <1>1 DEF Inv, TypeOK, CloseRead, WakeWriters
<1>3. InCall'
  BY DEF Inv, TypeOK, InCall, CloseRead, WakeWriters, WriteSide, ReadSide
<1>4. EndsOpen'
  BY DEF Inv, TypeOK, EndsOpen, CloseRead
<1>5. LockHeld'
  BY DEF Inv, TypeOK, LockHeld, CloseRead, WakeWriters
<1>6. Reasons'
  <2>1. \A r \in Proc : pc[r] \notin {"writing", "reading"}
    BY PipeAssumption DEF Inv, LockHeld, CloseRead
  <2>2. CASE rfds' = {}
    <3>1. \A r \in Proc : pc'[r] \notin {"writing", "writesleep"}
      BY <2>1, <2>2 DEF Inv, TypeOK, CloseRead, WakeWriters
    <3>2. \A r \in Proc : pc'[r] \in {"reading", "readsleep"} => pc[r] = pc'[r]
      BY <2>1, <2>2 DEF Inv, TypeOK, CloseRead, WakeWriters
    <3>. QED  BY <1>1, <3>1, <3>2 DEF Inv, Reasons, Empty, CloseRead
  <2>3. CASE rfds' # {}
    <3>1. pc' = pc /\ readopen' /\ UNCHANGED <<nread, nwrite, writeopen, killed>>
      BY <2>3 DEF CloseRead
    <3>. QED  BY <1>1, <3>1 DEF Inv, Reasons, Empty
  <2>. QED  BY <2>2, <2>3
<1>. QED  BY <1>2, <1>3, <1>4, <1>5, <1>6 DEF Inv

LEMMA KillInv ==
  ASSUME Inv, NEW p \in Proc, Kill(p)
  PROVE  Inv'
<1>1. Used' = Used /\ Room' = Room
  BY RingStable DEF Kill, pipe
<1>2. TypeOK'
  BY <1>1, PipeAssumption DEF Inv, TypeOK, Kill, pipe
<1>3. InCall'
  BY DEF Inv, TypeOK, InCall, Kill, WriteSide, ReadSide
<1>4. EndsOpen' /\ LockHeld'
  BY DEF Inv, TypeOK, EndsOpen, LockHeld, Kill, pipe
<1>5. Reasons'
  BY <1>1 DEF Inv, TypeOK, Reasons, Kill, pipe
<1>. QED  BY <1>2, <1>3, <1>4, <1>5 DEF Inv

LEMMA StutterInv ==
  ASSUME Inv, UNCHANGED vars
  PROVE  Inv'
<1>1. Used' = Used /\ Room' = Room
  BY RingStable DEF vars
<1>. QED  BY <1>1 DEF Inv, TypeOK, LockHeld, InCall, EndsOpen, Reasons, Empty, vars, WriteSide, ReadSide

LEMMA NextInv ==
  ASSUME Inv, [Next]_vars
  PROVE  Inv'
<1>1. ASSUME NEW p \in Proc, NEW s \in Strings, Write(p, s) PROVE Inv'
  BY <1>1, WriteInv
<1>2. ASSUME NEW p \in Proc, NEW n \in 1 .. MaxRead, Read(p, n) PROVE Inv'
  BY <1>2, ReadInv
<1>3. ASSUME NEW p \in Proc, Step(p) PROVE Inv'
  BY <1>3, WriteAllInv, WriteFailsInv, WriteFullInv, WriteSleepInv, ReadSomeInv,
     ReadFailsInv, ReadEmptyInv, ReadSleepInv DEF Step
<1>4. ASSUME NEW p \in Proc, CloseWrite(p) \/ CloseRead(p) \/ Kill(p) PROVE Inv'
  BY <1>4, CloseWriteInv, CloseReadInv, KillInv
<1>5. CASE UNCHANGED vars
  BY <1>5, StutterInv
<1>. QED  BY <1>1, <1>2, <1>3, <1>4, <1>5 DEF Next

\* The invariant holds throughout.
THEOREM PipeInvariant == Spec => []Inv
<1>1. Init => Inv
  BY InitInv
<1>2. Inv /\ [Next]_vars => Inv'
  BY NextInv
<1>. QED  BY <1>1, <1>2, PTL DEF Spec

\* Whoever sleeps in pipewrite() or piperead() has a reason to, and the pipe is not
\* freed under anybody: for any number of readers and writers, any ring size.
THEOREM PipeIsSound == Spec => []PipeSound
<1>1. Inv => PipeSound
  <2>. SUFFICES ASSUME Inv PROVE PipeSound
    OBVIOUS
  <2>1. TypeOK /\ SleepersHaveReason
    BY DEF Inv, Reasons, SleepersHaveReason
  <2>2. NoUseAfterFree
    BY DEF Inv, TypeOK, InCall, EndsOpen, NoUseAfterFree, WriteSide, ReadSide
  <2>. QED  BY <2>1, <2>2 DEF PipeSound
<1>. QED  BY <1>1, PipeInvariant, PTL

-----------------------------------------------------------------------------
(* The ring buffer implements ByteFifo: the proof that Spec => Implements,   *)
(* from the invariant.                                                       *)

\* What is in the ring, in the order in which it will be read.
Queue == [i \in 1 .. Used |-> data[(nread + i - 1) % PIPESIZE]]

-----------------------------------------------------------------------------
(* Counters below WORD index the ring as if they did not wrap around,       *)
(* because WORD is a multiple of PIPESIZE.                                  *)

LEMMA WordIs == WORD \in Nat \ {0} /\ PIPESIZE \in Nat \ {0} /\ WORD % PIPESIZE = 0
  BY PipeAssumption, SMTT(30)

\* Dropping WORD changes no index.
LEMMA DropWord ==
  ASSUME NEW x \in Int
  PROVE  (x + WORD) % PIPESIZE = x % PIPESIZE
  BY WordIs, DropWhole

\* A counter that was advanced by k indexes the ring k further on.
LEMMA Advanced ==
  ASSUME NEW a \in 0 .. WORD - 1, NEW k \in 0 .. WORD - 1, NEW c \in Int
  PROVE  (((a + k) % WORD) + c) % PIPESIZE = (a + k + c) % PIPESIZE
<1>1. (a + k) % WORD = IF a + k < WORD THEN a + k ELSE a + k - WORD
  BY WordIs, Sum
<1>2. CASE a + k < WORD
  BY <1>1, <1>2
<1>3. CASE a + k >= WORD
  <2>1. a + k - WORD + c \in Int /\ (a + k - WORD + c) + WORD = a + k + c
    BY WordIs, SMTT(30)
  <2>2. ((a + k - WORD + c) + WORD) % PIPESIZE = (a + k - WORD + c) % PIPESIZE
    BY <2>1, DropWord
  <2>3. ((a + k) % WORD) + c = a + k - WORD + c
    BY <1>1, <1>3, WordIs, SMTT(30)
  <2>. QED  BY <2>1, <2>2, <2>3
<1>. QED  BY <1>2, <1>3, WordIs, SMTT(30)

\* nwrite is Used places after nread in the ring.
LEMMA WriteIndex ==
  ASSUME TypeOK, NEW c \in Int
  PROVE  (nwrite + c) % PIPESIZE = (nread + Used + c) % PIPESIZE
<1>1. nread \in 0 .. WORD - 1 /\ nwrite \in 0 .. WORD - 1 /\ WORD \in Nat \ {0}
  BY UsedRange
<1>2. Used = IF nwrite >= nread THEN nwrite - nread ELSE nwrite - nread + WORD
  BY <1>1, Distance DEF Used
<1>3. CASE nwrite >= nread
  BY <1>1, <1>2, <1>3, SMTT(30)
<1>4. CASE nwrite < nread
  <2>1. nwrite + c \in Int /\ nread + Used + c = (nwrite + c) + WORD
    BY <1>1, <1>2, <1>4, SMTT(30)
  <2>2. ((nwrite + c) + WORD) % PIPESIZE = (nwrite + c) % PIPESIZE
    BY <2>1, DropWord
  <2>. QED  BY <2>1, <2>2
<1>. QED  BY <1>1, <1>3, <1>4, SMTT(30)

-----------------------------------------------------------------------------
\* The queue is a sequence of Used bytes.
LEMMA QueueType ==
  ASSUME TypeOK
  PROVE  Queue \in Seq(Byte) /\ Len(Queue) = Used /\ Used \in Nat
         /\ \A i \in 1 .. Used : Queue[i] = data[(nread + i - 1) % PIPESIZE]
<1>1. Used \in Nat /\ nread \in Int /\ PIPESIZE \in Nat \ {0}
  BY UsedRange, SMTT(30)
<1>2. ASSUME NEW i \in 1 .. Used PROVE data[(nread + i - 1) % PIPESIZE] \in Byte
  <2>1. nread + i - 1 \in Int
    BY <1>1, SMTT(30)
  <2>2. (nread + i - 1) % PIPESIZE \in 0 .. PIPESIZE - 1
    BY <1>1, <2>1, DivMod
  <2>. QED  BY <2>2 DEF TypeOK
<1>. QED  BY <1>1, <1>2, SMTT(30) DEF Queue

\* The bytes already in the ring are not overwritten.
LEMMA FillOld ==
  ASSUME TypeOK, NEW p \in Proc, rest[p] # <<>>, Fill(p), NEW i \in 1 .. Used
  PROVE  data'[(nread + i - 1) % PIPESIZE] = data[(nread + i - 1) % PIPESIZE]
<1>. DEFINE k == Fits(p)
            x == nread + i - 1
<1>1. k \in 0 .. Room /\ Used \in Nat /\ Room = PIPESIZE - Used /\ PIPESIZE \in Nat \ {0} /\ nread \in Int
  BY FitsIs, UsedRange, SMTT(30)
<1>2. x \in Int /\ x % PIPESIZE \in 0 .. PIPESIZE - 1
  BY <1>1, DivMod, SMTT(30)
<1>3. ASSUME NEW j \in 1 .. k PROVE (nwrite + j - 1) % PIPESIZE # x % PIPESIZE
  <2>. DEFINE y == nread + Used + (j - 1)
  <2>1. y \in Int /\ x < y /\ y < x + PIPESIZE /\ j - 1 \in Int
    BY <1>1, SMTT(30)
  <2>2. x % PIPESIZE # y % PIPESIZE
    BY <1>1, <1>2, <2>1, ModDiff
  <2>3. (nwrite + (j - 1)) % PIPESIZE = y % PIPESIZE
    BY <2>1, WriteIndex
  <2>4. nwrite + (j - 1) = nwrite + j - 1
    BY <2>1, UsedRange
  <2>. QED  BY <2>2, <2>3, <2>4
<1>4. x % PIPESIZE \in DOMAIN data
  BY <1>2 DEF TypeOK
<1>. HIDE DEF k, x
<1>5. data'[x % PIPESIZE] =
        IF \E j \in 1 .. k : (nwrite + j - 1) % PIPESIZE = x % PIPESIZE
        THEN rest[p][CHOOSE j \in 1 .. k : (nwrite + j - 1) % PIPESIZE = x % PIPESIZE]
        ELSE data[x % PIPESIZE]
  BY <1>4 DEF Fill, k
<1>6. data'[x % PIPESIZE] = data[x % PIPESIZE]
  BY <1>3, <1>5
<1>. QED  BY <1>6 DEF x

\* The bytes written follow them.
LEMMA FillNew ==
  ASSUME TypeOK, NEW p \in Proc, rest[p] # <<>>, Fill(p), NEW j \in 1 .. Fits(p)
  PROVE  data'[(nread + (Used + j) - 1) % PIPESIZE] = rest[p][j]
<1>. DEFINE k == Fits(p)
            at(n) == (nwrite + n - 1) % PIPESIZE
<1>1. k \in 0 .. Room /\ Used \in Nat /\ Room = PIPESIZE - Used /\ PIPESIZE \in Nat \ {0}
      /\ nread \in Int /\ nwrite \in Int
  BY FitsIs, UsedRange, SMTT(30)
<1>2. at(j) \in 0 .. PIPESIZE - 1
  <2>1. nwrite + j - 1 \in Int
    BY <1>1, SMTT(30)
  <2>. QED  BY <1>1, <2>1, DivMod
<1>3. at(j) = (nread + (Used + j) - 1) % PIPESIZE
  <2>1. j - 1 \in Int /\ nwrite + (j - 1) = nwrite + j - 1
        /\ nread + Used + (j - 1) = nread + (Used + j) - 1
    BY <1>1, SMTT(30)
  <2>. QED  BY <2>1, WriteIndex
<1>4. ASSUME NEW n \in 1 .. k, at(n) = at(j) PROVE n = j
  <2>. DEFINE x == nwrite + j - 1
              y == nwrite + n - 1
  <2>1. x \in Int /\ y \in Int /\ y < x + PIPESIZE /\ x < y + PIPESIZE
    BY <1>1, SMTT(30)
  <2>2. ~(x < y) /\ ~(y < x)
    BY <1>1, <1>4, <2>1, ModDiff
  <2>. QED  BY <1>1, <2>1, <2>2, SMTT(30)
<1>5. at(j) \in DOMAIN data
  BY <1>2 DEF TypeOK
<1>. HIDE DEF k
<1>6. data'[at(j)] = IF \E n \in 1 .. k : at(n) = at(j)
                     THEN rest[p][CHOOSE n \in 1 .. k : at(n) = at(j)]
                     ELSE data[at(j)]
  BY <1>5 DEF Fill, k
<1>. HIDE DEF at
<1>7. j \in 1 .. k
  BY DEF k
<1>8. (CHOOSE n \in 1 .. k : at(n) = at(j)) = j
  BY <1>4, <1>7
<1>9. data'[at(j)] = rest[p][j]
  BY <1>6, <1>7, <1>8
<1>. QED  BY <1>3, <1>9

\* pipewrite() appends what fits to the queue.
LEMMA FillAppends ==
  ASSUME Inv, Inv', NEW p \in Proc, rest[p] # <<>>, Fill(p)
  PROVE  \E s \in [1 .. Fits(p) -> Byte] : Queue' = Queue \o s
<1>. DEFINE k == Fits(p)
            s == [j \in 1 .. k |-> rest[p][j]]
<1>1. TypeOK /\ TypeOK'
  BY DEF Inv
<1>2. /\ k \in Nat /\ k <= Len(rest[p]) /\ rest[p] \in Seq(Byte)
      /\ Used \in Nat /\ Used' = Used + k /\ nread' = nread
  BY <1>1, FitsIs, StringsAre, FillKeeps, UsedRange, SMTT(30)
<1>3. s \in [1 .. k -> Byte] /\ s \in Seq(Byte) /\ Len(s) = k /\ \A j \in 1 .. k : s[j] = rest[p][j]
  <2>1. \A j \in 1 .. k : rest[p][j] \in Byte
    BY <1>2, SMTT(30)
  <2>2. s \in [1 .. k -> Byte]
    BY <2>1
  <2>3. s \in Seq(Byte) /\ Len(s) = k
    BY <1>2, <2>2, SMTT(30)
  <2>. QED  BY <2>2, <2>3
<1>4. Queue \in Seq(Byte) /\ Len(Queue) = Used
      /\ \A i \in 1 .. Used : Queue[i] = data[(nread + i - 1) % PIPESIZE]
  BY <1>1, QueueType
<1>5. Queue' \in Seq(Byte) /\ Len(Queue') = Used + k
      /\ \A i \in 1 .. Used + k : Queue'[i] = data'[(nread + i - 1) % PIPESIZE]
  <2>1. data' \in [0 .. PIPESIZE - 1 -> Byte] /\ nread \in Int /\ PIPESIZE \in Nat \ {0}
    BY <1>1, UsedRange, SMTT(30) DEF TypeOK
  <2>2. ASSUME NEW i \in 1 .. Used + k PROVE data'[(nread + i - 1) % PIPESIZE] \in Byte
    <3>1. nread + i - 1 \in Int
      BY <1>2, <2>1, SMTT(30)
    <3>2. (nread + i - 1) % PIPESIZE \in 0 .. PIPESIZE - 1
      BY <2>1, <3>1, DivMod
    <3>. QED  BY <2>1, <3>2
  <2>3. Queue' = [i \in 1 .. Used + k |-> data'[(nread + i - 1) % PIPESIZE]]
    BY <1>2 DEF Queue
  <2>4. Used + k \in Nat
    BY <1>2, SMTT(30)
  <2>. QED  BY <2>2, <2>3, <2>4, SMTT(30)
<1>6. \A i \in 1 .. Used : Queue'[i] = Queue[i]
  <2>. SUFFICES ASSUME NEW i \in 1 .. Used PROVE Queue'[i] = Queue[i]
    OBVIOUS
  <2>1. data'[(nread + i - 1) % PIPESIZE] = data[(nread + i - 1) % PIPESIZE]
    BY <1>1, FillOld
  <2>2. i \in 1 .. Used + k
    BY <1>2, SMTT(30)
  <2>. HIDE DEF Queue
  <2>. QED  BY <1>4, <1>5, <2>1, <2>2
<1>7. \A j \in 1 .. k : Queue'[Used + j] = s[j]
  <2>. SUFFICES ASSUME NEW j \in 1 .. k PROVE Queue'[Used + j] = s[j]
    OBVIOUS
  <2>1. Used + j \in 1 .. Used + k
    BY <1>2, SMTT(30)
  <2>2. Queue'[Used + j] = data'[(nread + (Used + j) - 1) % PIPESIZE]
    BY <1>5, <2>1
  <2>. QED  BY <1>1, <1>3, <2>2, FillNew
<1>. HIDE DEF k, s
<1>9. Queue' = Queue \o s
  BY <1>2, <1>3, <1>4, <1>5, <1>6, <1>7, IsConcat
<1>. QED  BY <1>3, <1>9 DEF k

\* A write puts bytes into the queue, or finds it full and leaves it alone.
LEMMA ImplFill ==
  ASSUME Inv, Inv', NEW p \in Proc, WriteAll(p) \/ WriteFails(p) \/ WriteFull(p)
  PROVE  [Fifo!FNext]_(Fifo!fvars)
<1>1. /\ Fill(p) /\ pc[p] = "write" /\ rest[p] # <<>> /\ p \in wfds /\ out' = out
  BY DEF Inv, InCall, WriteSide, WriteAll, WriteFails, WriteFull
<1>2. TypeOK /\ writeopen
  BY <1>1 DEF Inv, EndsOpen
<1>3. /\ Fits(p) \in 0 .. Room /\ Room = PIPESIZE - Used /\ readopen' = readopen /\ writeopen' = writeopen
      /\ Len(Queue) = Used /\ Queue \in Seq(Byte)
  BY <1>1, <1>2, FitsIs, UsedRange, FillKeeps, QueueType
<1>4. PICK s \in [1 .. Fits(p) -> Byte] : Queue' = Queue \o s
  BY <1>1, FillAppends
<1>. DEFINE k == Fits(p)
<1>5. CASE k = 0
  <2>1. s = <<>>
    BY <1>4, <1>5, SMTT(30)
  <2>2. Queue' = Queue
    BY <1>3, <1>4, <2>1, SMTT(30)
  <2>. QED  BY <1>1, <1>3, <2>2 DEF Fifo!fvars, Queue
<1>6. CASE k # 0
  <2>1. k \in 1 .. PIPESIZE - Len(Queue)
    BY <1>2, <1>3, <1>6, UsedRange, SMTT(30)
  <2>2. \E n \in 1 .. PIPESIZE - Len(Queue) : \E t \in [1 .. n -> Byte] : Queue' = Queue \o t
    BY <1>4, <2>1
  <2>3. Fifo!FPut
    BY <1>1, <1>2, <1>3, <2>2 DEF Fifo!FPut, Queue
  <2>. QED  BY <2>3 DEF Fifo!FNext
<1>. QED  BY <1>5, <1>6

-----------------------------------------------------------------------------
\* piperead() takes the first bytes of the queue, or reports the end of the file.
LEMMA ImplRead ==
  ASSUME Inv, Inv', NEW p \in Proc, ReadSome(p)
  PROVE  Fifo!FGet(p) \/ Fifo!FEof(p)
<1>. DEFINE k == Min({want[p], Used})
            Got(i) == data[(nread + i - 1) % PIPESIZE]
            o == [i \in 1 .. k |-> Got(i)]
<1>1. TypeOK /\ TypeOK' /\ want[p] # 0 /\ p \in rfds /\ readopen
  BY DEF Inv, InCall, EndsOpen, ReadSome, ReadSide
<1>2. /\ Used' = Used - k /\ k \in 0 .. Used /\ (Used # 0 => k # 0)
  BY <1>1, ReadKeeps
<1>3. /\ Used \in Nat /\ Used \in 0 .. PIPESIZE /\ PIPESIZE \in Nat \ {0} /\ WORD \in Nat \ {0}
      /\ PIPESIZE < WORD /\ nread \in 0 .. WORD - 1 /\ nwrite \in 0 .. WORD - 1
  BY <1>1, UsedRange, SMTT(30)
<1>4. /\ Queue \in Seq(Byte) /\ Len(Queue) = Used
      /\ \A i \in 1 .. Used : Queue[i] = Got(i)
  BY <1>1, QueueType
<1>5. /\ out' = [out EXCEPT ![p] = o] /\ nread' = (nread + k) % WORD
      /\ data' = data /\ readopen' = readopen /\ writeopen' = writeopen /\ ~Empty
  BY DEF ReadSome
<1>. HIDE DEF k
<1>6. ASSUME NEW i \in 1 .. Used - k
      PROVE  (nread' + i - 1) % PIPESIZE = (nread + (k + i) - 1) % PIPESIZE
  <2>1. i - 1 \in Int /\ k \in 0 .. WORD - 1 /\ nread + k + (i - 1) = nread + (k + i) - 1
    BY <1>2, <1>3, SMTT(30)
  <2>2. (((nread + k) % WORD) + (i - 1)) % PIPESIZE = (nread + k + (i - 1)) % PIPESIZE
    BY <1>3, <2>1, Advanced
  <2>3. nread + k \in Int
    BY <1>3, <2>1, SMTT(30)
  <2>4. (nread + k) % WORD \in Int
    BY <1>3, <2>3, DivMod, SMTT(30)
  <2>5. ((nread + k) % WORD) + (i - 1) = ((nread + k) % WORD) + i - 1
    BY <2>1, <2>4
  <2>. QED  BY <1>5, <2>1, <2>2, <2>5
<1>7. ASSUME NEW i \in 1 .. Used - k
      PROVE  k + i \in 1 .. Used /\ data[(nread' + i - 1) % PIPESIZE] = Queue[k + i]
  <2>1. k + i \in 1 .. Used
    BY <1>2, <1>3, SMTT(30)
  <2>. QED  BY <1>4, <1>6, <2>1
<1>8. /\ Queue' = [i \in 1 .. Used - k |-> data[(nread' + i - 1) % PIPESIZE]]
  BY <1>2, <1>5 DEF Queue
<1>9. Used - k \in Nat /\ k \in Nat
  BY <1>2, <1>3, SMTT(30)
<1>10. Queue' \in Seq(Byte) /\ Len(Queue') = Used - k /\ \A i \in 1 .. Used - k : Queue'[i] = Queue[k + i]
  <2>1. \A i \in 1 .. Used - k : data[(nread' + i - 1) % PIPESIZE] \in Byte
    BY <1>4, <1>7, SMTT(30)
  <2>. QED  BY <1>7, <1>8, <1>9, <2>1, SMTT(30)
<1>11. Queue' = SubSeq(Queue, k + 1, Used)
  <2>1. k <= Used /\ Used <= Len(Queue)
    BY <1>2, <1>3, <1>4, SMTT(30)
  <2>2. Queue \in Seq(Byte) /\ Queue' \in Seq(Byte)
    BY <1>4, <1>10
  <2>. HIDE DEF Queue
  <2>. QED  BY <1>3, <1>9, <1>10, <2>1, <2>2, IsSubSeq
<1>12. CASE Used = 0
  <2>1. k = 0 /\ o = <<>>
    BY <1>2, <1>12, SMTT(30)
  <2>2. Queue = <<>> /\ Queue' = <<>>
    BY <1>2, <1>12, <2>1, <1>8, <1>4, SMTT(30)
  <2>3. nwrite = nread
    BY <1>3, <1>12, Distance, SMTT(30) DEF Used
  <2>4. ~writeopen
    BY <1>5, <2>3 DEF Empty
  <2>5. out' = [out EXCEPT ![p] = <<>>]
    BY <1>5, <2>1
  <2>6. Fifo!FEof(p)
    BY <1>1, <1>5, <2>2, <2>4, <2>5 DEF Fifo!FEof, Queue
  <2>. QED  BY <2>6
<1>13. CASE Used # 0
  <2>1. k \in 1 .. Len(Queue)
    BY <1>2, <1>3, <1>4, <1>13, SMTT(30)
  <2>2. o \in Seq(Byte) /\ Len(o) = k /\ \A i \in 1 .. k : o[i] = Queue[0 + i]
    <3>. HIDE DEF Got
    <3>1. \A i \in 1 .. k : i \in 1 .. Used /\ 0 + i = i
      BY <1>2, <1>3, SMTT(30)
    <3>2. \A i \in 1 .. k : Got(i) = Queue[0 + i] /\ Got(i) \in Byte
      BY <1>4, <3>1, SMTT(30)
    <3>. QED  BY <1>9, <3>2, SMTT(30)
  <2>3. o = SubSeq(Queue, 1, k)
    <3>. HIDE DEF Queue, o
    <3>1. 0 <= k /\ k <= Len(Queue) /\ Len(o) = k - 0 /\ k - 0 = k
      BY <1>9, <2>1, <2>2, SMTT(30)
    <3>2. o = SubSeq(Queue, 0 + 1, k)
      BY <1>4, <1>9, <2>2, <3>1, IsSubSeq
    <3>. QED  BY <3>2, SMTT(30)
  <2>4. out' = [out EXCEPT ![p] = SubSeq(Queue, 1, k)] /\ Queue' = SubSeq(Queue, k + 1, Len(Queue))
    BY <1>4, <1>5, <1>11, <2>3
  <2>5. \E n \in 1 .. Len(Queue) : /\ out' = [out EXCEPT ![p] = SubSeq(Queue, 1, n)]
                                   /\ Queue' = SubSeq(Queue, n + 1, Len(Queue))
    BY <2>1, <2>4
  <2>6. Fifo!FGet(p)
    BY <1>1, <1>5, <2>5 DEF Fifo!FGet, Queue
  <2>. QED  BY <2>6
<1>. QED  BY <1>12, <1>13

-----------------------------------------------------------------------------
\* A step that moves no byte and closes no end is a stutter.
LEMMA ImplStutter ==
  ASSUME UNCHANGED <<data, nread, nwrite, readopen, writeopen, out>>
  PROVE  UNCHANGED Fifo!fvars
  BY DEF Fifo!fvars, Used

\* Closing an end.
LEMMA ImplClose ==
  ASSUME Inv, NEW p \in Proc, CloseWrite(p) \/ CloseRead(p)
  PROVE  Fifo!FClose
<1>1. UNCHANGED <<data, nread, nwrite, out>>
  BY DEF CloseWrite, CloseRead
<1>2. Queue' = Queue
  BY <1>1 DEF Queue, Used
<1>3. readopen' \in {readopen, FALSE} /\ writeopen' \in {writeopen, FALSE}
  BY DEF Inv, TypeOK, EndsOpen, CloseWrite, CloseRead
<1>. QED  BY <1>1, <1>2, <1>3 DEF Fifo!FClose, Queue

\* The ring is empty to begin with.
LEMMA ImplInit ==
  ASSUME Init
  PROVE  Fifo!FInit
<1>1. TypeOK /\ nread = 0 /\ nwrite = 0
  BY InitInv DEF Inv, Init
<1>2. Used = 0
  BY <1>1, UsedRange, Distance, SMTT(30) DEF Used
<1>3. Queue = <<>>
  BY <1>2, SMTT(30) DEF Queue
<1>. QED  BY <1>3 DEF Fifo!FInit, Init, Queue

\* Every step is a step of the FIFO or a stutter.
LEMMA ImplNext ==
  ASSUME Inv, Inv', [Next]_vars
  PROVE  [Fifo!FNext]_(Fifo!fvars)
<1>1. ASSUME NEW p \in Proc, WriteAll(p) \/ WriteFails(p) \/ WriteFull(p)
      PROVE  [Fifo!FNext]_(Fifo!fvars)
  BY <1>1, ImplFill
<1>2. ASSUME NEW p \in Proc, ReadSome(p)
      PROVE  [Fifo!FNext]_(Fifo!fvars)
  BY <1>2, ImplRead DEF Fifo!FNext
<1>3. ASSUME NEW p \in Proc, CloseWrite(p) \/ CloseRead(p)
      PROVE  [Fifo!FNext]_(Fifo!fvars)
  BY <1>3, ImplClose DEF Fifo!FNext
<1>4. ASSUME NEW p \in Proc,
             \/ \E s \in Strings : Write(p, s)
             \/ \E n \in 1 .. MaxRead : Read(p, n)
             \/ WriteSleep(p) \/ ReadFails(p) \/ ReadEmpty(p) \/ ReadSleep(p) \/ Kill(p)
      PROVE  [Fifo!FNext]_(Fifo!fvars)
  <2>1. UNCHANGED <<data, nread, nwrite, readopen, writeopen, out>>
    BY <1>4 DEF Write, Read, WriteSleep, ReadFails, ReadEmpty, ReadSleep, Kill, pipe
  <2>. QED  BY <2>1, ImplStutter
<1>5. CASE UNCHANGED vars
  <2>1. UNCHANGED <<data, nread, nwrite, readopen, writeopen, out>>
    BY <1>5 DEF vars
  <2>. QED  BY <2>1, ImplStutter
<1>. QED  BY <1>1, <1>2, <1>3, <1>4, <1>5 DEF Next, Step

\* pipe.c implements a FIFO of bytes, for any number of readers and writers that
\* close, are killed and exit, any ring size, and counters that wrap around at any
\* multiple of it.
THEOREM PipeImplementsFifo == Spec => Implements
<1>1. Init => Fifo!FInit
  BY ImplInit
<1>2. Inv /\ Inv' /\ [Next]_vars => [Fifo!FNext]_(Fifo!fvars)
  BY ImplNext
<1>. QED  BY <1>1, <1>2, PipeInvariant, PTL DEF Spec, Implements, Fifo!FSpec
=============================================================================

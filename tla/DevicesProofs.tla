---------------------------- MODULE DevicesProofs -----------------------------
(***************************************************************************)
(* Proofs about Devices, for any processes, keys, characters, delays, read *)
(* sizes, ring size and counter width (a larger multiple of the ring       *)
(* size).                                                                  *)
(***************************************************************************)
EXTENDS Devices, Rings, WellFoundedInduction

\* The prover of the leaves that name none.
USE ZenonT(30)

-----------------------------------------------------------------------------
(* The keyboard.                                                            *)

Codes == (0 .. 127) \ {96}

\* Each modifier flag of S has a key that is down.
Backed(S) == \A f \in {"CTL", "SHIFT"} : f \in S =>
               \E k \in held : f \in shiftcode(IF k[2] THEN k[1] + 128 ELSE k[1])

\* At most the second byte of a key is under way, after an escape that kbdgetc() has
\* seen, and a flag has a key that is down: the flags as they will be when the byte has
\* arrived.
Kbd ==
  \/ wire = <<>> /\ "E0ESC" \notin shift /\ Backed(shift)
  \/ \E c \in Codes : wire = <<c>> /\ "E0ESC" \in shift /\ Backed(shift \cup shiftcode(c + 128))
  \/ \E c \in Codes : wire = <<c + 128>> /\ "E0ESC" \in shift /\ Backed(shift \ shiftcode(c + 128))

\* A key, and the byte it sends when it goes up.
LEMMA KeyIs ==
  ASSUME NEW k \in Keys
  PROVE  \E c \in Codes : k = <<c, FALSE>> \/ k = <<c, TRUE>>
<1>1. PICK c \in Codes, x \in BOOLEAN : k = <<c, x>>
  BY DevicesAssumption, SMTT(30) DEF Codes
<1>. QED  BY <1>1

LEMMA UpByte ==
  ASSUME NEW c \in Codes
  PROVE  c + 128 \in (0 .. 255) \ {224} /\ c + 128 >= 128 /\ (c + 128) % 128 = c
  BY SMTT(30) DEF Codes

\* What a byte does to the flags: an escape, the byte of a key that goes up, and the
\* byte of a key that goes down.
LEMMA EscapeFlags ==
  ASSUME NEW s
  PROVE  kbdgetc(s, 224).shift = s \cup {"E0ESC"}
  BY DEF kbdgetc

LEMMA UpFlags ==
  ASSUME NEW s, NEW c \in Codes
  PROVE  kbdgetc(s, c + 128).shift =
           s \ (shiftcode(IF "E0ESC" \in s THEN c + 128 ELSE c) \cup {"E0ESC"})
<1>1. kbdgetc(s, c + 128).shift = Up(s, c + 128)
  BY UpByte, SMTT(30) DEF kbdgetc
<1>. QED  BY <1>1, UpByte, SMTT(30) DEF Up

LEMMA DownFlags ==
  ASSUME NEW s, NEW c \in Codes
  PROVE  /\ "E0ESC" \notin kbdgetc(s, c).shift
         /\ \A f \in {"CTL", "SHIFT"} : f \in kbdgetc(s, c).shift =>
              f \in s \/ f \in shiftcode(IF "E0ESC" \in s THEN c + 128 ELSE c)
<1>1. kbdgetc(s, c).shift = Down(s, Code(s, c))
  BY SMTT(30) DEF kbdgetc, Codes
<1>2. \A x : "E0ESC" \notin shiftcode(x)
  BY DEF shiftcode
<1>3. \A x : \A f \in {"CTL", "SHIFT", "E0ESC"} : f \notin togglecode(x)
  BY DEF togglecode
<1>4. \A f, x, t : f \in Toggle(x, t) => f \in x \/ f \in t
  BY DEF Toggle
<1>5. \A f \in {"CTL", "SHIFT", "E0ESC"} : f \in kbdgetc(s, c).shift =>
        f \in (s \ {"E0ESC"}) \cup shiftcode(Code(s, c))
  <2>. DEFINE x == (s \ {"E0ESC"}) \cup shiftcode(Code(s, c))
              t == togglecode(Code(s, c))
  <2>1. kbdgetc(s, c).shift = Toggle(x, t)
    BY <1>1 DEF Down
  <2>2. \A f \in {"CTL", "SHIFT", "E0ESC"} : f \notin t
    BY <1>3
  <2>. HIDE DEF x, t
  <2>3. \A f \in {"CTL", "SHIFT", "E0ESC"} : f \in kbdgetc(s, c).shift => f \in x
    BY <1>4, <2>1, <2>2, SMTT(30)
  <2>. QED  BY <2>3 DEF x
<1>. QED  BY <1>2, <1>5, SMTT(30) DEF Code

\* A key without an escape goes down, or up.
LEMMA PlainKey ==
  ASSUME NEW c \in Codes, NEW k, k = <<c, FALSE>>, "E0ESC" \notin shift, Backed(shift),
         \/ /\ shift' = kbdgetc(shift, c).shift
            /\ held' = IF Modifier(k) THEN held \cup {k} ELSE held
         \/ shift' = kbdgetc(shift, c + 128).shift /\ held' = held \ {k}
  PROVE  "E0ESC" \notin shift' /\ Backed(shift)'
<1>1. k[1] = c /\ k[2] = FALSE
  OBVIOUS
<1>2. CASE shift' = kbdgetc(shift, c).shift /\ held' = IF Modifier(k) THEN held \cup {k} ELSE held
  <2>1. /\ "E0ESC" \notin shift'
        /\ \A f \in {"CTL", "SHIFT"} : f \in shift' => f \in shift \/ f \in shiftcode(c)
    BY <1>2, DownFlags, SMTT(30)
  <2>2. \A f \in shiftcode(c) : k \in held'
    BY <1>1, <1>2 DEF Modifier
  <2>3. held \subseteq held'
    BY <1>2
  <2>. QED  BY <1>1, <2>1, <2>2, <2>3 DEF Backed
<1>3. CASE shift' = kbdgetc(shift, c + 128).shift /\ held' = held \ {k}
  <2>1. shift' = shift \ (shiftcode(c) \cup {"E0ESC"})
    BY <1>3, UpFlags
  <2>. QED  BY <1>1, <1>3, <2>1 DEF Backed
<1>. QED  BY <1>2, <1>3

\* The escape of such a key arrives, and the key is on the wire.
LEMMA EscapedKey ==
  ASSUME NEW c \in Codes, NEW k, k = <<c, TRUE>>, Backed(shift),
         shift' = kbdgetc(shift, 224).shift
  PROVE  /\ "E0ESC" \in shift'
         /\ (held' = IF Modifier(k) THEN held \cup {k} ELSE held) => Backed(shift \cup shiftcode(c + 128))'
         /\ held' = held \ {k} => Backed(shift \ shiftcode(c + 128))'
<1>1. k[1] = c /\ k[2] = TRUE
  OBVIOUS
<1>2. shift' = shift \cup {"E0ESC"}
  BY EscapeFlags
<1>3. ASSUME held' = IF Modifier(k) THEN held \cup {k} ELSE held
      PROVE  Backed(shift \cup shiftcode(c + 128))'
  <2>1. \A f \in shiftcode(c + 128) : k \in held'
    BY <1>1, <1>3 DEF Modifier
  <2>2. held \subseteq held'
    BY <1>3
  <2>. QED  BY <1>1, <1>2, <2>1, <2>2 DEF Backed
<1>4. ASSUME held' = held \ {k}
      PROVE  Backed(shift \ shiftcode(c + 128))'
  <2>. SUFFICES ASSUME NEW f \in {"CTL", "SHIFT"}, f \in shift, f \notin shiftcode(c + 128)
                PROVE  \E x \in held' : f \in shiftcode(IF x[2] THEN x[1] + 128 ELSE x[1])
    BY <1>2 DEF Backed
  <2>1. PICK x \in held : f \in shiftcode(IF x[2] THEN x[1] + 128 ELSE x[1])
    BY DEF Backed
  <2>2. x # k
    BY <1>1, <2>1
  <2>. QED  BY <1>4, <2>1, <2>2
<1>. QED  BY <1>2, <1>3, <1>4

\* The byte on the wire arrives.
LEMMA SecondByte ==
  ASSUME Kbd, KeyByte
  PROVE  Kbd'
<1>1. wire # <<>> /\ shift' = kbdgetc(shift, Head(wire)).shift /\ wire' = Tail(wire) /\ held' = held
  BY DEF KeyByte, Sends, kbdintr
<1>2. \A d : Head(<<d>>) = d /\ Tail(<<d>>) = <<>>
  BY SMTT(30)
<1>3. ASSUME NEW c \in Codes, wire = <<c>>, "E0ESC" \in shift, Backed(shift \cup shiftcode(c + 128))
      PROVE  Kbd'
  <2>1. shift' = kbdgetc(shift, c).shift /\ wire' = <<>>
    BY <1>1, <1>2, <1>3
  <2>2. /\ "E0ESC" \notin shift'
        /\ \A f \in {"CTL", "SHIFT"} : f \in shift' => f \in shift \cup shiftcode(c + 128)
    BY <1>3, <2>1, DownFlags, SMTT(30)
  <2>3. Backed(shift)'
    BY <1>1, <1>3, <2>2 DEF Backed
  <2>. QED  BY <2>1, <2>2, <2>3 DEF Kbd
<1>4. ASSUME NEW c \in Codes, wire = <<c + 128>>, "E0ESC" \in shift, Backed(shift \ shiftcode(c + 128))
      PROVE  Kbd'
  <2>1. shift' = kbdgetc(shift, c + 128).shift /\ wire' = <<>>
    BY <1>1, <1>2, <1>4
  <2>2. shift' = shift \ (shiftcode(c + 128) \cup {"E0ESC"})
    BY <1>4, <2>1, UpFlags
  <2>3. Backed(shift)'
    BY <1>1, <1>4, <2>2 DEF Backed
  <2>. QED  BY <2>1, <2>2, <2>3 DEF Kbd
<1>. QED  BY <1>1, <1>3, <1>4 DEF Kbd

LEMMA KbdStep == Kbd /\ [Next]_vars => Kbd'
<1>. SUFFICES ASSUME Kbd, [Next]_vars PROVE Kbd'
  OBVIOUS
<1>0. \A x, y : /\ Head(<<x, y>>) = x /\ Tail(<<x, y>>) = <<y>>
                /\ Head(<<x>>) = x /\ Tail(<<x>>) = <<>> /\ <<x>> # <<>>
  BY SMTT(30)
<1>1. CASE KeyDown
  <2>1. PICK k \in Keys :
          /\ wire = <<>> /\ Sends(k, IF k[2] THEN <<224, k[1]>> ELSE <<k[1]>>)
          /\ held' = IF Modifier(k) THEN held \cup {k} ELSE held
    BY <1>1 DEF KeyDown
  <2>2. PICK c \in Codes : k = <<c, FALSE>> \/ k = <<c, TRUE>>
    BY KeyIs
  <2>3. "E0ESC" \notin shift /\ Backed(shift)
    BY <1>0, <2>1 DEF Kbd
  <2>4. CASE k = <<c, TRUE>>
    <3>1. Sends(k, <<224, c>>)
      BY <2>1, <2>4
    <3>2. shift' = kbdgetc(shift, 224).shift /\ wire' = <<c>>
      BY <3>1, SMTT(30) DEF Sends, kbdintr
    <3>3. "E0ESC" \in shift' /\ Backed(shift \cup shiftcode(c + 128))'
      BY <2>1, <2>3, <2>4, <3>2, EscapedKey
    <3>. QED  BY <3>2, <3>3 DEF Kbd
  <2>5. CASE k = <<c, FALSE>>
    <3>1. Sends(k, <<c>>)
      BY <2>1, <2>5
    <3>2. shift' = kbdgetc(shift, c).shift /\ wire' = <<>>
      BY <1>0, <3>1 DEF Sends, kbdintr
    <3>3. "E0ESC" \notin shift' /\ Backed(shift)'
      BY <2>1, <2>3, <2>5, <3>2, PlainKey
    <3>. QED  BY <3>2, <3>3 DEF Kbd
  <2>. QED  BY <2>2, <2>4, <2>5
<1>2. CASE KeyUp
  <2>1. PICK k \in Keys :
          /\ wire = <<>> /\ Sends(k, IF k[2] THEN <<224, k[1] + 128>> ELSE <<k[1] + 128>>)
          /\ held' = held \ {k}
    BY <1>2 DEF KeyUp
  <2>2. PICK c \in Codes : k = <<c, FALSE>> \/ k = <<c, TRUE>>
    BY KeyIs
  <2>3. "E0ESC" \notin shift /\ Backed(shift)
    BY <1>0, <2>1 DEF Kbd
  <2>4. CASE k = <<c, TRUE>>
    <3>1. Sends(k, <<224, c + 128>>)
      BY <2>1, <2>4
    <3>2. shift' = kbdgetc(shift, 224).shift /\ wire' = <<c + 128>>
      BY <3>1, SMTT(30) DEF Sends, kbdintr
    <3>3. "E0ESC" \in shift' /\ Backed(shift \ shiftcode(c + 128))'
      BY <2>1, <2>3, <2>4, <3>2, EscapedKey
    <3>. QED  BY <3>2, <3>3 DEF Kbd
  <2>5. CASE k = <<c, FALSE>>
    <3>1. Sends(k, <<c + 128>>)
      BY <2>1, <2>5
    <3>2. shift' = kbdgetc(shift, c + 128).shift /\ wire' = <<>>
      BY <1>0, <3>1 DEF Sends, kbdintr
    <3>3. "E0ESC" \notin shift' /\ Backed(shift)'
      BY <2>1, <2>3, <2>5, <3>2, PlainKey
    <3>. QED  BY <3>2, <3>3 DEF Kbd
  <2>. QED  BY <2>2, <2>4, <2>5
<1>3. ASSUME UNCHANGED <<shift, wire, held>> PROVE Kbd'
  BY <1>3, SMTT(30) DEF Kbd, Backed
<1>4. CASE uartintr \/ Tick \/ UNCHANGED vars
  BY <1>3, <1>4 DEF uartintr, Tick, kbdvars, vars
<1>5. CASE \E p \in Proc : Step(p) \/ consoleread(p) \/ sys_sleep(p) \/ kill(p)
  BY <1>3, <1>5 DEF Step, ReadLoop, ReadSleep, SleepAgain, SleepSleep, SleepLoop, consoleread,
                    sys_sleep, kill, kbdvars
<1>. QED  BY <1>1, <1>2, <1>4, <1>5, SecondByte DEF Next

\* kbdgetc()'s flags follow the keys, for every keyboard: its escape flag and its
\* Control and Shift flags (ShiftRight).
THEOREM KeyboardFlags == Spec => []ShiftRight
<1>1. Init => Kbd
  BY DEF Init, Kbd, Backed
<1>2. Kbd => ShiftRight
  BY SMTT(30) DEF Kbd, Backed, ShiftRight
<1>. QED  BY <1>1, <1>2, KbdStep, PTL DEF Spec

-----------------------------------------------------------------------------
(* Unsigned counters.                                                       *)

Word == 0 .. UINT - 1

LEMMA Sizes0 ==
  UINT \in Nat \ {0} /\ INPUT_BUF \in Nat \ {0} /\ UINT % INPUT_BUF = 0 /\ INPUT_BUF < UINT
  BY DevicesAssumption

LEMMA MinusIs ==
  ASSUME NEW a \in Word, NEW b \in Word
  PROVE  Minus(a, b) \in Word /\ Minus(a, b) = IF a >= b THEN a - b ELSE a - b + UINT
<1>1. UINT \in Nat \ {0} /\ a \in 0 .. UINT - 1 /\ b \in 0 .. UINT - 1
  BY Sizes0 DEF Word
<1>2. UINT % UINT = 0
  BY <1>1, Z3
<1>3. (a - b + UINT) % UINT = (a - b) % UINT
  <2>1. PICK x \in Int : x = a - b
    BY <1>1, SMTT(30)
  <2>2. (x + UINT) % UINT = x % UINT
    BY <1>1, <1>2, DropWhole
  <2>. QED  BY <2>1, <2>2
<1>4. (a - b) % UINT = IF a >= b THEN a - b ELSE a - b + UINT
  BY <1>1, Distance
<1>5. Minus(a, b) = IF a >= b THEN a - b ELSE a - b + UINT
  BY <1>3, <1>4 DEF Minus
<1>. QED  BY <1>1, <1>5, SMTT(30) DEF Word

LEMMA PlusIs ==
  ASSUME NEW a \in Word, NEW k \in Word
  PROVE  Plus(a, k) \in Word /\ Plus(a, k) = IF a + k < UINT THEN a + k ELSE a + k - UINT
<1>1. UINT \in Nat \ {0} /\ a \in 0 .. UINT - 1 /\ k \in 0 .. UINT - 1
  BY Sizes0 DEF Word
<1>2. Plus(a, k) = IF a + k < UINT THEN a + k ELSE a + k - UINT
  BY <1>1, Sum DEF Plus
<1>. QED  BY <1>1, <1>2, SMTT(30) DEF Word

\* From b, i steps towards a.
LEMMA Walk ==
  ASSUME NEW a \in Word, NEW b \in Word, NEW i \in 0 .. Minus(a, b)
  PROVE  /\ Plus(b, i) \in Word /\ Minus(Plus(b, i), b) = i
         /\ Minus(a, Plus(b, i)) = Minus(a, b) - i
         /\ i \in Word /\ Minus(a, i) \in Word /\ Minus(a, i) = Plus(b, Minus(a, b) - i)
<1>1. UINT \in Nat \ {0} /\ a \in 0 .. UINT - 1 /\ b \in 0 .. UINT - 1
  BY Sizes0 DEF Word
<1>2. PICK m \in Word : m = Minus(a, b) /\ m = IF a >= b THEN a - b ELSE a - b + UINT
  BY MinusIs
<1>3. i \in Word /\ m - i \in Word
  BY <1>1, <1>2, SMTT(30) DEF Word
<1>4. PICK c \in Word : c = Plus(b, i) /\ c = IF b + i < UINT THEN b + i ELSE b + i - UINT
  BY <1>3, PlusIs
<1>5. Minus(c, b) = IF c >= b THEN c - b ELSE c - b + UINT
  BY MinusIs
<1>6. Minus(a, c) = IF a >= c THEN a - c ELSE a - c + UINT
  BY MinusIs
<1>7. PICK d \in Word : d = Minus(a, i) /\ d = IF a >= i THEN a - i ELSE a - i + UINT
  BY <1>3, MinusIs
<1>8. Plus(b, m - i) = IF b + (m - i) < UINT THEN b + (m - i) ELSE b + (m - i) - UINT
  BY <1>3, PlusIs
<1>9. Minus(c, b) = i
  BY <1>1, <1>2, <1>3, <1>4, <1>5, SMTT(30) DEF Word
<1>10. Minus(a, c) = m - i
  BY <1>1, <1>2, <1>3, <1>4, <1>6, SMTT(30) DEF Word
<1>11. d = Plus(b, m - i)
  BY <1>1, <1>2, <1>3, <1>7, <1>8, SMTT(30) DEF Word
<1>. QED  BY <1>2, <1>3, <1>4, <1>7, <1>9, <1>10, <1>11

\* One step further from b.
LEMMA Further ==
  ASSUME NEW a \in Word, NEW b \in Word, Minus(a, b) + 1 < UINT
  PROVE  Plus(a, 1) \in Word /\ Minus(Plus(a, 1), b) = Minus(a, b) + 1
<1>1. UINT \in Nat \ {0} /\ a \in 0 .. UINT - 1 /\ b \in 0 .. UINT - 1
  BY Sizes0 DEF Word
<1>2. PICK m \in Word : m = Minus(a, b) /\ m = IF a >= b THEN a - b ELSE a - b + UINT
  BY MinusIs
<1>3. 1 \in Word
  BY <1>1, <1>2, SMTT(30) DEF Word
<1>4. PICK c \in Word : c = Plus(a, 1) /\ c = IF a + 1 < UINT THEN a + 1 ELSE a + 1 - UINT
  BY <1>3, PlusIs
<1>5. Minus(c, b) = IF c >= b THEN c - b ELSE c - b + UINT
  BY MinusIs
<1>6. Minus(c, b) = m + 1
  BY <1>1, <1>2, <1>4, <1>5, SMTT(30) DEF Word
<1>. QED  BY <1>2, <1>4, <1>6

-----------------------------------------------------------------------------
(* The clock.                                                               *)

ProcState ==
  [call : {"none", "read", "sleep"}, state : {"run", "falling", "asleep"}, n : Nat, target : Nat,
   ticks0 : Word, killed : BOOLEAN, el : Word]

Types == ticks \in Word /\ proc \in [Proc -> ProcState]

\* Who is about to sleep holds the lock, the ghost counts what sys_sleep() computes, and
\* who has decided to sleep has not slept its time.
Sleepers ==
  \A p \in Proc :
    /\ In(p, "sleep", "falling") => tickslock = p
    /\ proc[p].call = "sleep" => proc[p].el = Minus(ticks, proc[p].ticks0)
    /\ In(p, "sleep", "falling") \/ In(p, "sleep", "asleep") => proc[p].el < proc[p].n

LEMMA SleepLoopSleepers ==
  ASSUME Types, Sleepers, NEW p \in Proc, NEW x \in ProcState, x.call = "sleep",
         x.el = Minus(ticks, x.ticks0), SleepLoop(p, x)
  PROVE  Sleepers'
<1>1. ticks' = ticks /\ tickslock = Free
  BY DEF SleepLoop
<1>2. CASE Early(ticks, x.ticks0, x.n) /\ ~x.killed
  <2>1. proc' = [proc EXCEPT ![p] = [x EXCEPT !.state = "falling"]] /\ tickslock' = p
    BY <1>2 DEF SleepLoop
  <2>2. /\ proc'[p].call = "sleep" /\ proc'[p].state = "falling" /\ proc'[p].ticks0 = x.ticks0
        /\ proc'[p].el = x.el /\ proc'[p].n = x.n
    BY <2>1 DEF Types, ProcState
  <2>3. x.el < x.n
    BY <1>2 DEF Early
  <2>4. \A q \in Proc : q # p => proc'[q] = proc[q] /\ ~In(q, "sleep", "falling")
    BY <1>1, <2>1, DevicesAssumption, SMTT(30) DEF Types, Sleepers
  <2>. QED  BY <1>1, <2>1, <2>2, <2>3, <2>4, SMTT(30) DEF Sleepers, In
<1>3. CASE ~(Early(ticks, x.ticks0, x.n) /\ ~x.killed)
  <2>1. proc' = [proc EXCEPT ![p] = Idle] /\ tickslock' = tickslock
    BY <1>3 DEF SleepLoop
  <2>2. proc'[p].call = "none" /\ \A q \in Proc : q # p => proc'[q] = proc[q]
    BY <2>1 DEF Types, Idle
  <2>. QED  BY <1>1, <2>1, <2>2 DEF Sleepers, In
<1>. QED  BY <1>2, <1>3

LEMMA TickSleepers ==
  ASSUME Types, Sleepers, Tick
  PROVE  Sleepers'
<1>1. ticks' = Plus(ticks, 1) /\ tickslock' = tickslock /\ tickslock = Free
  BY DEF Tick
<1>2. ASSUME NEW p \in Proc, proc[p].call = "sleep"
      PROVE  /\ proc'[p].call = "sleep" /\ proc'[p].state = "run" /\ proc'[p].ticks0 = proc[p].ticks0
             /\ proc'[p].el = Minus(ticks', proc[p].ticks0)
  <2>1. proc[p] \in ProcState /\ ticks \in Word
    BY DEF Types
  <2>2. proc[p].state # "falling"
    BY <1>1, <1>2, DevicesAssumption DEF Sleepers, In
  <2>3. proc'[p] = [Woken("sleep")[p] EXCEPT !.el = @ + 1]
    BY <1>2 DEF Tick
  <2>4. Woken("sleep")[p] = IF proc[p].state = "asleep" THEN [proc[p] EXCEPT !.state = "run"] ELSE proc[p]
    BY <1>2 DEF Woken
  <2>5. /\ proc'[p].call = "sleep" /\ proc'[p].state = "run" /\ proc'[p].ticks0 = proc[p].ticks0
        /\ proc'[p].el = proc[p].el + 1
    BY <1>2, <2>1, <2>2, <2>3, <2>4, SMTT(30) DEF ProcState
  <2>6. proc[p].el = Minus(ticks, proc[p].ticks0) /\ proc[p].el + 1 < UINT /\ proc[p].ticks0 \in Word
    BY <1>2, <2>1, Sizes0, SMTT(30) DEF Sleepers, Tick, ProcState, Word
  <2>. QED  BY <1>1, <2>1, <2>5, <2>6, Further
<1>3. ASSUME NEW p \in Proc, proc[p].call # "sleep" PROVE proc'[p] = proc[p]
  BY <1>3 DEF Tick
<1>. QED  BY <1>2, <1>3 DEF Sleepers, In

\* A step that neither the clock nor sys_sleep() takes.
LEMMA SleepersFrame ==
  ASSUME Sleepers, UNCHANGED <<ticks, tickslock>>,
         \A p \in Proc : proc'[p] = proc[p] \/ (proc[p].call # "sleep" /\ proc'[p].call # "sleep")
  PROVE  Sleepers'
  BY DEF Sleepers, In

LEMMA SleepersStep == Types /\ Sleepers /\ [Next]_vars => Sleepers'
<1>. SUFFICES ASSUME Types, Sleepers, [Next]_vars PROVE Sleepers'
  OBVIOUS
<1>1. ASSUME NEW c, consoleintr(c) PROVE Sleepers'
  <2>1. UNCHANGED <<ticks, tickslock>> /\ (proc' = proc \/ proc' = Woken("read"))
    BY <1>1 DEF consoleintr, Store
  <2>2. \A p \in Proc : proc'[p] = proc[p] \/ (proc[p].call # "sleep" /\ proc'[p].call # "sleep")
    <3>1. CASE proc' = proc
      BY <3>1
    <3>2. CASE proc' = Woken("read")
      <4>1. ASSUME NEW p \in Proc
            PROVE  proc'[p] = proc[p] \/ (proc[p].call # "sleep" /\ proc'[p].call # "sleep")
        <5>1. CASE proc[p].call = "read" /\ proc[p].state = "asleep"
          <6>1. proc'[p] = [proc[p] EXCEPT !.state = "run"] /\ proc[p] \in ProcState
            BY <3>2, <5>1 DEF Woken, Types
          <6>. QED  BY <5>1, <6>1 DEF ProcState
        <5>2. CASE ~(proc[p].call = "read" /\ proc[p].state = "asleep")
          BY <3>2, <5>2 DEF Woken
        <5>. QED  BY <5>1, <5>2
      <4>. QED  BY <4>1
    <3>. QED  BY <2>1, <3>1, <3>2
  <2>. QED  BY <2>1, <2>2, SleepersFrame
<1>2. CASE KeyDown \/ KeyUp \/ KeyByte \/ uartintr
  BY <1>1, <1>2, SMTT(30) DEF KeyDown, KeyUp, KeyByte, Sends, kbdintr, uartintr
<1>3. ASSUME NEW p \in Proc, consoleread(p) PROVE Sleepers'
  <2>1. PICK n : proc' = [proc EXCEPT ![p].call = "read", ![p].n = n, ![p].target = n]
    BY <1>3 DEF consoleread
  <2>2. proc[p].call = "none" /\ proc'[p].call = "read" /\ \A q \in Proc : q # p => proc'[q] = proc[q]
    BY <1>3, <2>1, SMTT(30) DEF consoleread, Types, ProcState, Idle
  <2>3. UNCHANGED <<ticks, tickslock>>
    BY <1>3 DEF consoleread
  <2>. QED  BY <2>2, <2>3, SleepersFrame
<1>4. ASSUME NEW p \in Proc, ReadLoop(p) \/ ReadSleep(p) PROVE Sleepers'
  <2>1. UNCHANGED <<ticks, tickslock>> /\ proc[p].call = "read" /\ proc[p] \in ProcState
    BY <1>4 DEF ReadLoop, ReadSleep, In, Types
  <2>2. proc'[p].call # "sleep" /\ \A q \in Proc : q # p => proc'[q] = proc[q]
    <3>1. CASE proc' = [proc EXCEPT ![p] = Idle]
      BY <3>1 DEF Types, Idle
    <3>2. CASE proc' = [proc EXCEPT ![p].n = @ - Len(Ready), ![p].state = "falling"]
      BY <2>1, <3>2 DEF Types, ProcState
    <3>3. CASE proc' = [proc EXCEPT ![p].state = "asleep"]
      BY <2>1, <3>3 DEF Types, ProcState
    <3>. QED  BY <1>4, <3>1, <3>2, <3>3 DEF ReadLoop, ReadSleep
  <2>. QED  BY <2>1, <2>2, SleepersFrame
<1>5. ASSUME NEW p \in Proc, SleepAgain(p) PROVE Sleepers'
  BY <1>5, SleepLoopSleepers DEF SleepAgain, In, Types, Sleepers
<1>6. ASSUME NEW p \in Proc, SleepSleep(p) PROVE Sleepers'
  <2>1. /\ In(p, "sleep", "falling") /\ ticks' = ticks /\ tickslock' = Free /\ proc[p] \in ProcState
        /\ proc' = [proc EXCEPT ![p].state = "asleep"] /\ tickslock = p
    BY <1>6 DEF SleepSleep, Types, Sleepers
  <2>2. /\ proc'[p].call = "sleep" /\ proc'[p].state = "asleep" /\ proc'[p].ticks0 = proc[p].ticks0
        /\ proc'[p].el = proc[p].el /\ proc'[p].n = proc[p].n
    BY <2>1 DEF Types, ProcState, In
  <2>3. \A q \in Proc : q # p => proc'[q] = proc[q] /\ ~In(q, "sleep", "falling")
    BY <2>1 DEF Types, Sleepers
  <2>. QED  BY <2>1, <2>2, <2>3, SMTT(30) DEF Sleepers, In
<1>7. ASSUME NEW p \in Proc, sys_sleep(p) PROVE Sleepers'
  <2>1. PICK n \in Delays : SleepLoop(p, [Idle EXCEPT !.call = "sleep", !.n = n, !.ticks0 = ticks])
    BY <1>7 DEF sys_sleep
  <2>2. PICK x : x = [Idle EXCEPT !.call = "sleep", !.n = n, !.ticks0 = ticks]
    OBVIOUS
  <2>3. n \in Nat /\ 0 \in Word /\ ticks \in Word
    BY DevicesAssumption, Sizes0, SMTT(30) DEF Word, Types
  <2>4. x \in ProcState /\ x.call = "sleep" /\ x.el = 0 /\ x.ticks0 = ticks
    BY <2>2, <2>3 DEF Idle, ProcState
  <2>5. Minus(ticks, ticks) = 0
    BY <2>3, MinusIs, SMTT(30) DEF Word
  <2>. QED  BY <2>1, <2>2, <2>4, <2>5, SleepLoopSleepers
<1>8. ASSUME NEW p \in Proc, kill(p) PROVE Sleepers'
  <2>1. /\ UNCHANGED <<ticks, tickslock>> /\ proc[p] \in ProcState
        /\ proc' = [proc EXCEPT ![p].killed = TRUE, ![p].state = IF @ = "asleep" THEN "run" ELSE @]
    BY <1>8 DEF kill, Types
  <2>2. /\ proc'[p].call = proc[p].call /\ proc'[p].ticks0 = proc[p].ticks0
        /\ proc'[p].el = proc[p].el /\ proc'[p].n = proc[p].n
        /\ proc'[p].state = IF proc[p].state = "asleep" THEN "run" ELSE proc[p].state
    BY <2>1 DEF Types, ProcState
  <2>3. \A q \in Proc : q # p => proc'[q] = proc[q]
    BY <2>1 DEF Types
  <2>4. ticks' = ticks /\ tickslock' = tickslock
    BY <2>1
  <2>5. ASSUME NEW q \in Proc
        PROVE  /\ proc'[q].call = proc[q].call /\ proc'[q].ticks0 = proc[q].ticks0
               /\ proc'[q].el = proc[q].el /\ proc'[q].n = proc[q].n
               /\ proc'[q].state = "falling" => proc[q].state = "falling"
               /\ proc'[q].state = "asleep" => proc[q].state = "asleep"
    BY <2>2, <2>3
  <2>. QED  BY <2>4, <2>5 DEF Sleepers, In
<1>9. CASE UNCHANGED vars
  BY <1>9 DEF vars, Sleepers, In
<1>. QED  BY <1>2, <1>3, <1>4, <1>5, <1>6, <1>7, <1>8, <1>9, TickSleepers DEF Next, Step

-----------------------------------------------------------------------------
(* Steps round a counter.                                                  *)

\* Where i steps lead, and that they lead there only.
LEMMA Back ==
  ASSUME NEW b \in Word, NEW k \in Word
  PROVE  Plus(b, k) \in Word /\ Minus(Plus(b, k), b) = k
<1>1. UINT \in Nat \ {0} /\ b \in 0 .. UINT - 1 /\ k \in 0 .. UINT - 1
  BY Sizes0 DEF Word
<1>2. PICK c \in Word : c = Plus(b, k) /\ c = IF b + k < UINT THEN b + k ELSE b + k - UINT
  BY PlusIs
<1>3. Minus(c, b) = IF c >= b THEN c - b ELSE c - b + UINT
  BY MinusIs
<1>4. Minus(c, b) = k
  BY <1>1, <1>2, <1>3, SMTT(30) DEF Word
<1>. QED  BY <1>2, <1>4

LEMMA Join ==
  ASSUME NEW a \in Word, NEW b \in Word, NEW i \in Nat, Minus(a, b) + i < UINT
  PROVE  Plus(a, i) = Plus(b, Minus(a, b) + i)
<1>1. UINT \in Nat \ {0} /\ a \in 0 .. UINT - 1 /\ b \in 0 .. UINT - 1
  BY Sizes0 DEF Word
<1>2. PICK m \in Word : m = Minus(a, b) /\ m = IF a >= b THEN a - b ELSE a - b + UINT
  BY MinusIs
<1>3. i \in Word /\ m + i \in Word
  BY <1>1, <1>2, SMTT(30) DEF Word
<1>4. Plus(a, i) = IF a + i < UINT THEN a + i ELSE a + i - UINT
  BY <1>3, PlusIs
<1>5. Plus(b, m + i) = IF b + (m + i) < UINT THEN b + (m + i) ELSE b + (m + i) - UINT
  BY <1>3, PlusIs
<1>6. Plus(a, i) = Plus(b, m + i)
  BY <1>1, <1>2, <1>3, <1>4, <1>5, SMTT(30) DEF Word
<1>. QED  BY <1>2, <1>6

LEMMA Zero ==
  ASSUME NEW a \in Word, NEW b \in Word
  PROVE  Minus(a, b) \in 0 .. UINT - 1 /\ (Minus(a, b) = 0 <=> a = b) /\ Plus(a, 0) = a
<1>1. UINT \in Nat \ {0} /\ a \in 0 .. UINT - 1 /\ b \in 0 .. UINT - 1 /\ 0 \in Word
  BY Sizes0, SMTT(30) DEF Word
<1>2. Minus(a, b) \in Word /\ Minus(a, b) = IF a >= b THEN a - b ELSE a - b + UINT
  BY MinusIs
<1>3. Plus(a, 0) = IF a + 0 < UINT THEN a + 0 ELSE a + 0 - UINT
  BY <1>1, PlusIs
<1>. QED  BY <1>1, <1>2, <1>3, SMTT(30) DEF Word

-----------------------------------------------------------------------------
(* The ring.                                                                *)

Stored == Letters \cup Ends \cup {"NO"}
Cell(i) == input.buf[(input.r + i) % INPUT_BUF]
Entered == Minus(input.w, input.r)
Typed == Minus(input.e, input.w)
Count == Minus(input.e, input.r)

RingTypes == input \in [buf : [0 .. INPUT_BUF - 1 -> Stored], r : Word, w : Word, e : Word]

\* The indices are in their order and not too far apart, and a full ring is entered.
Indices ==
  /\ Entered + Typed = Count /\ Count <= INPUT_BUF
  /\ Count = INPUT_BUF => input.w = input.e

\* No end of a line is in the part that is being edited.
NoEnds == \A i \in 1 .. Typed : Edit[i] \in Letters

LEMMA RingIs ==
  ASSUME RingTypes, Indices
  PROVE  /\ input.r \in Word /\ input.w \in Word /\ input.e \in Word
         /\ input.buf \in [0 .. INPUT_BUF - 1 -> Stored]
         /\ Entered \in Nat /\ Typed \in Nat /\ Count \in Nat
         /\ Entered <= Count /\ Typed <= Count /\ Count <= INPUT_BUF /\ INPUT_BUF < UINT
<1>1. /\ input.r \in Word /\ input.w \in Word /\ input.e \in Word
      /\ input.buf \in [0 .. INPUT_BUF - 1 -> Stored]
  BY DEF RingTypes
<1>2. Entered \in 0 .. UINT - 1 /\ Typed \in 0 .. UINT - 1 /\ Count \in 0 .. UINT - 1
  BY <1>1, Zero DEF Entered, Typed, Count
<1>3. Entered + Typed = Count /\ Count <= INPUT_BUF
  BY DEF Indices
<1>. QED  BY <1>1, <1>2, <1>3, Sizes0, SMTT(30)

\* A counter that wraps indexes the ring as if it did not.
LEMMA Slot ==
  ASSUME NEW a \in 0 .. UINT - 1, NEW k \in 0 .. UINT - 1
  PROVE  ((a + k) % UINT) % INPUT_BUF = (a + k) % INPUT_BUF
<1>1. (a + k) % UINT = IF a + k < UINT THEN a + k ELSE a + k - UINT
  BY Sizes0, Sum
<1>2. CASE a + k < UINT
  BY <1>1, <1>2
<1>3. CASE ~(a + k < UINT)
  <2>1. PICK x \in Int : x = a + k - UINT /\ x + UINT = a + k
    BY Sizes0, SMTT(30)
  <2>2. (x + UINT) % INPUT_BUF = x % INPUT_BUF
    BY Sizes0, DropWhole
  <2>. QED  BY <1>1, <1>3, <2>1, <2>2
<1>. QED  BY <1>2, <1>3

\* A counter i steps after input.r indexes the cell i places on.
LEMMA CellAt ==
  ASSUME RingTypes, NEW i \in Word
  PROVE  Char(Plus(input.r, i)) = Cell(i) /\ Cell(i) \in Stored
<1>1. input.r \in Word /\ input.buf \in [0 .. INPUT_BUF - 1 -> Stored]
  BY DEF RingTypes
<1>2. PICK r \in 0 .. UINT - 1 : r = input.r
  BY <1>1 DEF Word
<1>3. i \in 0 .. UINT - 1 /\ r + i \in Int
  BY Sizes0, SMTT(30) DEF Word
<1>7. ((r + i) % UINT) % INPUT_BUF = (r + i) % INPUT_BUF
  BY <1>3, Slot
<1>8. (r + i) % INPUT_BUF \in 0 .. INPUT_BUF - 1
  BY <1>3, Sizes0, DivMod
<1>9. Char(Plus(input.r, i)) = Cell(i)
  BY <1>2, <1>7 DEF Char, Plus, Cell
<1>10. Cell(i) \in Stored
  BY <1>1, <1>2, <1>8 DEF Cell
<1>. QED  BY <1>9, <1>10

\* What can be read, and what is being edited, cell by cell.
Seen ==
  /\ Ready \in Seq(Stored) /\ Len(Ready) = Entered
  /\ \A i \in 1 .. Entered : Ready[i] = Cell(i - 1)
  /\ Edit \in Seq(Stored) /\ Len(Edit) = Typed
  /\ \A i \in 1 .. Typed : Edit[i] = Cell(Entered + i - 1) /\ Edit[i] = Char(Plus(input.w, i - 1))

LEMMA Views == RingTypes /\ Indices => Seen
<1>. SUFFICES ASSUME RingTypes, Indices PROVE Seen
  OBVIOUS
<1>1. /\ input.r \in Word /\ input.w \in Word
      /\ Entered \in Nat /\ Typed \in Nat /\ Count \in Nat /\ UINT \in Nat
      /\ Entered + Typed = Count /\ Count <= INPUT_BUF /\ INPUT_BUF < UINT /\ INPUT_BUF \in Nat
  BY RingIs, Sizes0 DEF Indices
<1>2. ASSUME NEW i \in 1 .. Entered
      PROVE  Char(Plus(input.r, i - 1)) = Cell(i - 1) /\ Cell(i - 1) \in Stored
  <2>1. i - 1 \in Word
    BY <1>1, SMTT(30) DEF Word
  <2>. QED  BY <2>1, CellAt
<1>3. ASSUME NEW i \in 1 .. Typed
      PROVE  /\ Char(Plus(input.w, i - 1)) = Cell(Entered + i - 1)
             /\ Cell(Entered + i - 1) \in Stored
  <2>1. PICK j \in Nat : j = i - 1
    BY <1>1, SMTT(30)
  <2>2. Entered + j < UINT /\ Entered + j = Entered + i - 1
    BY <1>1, <2>1, SMTT(30)
  <2>3. Entered + j \in Word
    BY <1>1, <2>1, <2>2, SMTT(30) DEF Word
  <2>4. Plus(input.w, j) = Plus(input.r, Entered + j)
    BY <1>1, <2>2, Join DEF Entered
  <2>5. Char(Plus(input.r, Entered + j)) = Cell(Entered + j) /\ Cell(Entered + j) \in Stored
    BY <2>3, CellAt
  <2>. QED  BY <2>1, <2>2, <2>4, <2>5
<1>4. Ready = [i \in 1 .. Entered |-> Char(Plus(input.r, i - 1))]
  BY DEF Ready, Entered
<1>5. Edit = [i \in 1 .. Typed |-> Char(Plus(input.w, i - 1))]
  BY DEF Edit, Typed
<1>6. Ready \in Seq(Stored) /\ Len(Ready) = Entered /\ \A i \in 1 .. Entered : Ready[i] = Cell(i - 1)
  BY <1>1, <1>2, <1>4, SMTT(30)
<1>7. /\ Edit \in Seq(Stored) /\ Len(Edit) = Typed
      /\ \A i \in 1 .. Typed : Edit[i] = Cell(Entered + i - 1) /\ Edit[i] = Char(Plus(input.w, i - 1))
  BY <1>1, <1>3, <1>5, SMTT(30)
<1>. QED  BY <1>6, <1>7 DEF Seen

-----------------------------------------------------------------------------
(* What is done to the ring: a character is put in it, the last one is      *)
(* erased, the line is killed, and characters are taken out of it.          *)

\* The index that changes, and the distances.
LEMMA EndIs ==
  ASSUME RingTypes, Indices
  PROVE  input.e = Plus(input.r, Count) /\ Count \in Word
<1>1. input.r \in Word /\ input.e \in Word
  BY RingIs
<1>2. Count \in 0 .. UINT - 1 /\ Count = Minus(input.e, input.r) /\ Count \in 0 .. Minus(input.e, input.r)
  BY <1>1, RingIs, Sizes0, SMTT(30) DEF Count
<1>3. Plus(input.r, Count) \in Word /\ Minus(input.e, Plus(input.r, Count)) = Minus(input.e, input.r) - Count
  BY <1>1, <1>2, Walk, SMTT(30)
<1>4. Minus(input.e, Plus(input.r, Count)) = 0
  BY <1>2, <1>3, SMTT(30)
<1>. QED  BY <1>1, <1>2, <1>3, <1>4, Zero DEF Word

\* The place of the next character is the cell after the last.
LEMMA EndCell ==
  ASSUME RingTypes, Indices
  PROVE  input.e % INPUT_BUF = (input.r + Count) % INPUT_BUF
<1>1. PICK r \in 0 .. UINT - 1 : r = input.r
  BY RingIs DEF Word
<1>2. Count \in 0 .. UINT - 1 /\ r + Count \in Int
  BY RingIs, Sizes0, SMTT(30)
<1>4. ((r + Count) % UINT) % INPUT_BUF = (r + Count) % INPUT_BUF
  BY <1>2, Slot
<1>7. input.e = (r + Count) % UINT
  BY <1>1, EndIs DEF Plus
<1>. QED  BY <1>1, <1>4, <1>7

\* The ring is full with one more character exactly when consoleintr() says so.
LEMMA FullIs ==
  ASSUME RingTypes, Indices, Count < INPUT_BUF
  PROVE  /\ Plus(input.e, 1) \in Word
         /\ Minus(Plus(input.e, 1), input.r) = Count + 1
         /\ Minus(Plus(input.e, 1), input.w) = Typed + 1
         /\ Plus(input.e, 1) = Plus(input.r, INPUT_BUF) <=> Count + 1 = INPUT_BUF
<1>1. /\ input.r \in Word /\ input.w \in Word /\ input.e \in Word /\ Count \in Nat /\ Typed \in Nat
      /\ Typed <= Count /\ INPUT_BUF < UINT /\ INPUT_BUF \in Nat /\ UINT \in Nat
  BY RingIs, Sizes0
<1>2. Count + 1 < UINT /\ Typed + 1 < UINT
  BY <1>1, SMTT(30)
<1>3. PICK f \in Word : f = Plus(input.e, 1) /\ Minus(f, input.r) = Count + 1 /\ Minus(f, input.w) = Typed + 1
  BY <1>1, <1>2, Further DEF Count, Typed
<1>4. INPUT_BUF \in Word
  BY <1>1, SMTT(30) DEF Word
<1>5. Minus(Plus(input.r, INPUT_BUF), input.r) = INPUT_BUF /\ Plus(input.r, INPUT_BUF) \in Word
  BY <1>1, <1>4, Back
<1>6. f = Plus(input.r, INPUT_BUF) => Count + 1 = INPUT_BUF
  BY <1>3, <1>5
<1>7. Count + 1 = INPUT_BUF => f = Plus(input.r, INPUT_BUF)
  <2>. SUFFICES ASSUME Count + 1 = INPUT_BUF PROVE f = Plus(input.r, INPUT_BUF)
    OBVIOUS
  <2>1. INPUT_BUF \in 0 .. Minus(f, input.r)
    BY <1>1, <1>3, SMTT(30)
  <2>2. Minus(f, Plus(input.r, INPUT_BUF)) = Minus(f, input.r) - INPUT_BUF
    BY <1>1, <2>1, Walk, SMTT(30)
  <2>3. Minus(f, Plus(input.r, INPUT_BUF)) = 0
    BY <1>1, <1>3, <2>2, SMTT(30)
  <2>. QED  BY <1>5, <2>3, Zero
<1>. QED  BY <1>3, <1>6, <1>7

\* A character is put in the ring: the cells before it stay.
Puts(c, x, y) == input' = [input EXCEPT !.buf[input.e % INPUT_BUF] = c, !.e = x, !.w = y]

LEMMA PutCells ==
  ASSUME RingTypes, Indices, Count < INPUT_BUF, NEW n, n = Count,
         NEW c \in Stored, NEW x \in Word, NEW y \in Word,
         Puts(c, x, y)
  PROVE  /\ input'.r = input.r /\ input'.e = x /\ input'.w = y
         /\ RingTypes'
         /\ \A i \in 0 .. n - 1 : Cell(i)' = Cell(i)
         /\ Cell(n)' = c
<1>1. /\ input.r \in Word /\ input.e \in Word /\ input.buf \in [0 .. INPUT_BUF - 1 -> Stored]
      /\ n \in Nat /\ n < INPUT_BUF /\ INPUT_BUF \in Nat \ {0}
  BY RingIs, Sizes0
<1>2. input \in [buf : [0 .. INPUT_BUF - 1 -> Stored], r : Word, w : Word, e : Word]
  BY DEF RingTypes
<1>3. PICK r \in Nat : r = input.r
  BY <1>1, SMTT(30) DEF Word
<1>4. PICK k \in 0 .. INPUT_BUF - 1 : k = (r + n) % INPUT_BUF
  <2>1. r + n \in Int
    BY <1>1, <1>3, SMTT(30)
  <2>. QED  BY <1>1, <2>1, DivMod
<1>5. input.e % INPUT_BUF = k
  BY <1>3, <1>4, EndCell
<1>6. input' = [input EXCEPT !.buf[k] = c, !.e = x, !.w = y]
  BY <1>5 DEF Puts
<1>7. /\ input'.r = input.r /\ input'.e = x /\ input'.w = y
      /\ input'.buf = [input.buf EXCEPT ![k] = c]
  BY <1>2, <1>6
<1>8. RingTypes'
  <2>1. [input.buf EXCEPT ![k] = c] \in [0 .. INPUT_BUF - 1 -> Stored]
    BY <1>1
  <2>2. input' = [buf |-> [input.buf EXCEPT ![k] = c], r |-> input.r, w |-> y, e |-> x]
    BY <1>2, <1>6
  <2>. QED  BY <1>1, <2>1, <2>2 DEF RingTypes
<1>9. ASSUME NEW i \in 0 .. n - 1 PROVE Cell(i)' = Cell(i)
  <2>1. r + i \in Int /\ r + n \in Int /\ r + i < r + n /\ r + n < (r + i) + INPUT_BUF
    BY <1>1, SMTT(30)
  <2>2. (r + i) % INPUT_BUF # (r + n) % INPUT_BUF
    BY <1>1, <2>1, ModDiff
  <2>3. (r + i) % INPUT_BUF \in 0 .. INPUT_BUF - 1
    BY <1>1, <2>1, DivMod
  <2>4. input'.buf[(r + i) % INPUT_BUF] = input.buf[(r + i) % INPUT_BUF]
    BY <1>1, <1>4, <1>7, <2>2, <2>3
  <2>. QED  BY <1>3, <1>7, <2>4 DEF Cell
<1>10. Cell(n)' = c
  BY <1>1, <1>3, <1>4, <1>7 DEF Cell
<1>. QED  BY <1>7, <1>8, <1>9, <1>10

\* consoleintr() stores a character.
LEMMA PutRing ==
  ASSUME RingTypes, Indices, NoEnds, Count < INPUT_BUF, NEW c \in Letters \cup Ends,
         NEW x, NEW y, x = Plus(input.e, 1), y = IF Enters(c) THEN x ELSE input.w,
         Puts(c, x, y)
  PROVE  /\ RingTypes' /\ Indices' /\ NoEnds' /\ input'.r = input.r
         /\ Enters(c) => Ready' = Ready \o Append(Edit, c) /\ Edit' = <<>>
         /\ ~Enters(c) => Ready' = Ready /\ Edit' = Append(Edit, c) /\ input'.w = input.w
         /\ Enters(c) <=> c \in Ends \/ Entered + Typed + 1 = INPUT_BUF
<1>1. /\ input.r \in Word /\ input.w \in Word /\ input.e \in Word
      /\ Entered \in Nat /\ Typed \in Nat /\ Count \in Nat /\ UINT \in Nat
      /\ Entered + Typed = Count /\ Count <= INPUT_BUF /\ INPUT_BUF < UINT /\ INPUT_BUF \in Nat
  BY RingIs, Sizes0 DEF Indices
<1>2. PICK u \in Nat, v \in Nat, n \in Nat : u = Entered /\ v = Typed /\ n = Count /\ u + v = n
  BY <1>1
<1>3. /\ x \in Word /\ Minus(x, input.r) = n + 1 /\ Minus(x, input.w) = v + 1
      /\ x = Plus(input.r, INPUT_BUF) <=> n + 1 = INPUT_BUF
  BY <1>2, FullIs
<1>4. x \in Word /\ y \in Word /\ n = Count
  BY <1>1, <1>2, <1>3
<1>5. c \in Stored
  BY DEF Stored
<1>7. /\ input'.r = input.r /\ input'.e = x /\ input'.w = y /\ RingTypes'
      /\ \A i \in 0 .. n - 1 : Cell(i)' = Cell(i)
      /\ Cell(n)' = c
  BY <1>4, <1>5, PutCells
<1>8. Enters(c) <=> c \in Ends \/ n + 1 = INPUT_BUF
  BY <1>3 DEF Enters
<1>9. Count' = n + 1
  BY <1>3, <1>7 DEF Count
<1>10. Seen
  BY Views
<1>11. CASE Enters(c)
  <2>1. Minus(x, x) = 0
    BY <1>4, Zero
  <2>2. Entered' = n + 1 /\ Typed' = 0 /\ input'.w = input'.e
    BY <1>3, <1>4, <1>7, <1>11, <2>1 DEF Entered, Typed
  <2>3. Indices'
    BY <1>1, <1>2, <1>9, <2>2, SMTT(30) DEF Indices
  <2>4. Seen'
    BY <1>7, <2>3, Views, PTL
  <2>5. Edit' = <<>>
    BY <2>2, <2>4, SMTT(30) DEF Seen
  <2>6. NoEnds'
    BY <2>2, SMTT(30) DEF NoEnds
  <2>7. Ready' = Ready \o Append(Edit, c)
    <3>. DEFINE t == Append(Edit, c)
    <3>1. t \in Seq(Stored) /\ Len(t) = v + 1 /\ t[v + 1] = c /\ \A j \in 1 .. v : t[j] = Edit[j]
      BY <1>2, <1>5, <1>10, SMTT(30) DEF Seen
    <3>2. Ready \in Seq(Stored) /\ Len(Ready) = u /\ Ready' \in Seq(Stored) /\ Len(Ready') = u + (v + 1)
      BY <1>2, <1>10, <2>2, <2>4, SMTT(30) DEF Seen
    <3>3. ASSUME NEW i \in 1 .. u PROVE Ready'[i] = Ready[i]
      <4>1. i \in 1 .. n + 1 /\ i - 1 \in 0 .. n - 1
        BY <1>2, SMTT(30)
      <4>2. Ready'[i] = Cell(i - 1)' /\ Ready[i] = Cell(i - 1)
        BY <1>2, <1>10, <2>2, <2>4, <4>1 DEF Seen
      <4>. QED  BY <1>7, <4>1, <4>2
    <3>4. ASSUME NEW j \in 1 .. v + 1 PROVE Ready'[u + j] = t[j]
      <4>1. PICK k \in Nat : k = u + j - 1 /\ u + j \in 1 .. n + 1 /\ (u + j) - 1 = k
        BY <1>2, SMTT(30)
      <4>2. Ready'[u + j] = Cell(k)'
        BY <2>2, <2>4, <4>1 DEF Seen
      <4>3. CASE j = v + 1
        <5>1. k = n
          BY <1>2, <4>1, <4>3, SMTT(30)
        <5>. QED  BY <1>7, <3>1, <4>2, <4>3, <5>1
      <4>4. CASE j # v + 1
        <5>1. j \in 1 .. v /\ k \in 0 .. n - 1
          <6>1. u + v = n
            BY <1>2
          <6>. QED  BY <4>1, <4>4, <6>1, SMTT(30)
        <5>2. Edit[j] = Cell(k)
          BY <1>2, <1>10, <4>1, <5>1 DEF Seen
        <5>. QED  BY <1>7, <3>1, <4>2, <5>1, <5>2
      <4>. QED  BY <4>3, <4>4
    <3>. HIDE DEF t
    <3>5. /\ Len(Ready') = Len(Ready) + Len(t)
          /\ \A i \in 1 .. Len(Ready) : Ready'[i] = Ready[i]
          /\ \A j \in 1 .. Len(t) : Ready'[Len(Ready) + j] = t[j]
      BY <3>1, <3>2, <3>3, <3>4
    <3>6. t \in Seq(Stored) /\ Ready \in Seq(Stored) /\ Ready' \in Seq(Stored)
      BY <3>1, <3>2
    <3>7. Ready' = Ready \o t
      BY <3>5, <3>6, IsConcat
    <3>. QED  BY <3>7 DEF t
  <2>. QED  BY <1>2, <1>7, <1>8, <1>11, <2>3, <2>5, <2>6, <2>7
<1>12. CASE ~Enters(c)
  <2>1. Entered' = u /\ Typed' = v + 1 /\ input'.w = input.w
    BY <1>2, <1>3, <1>4, <1>7, <1>12 DEF Entered, Typed
  <2>2. n + 1 # INPUT_BUF /\ n < INPUT_BUF
    BY <1>2, <1>8, <1>12
  <2>3. Indices'
    BY <1>1, <1>2, <1>9, <2>1, <2>2, SMTT(30) DEF Indices
  <2>4. Seen'
    BY <1>7, <2>3, Views, PTL
  <2>5. Ready' = Ready
    <3>1. Ready \in Seq(Stored) /\ Len(Ready) = u /\ Ready' \in Seq(Stored) /\ Len(Ready') = u
      BY <1>2, <1>10, <2>1, <2>4 DEF Seen
    <3>2. ASSUME NEW i \in 1 .. u PROVE Ready'[i] = Ready[i]
      <4>1. i - 1 \in 0 .. n - 1
        BY <1>2, SMTT(30)
      <4>2. Ready'[i] = Cell(i - 1)' /\ Ready[i] = Cell(i - 1)
        BY <1>2, <1>10, <2>1, <2>4 DEF Seen
      <4>. QED  BY <1>7, <4>1, <4>2
    <3>. QED  BY <3>1, <3>2, SameSeq
  <2>6. Edit' = Append(Edit, c)
    <3>. DEFINE t == Append(Edit, c)
    <3>1. t \in Seq(Stored) /\ Len(t) = v + 1 /\ t[v + 1] = c /\ \A j \in 1 .. v : t[j] = Edit[j]
      BY <1>2, <1>5, <1>10, SMTT(30) DEF Seen
    <3>2. Edit' \in Seq(Stored) /\ Len(Edit') = v + 1
      BY <2>1, <2>4 DEF Seen
    <3>3. ASSUME NEW j \in 1 .. v + 1 PROVE Edit'[j] = t[j]
      <4>1. PICK k \in Nat : k = u + j - 1
        BY <1>2, SMTT(30)
      <4>2. Edit'[j] = Cell(k)'
        BY <2>1, <2>4, <4>1 DEF Seen
      <4>3. CASE j = v + 1
        <5>1. k = n
          BY <1>2, <4>1, <4>3, SMTT(30)
        <5>. QED  BY <1>7, <3>1, <4>2, <4>3, <5>1
      <4>4. CASE j # v + 1
        <5>1. j \in 1 .. v /\ k \in 0 .. n - 1
          <6>1. u + v = n
            BY <1>2
          <6>. QED  BY <4>1, <4>4, <6>1, SMTT(30)
        <5>2. Edit[j] = Cell(k)
          BY <1>2, <1>10, <4>1, <5>1 DEF Seen
        <5>. QED  BY <1>7, <3>1, <4>2, <5>1, <5>2
      <4>. QED  BY <4>3, <4>4
    <3>. HIDE DEF t
    <3>4. Edit' = t
      BY <3>1, <3>2, <3>3, SameSeq
    <3>. QED  BY <3>4 DEF t
  <2>7. NoEnds'
    <3>1. c \in Letters
      BY <1>8, <1>12
    <3>2. \A j \in 1 .. v + 1 : Edit'[j] = IF j = v + 1 THEN c ELSE Edit[j]
      BY <1>2, <1>5, <1>10, <2>6, SMTT(30) DEF Seen
    <3>3. \A j \in 1 .. v : Edit[j] \in Letters
      BY <1>2 DEF NoEnds
    <3>. QED  BY <1>2, <2>1, <3>1, <3>2, <3>3, SMTT(30) DEF NoEnds
  <2>. QED  BY <1>2, <1>7, <1>8, <1>12, <2>1, <2>3, <2>5, <2>6, <2>7
<1>. QED  BY <1>11, <1>12

\* input.e moves back to a place k steps after input.w.
LEMMA CutRing ==
  ASSUME RingTypes, Indices, NoEnds, NEW k \in 0 .. Typed,
         input' = [input EXCEPT !.e = Plus(input.w, k)]
  PROVE  /\ RingTypes' /\ Indices' /\ NoEnds' /\ input'.r = input.r /\ input'.w = input.w
         /\ Ready' = Ready /\ Edit' = SubSeq(Edit, 1, k)
<1>1. /\ input.r \in Word /\ input.w \in Word /\ input.e \in Word
      /\ Entered \in Nat /\ Typed \in Nat /\ Count \in Nat /\ UINT \in Nat
      /\ Entered + Typed = Count /\ Count <= INPUT_BUF /\ INPUT_BUF < UINT /\ INPUT_BUF \in Nat
  BY RingIs, Sizes0 DEF Indices
<1>2. PICK u \in Nat, v \in Nat, n \in Nat : u = Entered /\ v = Typed /\ n = Count /\ u + v = n
  BY <1>1
<1>3. k \in Nat /\ k <= v /\ u + k < UINT /\ u + k \in Word /\ k \in Word
  BY <1>1, <1>2, SMTT(30) DEF Word
<1>4. PICK x \in Word : x = Plus(input.w, k) /\ Minus(x, input.w) = k
  BY <1>1, <1>3, Back
<1>5. Minus(x, input.r) = u + k
  <2>1. x = Plus(input.r, u + k)
    BY <1>1, <1>2, <1>3, <1>4, Join, SMTT(30) DEF Entered
  <2>. QED  BY <1>1, <1>3, <2>1, Back
<1>6. /\ input'.buf = input.buf /\ input'.r = input.r /\ input'.w = input.w /\ input'.e = x
      /\ RingTypes'
  BY <1>4 DEF RingTypes
<1>7. Entered' = u /\ Typed' = k /\ Count' = u + k
  BY <1>2, <1>4, <1>5, <1>6 DEF Entered, Typed, Count
<1>8. Indices'
  <2>1. u + k = INPUT_BUF => x = input.e
    <3>. SUFFICES ASSUME u + k = INPUT_BUF PROVE x = input.e
      OBVIOUS
    <3>1. n = INPUT_BUF /\ k = v
      BY <1>1, <1>2, <1>3, SMTT(30)
    <3>2. Count = INPUT_BUF /\ Typed = 0
      BY <1>1, <1>2, <3>1, Zero DEF Indices, Typed
    <3>3. k = 0 /\ input.w = input.e
      BY <1>2, <3>1, <3>2 DEF Indices
    <3>. QED  BY <1>1, <1>4, <3>3, Zero
  <2>2. u + k = INPUT_BUF => input.w = x
    <3>. SUFFICES ASSUME u + k = INPUT_BUF PROVE input.w = x
      OBVIOUS
    <3>1. Count = INPUT_BUF
      BY <1>1, <1>2, <1>3, SMTT(30)
    <3>. QED  BY <2>1, <3>1 DEF Indices
  <2>. QED  BY <1>1, <1>2, <1>3, <1>6, <1>7, <2>2, SMTT(30) DEF Indices
<1>9. Seen
  BY Views
<1>10. Seen'
  BY <1>6, <1>8, Views, PTL
<1>11. \A i : Cell(i)' = Cell(i)
  BY <1>6 DEF Cell
<1>12. Ready' = Ready
  <2>1. Ready \in Seq(Stored) /\ Len(Ready) = u /\ Ready' \in Seq(Stored) /\ Len(Ready') = u
    BY <1>2, <1>7, <1>9, <1>10 DEF Seen
  <2>2. \A i \in 1 .. u : Ready'[i] = Ready[i]
    BY <1>2, <1>7, <1>9, <1>10, <1>11 DEF Seen
  <2>. QED  BY <2>1, <2>2, SameSeq
<1>13. \A i \in 1 .. k : Edit'[i] = Edit[i]
  <2>1. ASSUME NEW i \in 1 .. k PROVE Edit'[i] = Edit[i]
    <3>1. i \in 1 .. v
      BY <1>2, <1>3, SMTT(30)
    <3>2. Edit[i] = Char(Plus(input.w, i - 1)) /\ Edit'[i] = Char(Plus(input.w, i - 1))'
      BY <1>2, <1>7, <1>9, <1>10, <3>1 DEF Seen
    <3>. QED  BY <1>6, <3>2 DEF Char
  <2>. QED  BY <2>1
<1>14. Edit' = SubSeq(Edit, 1, k)
  <2>1. Edit \in Seq(Stored) /\ Len(Edit) = v /\ Edit' \in Seq(Stored) /\ Len(Edit') = k
    BY <1>2, <1>7, <1>9, <1>10 DEF Seen
  <2>2. PICK m \in Nat : m = 0
    OBVIOUS
  <2>3. m <= k /\ k <= Len(Edit) /\ Len(Edit') = k - m /\ m + 1 = 1
    BY <1>3, <2>1, <2>2, SMTT(30)
  <2>4. \A i \in 1 .. k - m : Edit'[i] = Edit[m + i]
    BY <1>3, <1>13, <2>2, SMTT(30)
  <2>5. Edit' = SubSeq(Edit, m + 1, k)
    BY <1>3, <2>1, <2>3, <2>4, IsSubSeq
  <2>. QED  BY <2>3, <2>5
<1>15. NoEnds'
  BY <1>2, <1>3, <1>7, <1>13, SMTT(30) DEF NoEnds
<1>. QED  BY <1>6, <1>8, <1>12, <1>14, <1>15

\* consoleread() takes the first k of the characters that are ready.
LEMMA TakeRing ==
  ASSUME RingTypes, Indices, NoEnds, NEW k \in 0 .. Entered,
         input' = [input EXCEPT !.r = Plus(input.r, k)]
  PROVE  /\ RingTypes' /\ Indices' /\ NoEnds' /\ input'.w = input.w
         /\ Ready' = SubSeq(Ready, k + 1, Len(Ready)) /\ Edit' = Edit
<1>1. /\ input.r \in Word /\ input.w \in Word /\ input.e \in Word
      /\ Entered \in Nat /\ Typed \in Nat /\ Count \in Nat /\ UINT \in Nat
      /\ Entered + Typed = Count /\ Count <= INPUT_BUF /\ INPUT_BUF < UINT /\ INPUT_BUF \in Nat
  BY RingIs, Sizes0 DEF Indices
<1>2. PICK u \in Nat, v \in Nat, n \in Nat : u = Entered /\ v = Typed /\ n = Count /\ u + v = n
  BY <1>1
<1>3. k \in Nat /\ k <= u /\ k \in 0 .. Minus(input.w, input.r) /\ k \in 0 .. Minus(input.e, input.r)
  BY <1>1, <1>2, SMTT(30) DEF Entered, Count
<1>4. PICK x \in Word : /\ x = Plus(input.r, k) /\ Minus(x, input.r) = k
                        /\ Minus(input.w, x) = u - k /\ Minus(input.e, x) = n - k
  BY <1>1, <1>2, <1>3, Walk, SMTT(30) DEF Entered, Count
<1>5. /\ input'.buf = input.buf /\ input'.r = x /\ input'.w = input.w /\ input'.e = input.e
      /\ RingTypes'
  BY <1>4 DEF RingTypes
<1>6. Entered' = u - k /\ Typed' = v /\ Count' = n - k
  BY <1>2, <1>4, <1>5 DEF Entered, Typed, Count
<1>7. Indices'
  <2>1. n - k = INPUT_BUF => Count = INPUT_BUF
    BY <1>1, <1>2, <1>3, SMTT(30)
  <2>2. n - k = INPUT_BUF => input.w = input.e
    BY <2>1 DEF Indices
  <2>. QED  BY <1>1, <1>2, <1>3, <1>5, <1>6, <2>2, SMTT(30) DEF Indices
<1>8. Seen
  BY Views
<1>9. Seen'
  BY <1>5, <1>7, Views, PTL
<1>10. \A i : Char(i)' = Char(i)
  BY <1>5 DEF Char
<1>11. Edit' = Edit
  BY <1>5, <1>10, SMTT(30) DEF Edit
<1>12. NoEnds'
  BY <1>2, <1>6, <1>11 DEF NoEnds
<1>13. Ready' = SubSeq(Ready, k + 1, Len(Ready))
  <2>1. Ready \in Seq(Stored) /\ Len(Ready) = u /\ Ready' \in Seq(Stored) /\ Len(Ready') = u - k
    BY <1>2, <1>6, <1>8, <1>9 DEF Seen
  <2>2. ASSUME NEW i \in 1 .. u - k PROVE Ready'[i] = Ready[k + i]
    <3>1. PICK j \in Nat : j = i - 1 /\ k + j < UINT /\ k + j = (k + i) - 1 /\ k + i \in 1 .. u
      BY <1>1, <1>2, <1>3, SMTT(30)
    <3>2. Ready'[i] = Char(Plus(x, j))
      BY <1>4, <1>5, <1>6, <1>10, <3>1 DEF Ready, Entered
    <3>3. Ready[k + i] = Char(Plus(input.r, k + j))
      BY <1>2, <3>1 DEF Ready, Entered
    <3>4. Plus(x, j) = Plus(input.r, k + j)
      BY <1>1, <1>4, <3>1, Join, SMTT(30)
    <3>. QED  BY <3>2, <3>3, <3>4
  <2>3. k <= u /\ u <= Len(Ready)
    BY <1>3, <2>1, SMTT(30)
  <2>4. Ready' = SubSeq(Ready, k + 1, u)
    BY <1>3, <2>1, <2>2, <2>3, IsSubSeq
  <2>. QED  BY <2>1, <2>4
<1>. QED  BY <1>5, <1>7, <1>11, <1>12, <1>13

-----------------------------------------------------------------------------
(* consoleread() and consoleintr().                                         *)

\* A set of numbers that is not empty has a least one.
LEMMA LeastIs ==
  ASSUME NEW S \in SUBSET Nat, S # {}
  PROVE  Least(S) \in S /\ \A j \in S : Least(S) <= j
<1>. DEFINE R == OpToRel(<, Nat)
<1>1. IsWellFoundedOn(R, Nat)
  BY NatLessThanWellFounded
<1>2. \A x, y \in Nat : x < y => <<x, y>> \in R
  BY DEF OpToRel
<1>. HIDE DEF R
<1>3. PICK i \in S : \A j \in S : ~(<<j, i>> \in R)
  BY <1>1, WFMin
<1>4. ASSUME NEW j \in S PROVE i <= j
  <2>1. ~(j < i)
    BY <1>2, <1>3
  <2>. QED  BY <2>1, SMTT(30)
<1>. QED  BY <1>4 DEF Least

-----------------------------------------------------------------------------
(* The characters kbdgetc() gives.                                          *)

LEMMA SwappedIs ==
  ASSUME NEW c
  PROVE  Swapped(c) \subseteq Letters
<1>1. \A x \in Cases : x[1] \in Letters /\ x[2] \in Letters
  BY SMTT(30) DEF Cases, Letters
<1>. QED  BY <1>1 DEF Swapped

LEMMA KbdChars ==
  ASSUME NEW s, NEW d
  PROVE  kbdgetc(s, d).c \in Chars
<1>. DEFINE t == Down(s, Code(s, d))
            c == charcode(t, Code(s, d))
<1>1. c \in Chars
  BY DEF charcode, ctlmap, shiftmap, normalmap, Chars, Letters, Ends
<1>2. Caps(c) \in Chars
  BY <1>1, SwappedIs DEF Caps, Chars
<1>3. "NO" \in Chars
  BY DEF Chars
<1>. QED  BY <1>1, <1>2, <1>3 DEF kbdgetc

-----------------------------------------------------------------------------
(* consoleintr(), consoleread() and the readers.                            *)

\* Who is about to sleep in consoleread() holds the lock, and there is nothing to read
\* for it or for who sleeps.
Readers ==
  \A p \in Proc : /\ In(p, "read", "falling") => inputlock = p
                  /\ In(p, "read", "falling") \/ In(p, "read", "asleep") => input.r = input.w

Console == RingTypes /\ Indices /\ NoEnds /\ Readers

LEMMA KillLineIs ==
  ASSUME RingTypes, Indices, NoEnds
  PROVE  KillLine = Plus(input.w, 0)
<1>. DEFINE K == {k \in 0 .. Minus(input.e, input.w) :
                    \A i \in 1 .. k : Char(Minus(input.e, i)) # "nl"}
<1>1. /\ input.w \in Word /\ input.e \in Word /\ Typed \in Nat /\ Typed = Minus(input.e, input.w)
  BY RingIs DEF Typed
<1>2. ASSUME NEW i \in 1 .. Typed PROVE Char(Minus(input.e, i)) # "nl"
  <2>1. PICK j \in 1 .. Typed : j = Typed - i + 1 /\ Typed - i = j - 1
    BY <1>1, SMTT(30)
  <2>2. i \in 0 .. Minus(input.e, input.w)
    BY <1>1, SMTT(30)
  <2>3. Minus(input.e, i) = Plus(input.w, Minus(input.e, input.w) - i)
    BY <1>1, <2>2, Walk, SMTT(30)
  <2>4. Minus(input.e, i) = Plus(input.w, j - 1)
    BY <1>1, <2>1, <2>3
  <2>5. Edit[j] = Char(Plus(input.w, j - 1)) /\ Edit[j] \in Letters
    BY <2>1, Views DEF Seen, NoEnds
  <2>. QED  BY <2>4, <2>5 DEF Letters
<1>3. K = 0 .. Typed
  BY <1>1, <1>2, SMTT(30)
<1>4. PICK m : m = CHOOSE k \in K : \A j \in K : j <= k
  OBVIOUS
<1>5. m = Typed
  <2>1. Typed \in K /\ \A j \in K : j <= Typed
    BY <1>1, <1>3, SMTT(30)
  <2>2. m \in K /\ \A j \in K : j <= m
    BY <1>4, <2>1
  <2>. QED  BY <1>1, <1>3, <2>1, <2>2, SMTT(30)
<1>6. KillLine = Minus(input.e, m)
  BY <1>4 DEF KillLine
<1>7. Typed \in 0 .. Minus(input.e, input.w) /\ Minus(input.e, input.w) - Typed = 0
  BY <1>1, SMTT(30)
<1>8. Minus(input.e, Typed) = Plus(input.w, Minus(input.e, input.w) - Typed)
  BY <1>1, <1>7, Walk, SMTT(30)
<1>. QED  BY <1>5, <1>6, <1>7, <1>8

\* The three things a character does, in terms of the abstract console.
LEMMA IntrConsole ==
  ASSUME Types, Console, NEW c \in Chars, consoleintr(c)
  PROVE  Console' /\ [Lines!Next]_<<Ready, Edit>>
<1>. DEFINE Goal == Console' /\ [Lines!Next]_<<Ready, Edit>>
<1>1. inputlock = Free /\ inputlock' = inputlock /\ \A p \in Proc : ~In(p, "read", "falling")
  BY DevicesAssumption DEF consoleintr, Console, Readers
<1>2. /\ input.r \in Word /\ input.w \in Word /\ input.e \in Word
      /\ Entered \in Nat /\ Typed \in Nat /\ Count \in Nat /\ Seen
      /\ Entered + Typed = Count /\ Count <= INPUT_BUF /\ INPUT_BUF \in Nat
  BY RingIs, Views, Sizes0 DEF Indices, Console
<1>3. ASSUME UNCHANGED <<input, proc>> PROVE Goal
  <2>1. Ready' = Ready /\ Edit' = Edit
    BY <1>3 DEF Ready, Edit, Char
  <2>2. Console'
    BY <1>1, <1>3 DEF Console, RingTypes, Indices, NoEnds, Readers, In, Entered, Typed, Count, Edit, Char
  <2>. QED  BY <2>1, <2>2
<1>4. ASSUME NEW k \in 0 .. Typed, input' = [input EXCEPT !.e = Plus(input.w, k)], proc' = proc
      PROVE  /\ Console' /\ Ready' = Ready /\ Edit' = SubSeq(Edit, 1, k)
  <2>1. /\ RingTypes' /\ Indices' /\ NoEnds' /\ input'.r = input.r /\ input'.w = input.w
        /\ Ready' = Ready /\ Edit' = SubSeq(Edit, 1, k)
    BY <1>4, CutRing DEF Console
  <2>2. Readers'
    BY <1>1, <1>4, <2>1 DEF Console, Readers, In
  <2>. QED  BY <2>1, <2>2 DEF Console
<1>5. Edit # <<>> <=> Typed # 0
  BY <1>2, SMTT(30) DEF Seen
<1>6. CASE c = "^P"
  BY <1>3, <1>6 DEF consoleintr
<1>7. CASE c = "^U"
  <2>1. input' = [input EXCEPT !.e = Plus(input.w, 0)] /\ proc' = proc /\ 0 \in 0 .. Typed
    BY <1>2, <1>7, KillLineIs, SMTT(30) DEF consoleintr, Console
  <2>2. Console' /\ Ready' = Ready /\ Edit' = SubSeq(Edit, 1, 0)
    BY <1>4, <2>1
  <2>3. SubSeq(Edit, 1, 0) = <<>>
    BY SMTT(30)
  <2>4. CASE Edit = <<>>
    BY <2>2, <2>3, <2>4
  <2>5. CASE Edit # <<>>
    BY <2>2, <2>3, <2>5 DEF Lines!Next, Lines!KillLine
  <2>. QED  BY <2>4, <2>5
<1>8. CASE c = "^H"
  <2>1. proc' = proc /\ input' = [input EXCEPT !.e = IF @ # input.w THEN Minus(@, 1) ELSE @]
    BY <1>8 DEF consoleintr
  <2>2. CASE input.e = input.w
    <3>1. input' = input
      BY <2>1, <2>2 DEF Console, RingTypes
    <3>. QED  BY <1>3, <2>1, <3>1
  <2>3. CASE input.e # input.w
    <3>1. Typed # 0 /\ Typed = Minus(input.e, input.w)
      BY <1>2, <2>3, Zero DEF Typed
    <3>2. 1 \in 0 .. Minus(input.e, input.w) /\ Typed - 1 \in 0 .. Typed
      BY <1>2, <3>1, SMTT(30)
    <3>3. Minus(input.e, 1) = Plus(input.w, Typed - 1)
      BY <1>2, <3>1, <3>2, Walk, SMTT(30)
    <3>4. input' = [input EXCEPT !.e = Plus(input.w, Typed - 1)]
      BY <2>1, <2>3, <3>3 DEF Console, RingTypes
    <3>5. Console' /\ Ready' = Ready /\ Edit' = SubSeq(Edit, 1, Typed - 1)
      BY <1>4, <2>1, <3>2, <3>4
    <3>6. Edit # <<>> /\ Len(Edit) = Typed
      BY <1>2, <1>5, <3>1 DEF Seen
    <3>. QED  BY <3>5, <3>6 DEF Lines!Next, Lines!Erase
  <2>. QED  BY <2>2, <2>3
<1>9. CASE c \notin {"^P", "^U", "^H"}
  <2>1. PICK d : d = IF c = "cr" THEN "nl" ELSE c
    OBVIOUS
  <2>2. Store(d) /\ d \in Letters \cup Ends \cup {"NO"} /\ "NO" \notin Letters \cup Ends
    BY <1>9, <2>1 DEF consoleintr, Chars, Letters, Ends
  <2>3. CASE ~(d # "NO" /\ Count < INPUT_BUF)
    <3>1. UNCHANGED <<input, proc>>
      BY <2>2, <2>3 DEF Store, Count
    <3>. QED  BY <1>3, <3>1
  <2>4. CASE d # "NO" /\ Count < INPUT_BUF
    <3>1. d \in Letters \cup Ends
      BY <2>2, <2>4
    <3>2. PICK x, y : x = Plus(input.e, 1) /\ y = IF Enters(d) THEN x ELSE input.w
      OBVIOUS
    <3>3. Puts(d, x, y) /\ proc' = IF Enters(d) THEN Woken("read") ELSE proc
      BY <2>2, <2>4, <3>2 DEF Store, Count, Puts, Console, RingTypes
    <3>4. /\ RingTypes' /\ Indices' /\ NoEnds' /\ input'.r = input.r
          /\ Enters(d) => Ready' = Ready \o Append(Edit, d) /\ Edit' = <<>>
          /\ ~Enters(d) => Ready' = Ready /\ Edit' = Append(Edit, d) /\ input'.w = input.w
          /\ Enters(d) <=> d \in Ends \/ Entered + Typed + 1 = INPUT_BUF
      BY <2>4, <3>1, <3>2, <3>3, PutRing DEF Console
    <3>5. Len(Ready) = Entered /\ Len(Edit) = Typed
      BY <1>2 DEF Seen
    <3>6. CASE Enters(d)
      <4>1. Lines!Enter
        BY <1>2, <2>4, <3>1, <3>4, <3>5, <3>6 DEF Lines!Enter, Lines!Room
      <4>2. \A p \in Proc : ~In(p, "read", "falling")' /\ ~In(p, "read", "asleep")'
        <5>1. ASSUME NEW p \in Proc PROVE ~In(p, "read", "falling")' /\ ~In(p, "read", "asleep")'
          <6>1. CASE proc[p].call = "read" /\ proc[p].state = "asleep"
            <7>1. proc'[p] = [proc[p] EXCEPT !.state = "run"] /\ proc[p] \in ProcState
              BY <3>3, <3>6, <6>1 DEF Woken, Types
            <7>. QED  BY <7>1 DEF ProcState, In
          <6>2. CASE ~(proc[p].call = "read" /\ proc[p].state = "asleep")
            <7>1. proc'[p] = proc[p]
              BY <3>3, <3>6, <6>2 DEF Woken
            <7>. QED  BY <1>1, <6>2, <7>1 DEF In
          <6>. QED  BY <6>1, <6>2
        <5>. QED  BY <5>1
      <4>3. Readers'
        BY <4>2 DEF Readers
      <4>. QED  BY <3>4, <4>1, <4>3 DEF Console, Lines!Next
    <3>7. CASE ~Enters(d)
      <4>1. Lines!Type
        <5>1. d \in Letters /\ Len(Ready) + Len(Edit) + 1 < INPUT_BUF
          BY <1>2, <2>4, <3>1, <3>4, <3>5, <3>7, SMTT(30)
        <5>. QED  BY <3>4, <3>7, <5>1 DEF Lines!Type
      <4>2. Readers'
        BY <1>1, <3>3, <3>4, <3>7 DEF Console, Readers, In
      <4>. QED  BY <3>4, <4>1, <4>2 DEF Console, Lines!Next
    <3>. QED  BY <3>6, <3>7
  <2>. QED  BY <2>3, <2>4
<1>. QED  BY <1>6, <1>7, <1>8, <1>9

\* Taking k characters of which only the last may end a line.
LEMMA TakeConsole ==
  ASSUME RingTypes, Indices, NoEnds, NEW k \in 0 .. Entered,
         input' = [input EXCEPT !.r = Plus(input.r, k)],
         \A i \in 1 .. k - 1 : Ready[i] \notin Ends
  PROVE  /\ RingTypes' /\ Indices' /\ NoEnds' /\ input'.w = input.w
         /\ [Lines!Next]_<<Ready, Edit>>
<1>1. Entered \in Nat /\ Len(Ready) = Entered /\ Ready \in Seq(Stored)
  BY RingIs, Views DEF Seen
<1>2. /\ RingTypes' /\ Indices' /\ NoEnds' /\ input'.w = input.w
      /\ Ready' = SubSeq(Ready, k + 1, Len(Ready)) /\ Edit' = Edit
  BY TakeRing
<1>3. CASE k = 0
  <2>1. SubSeq(Ready, 1, Len(Ready)) = Ready
    BY <1>1, SMTT(30)
  <2>. QED  BY <1>2, <1>3, <2>1, SMTT(30)
<1>4. CASE k # 0
  <2>1. k \in 1 .. Len(Ready)
    BY <1>1, <1>4, SMTT(30)
  <2>2. Lines!Take
    BY <1>2, <2>1 DEF Lines!Take
  <2>. QED  BY <1>2, <2>2 DEF Lines!Next
<1>. QED  BY <1>3, <1>4

\* What the loop of consoleread() consumes.
LEMMA StopsAt ==
  ASSUME Types, Console, NEW p \in Proc, proc[p].n # 0, Stops(proc[p].n) # {}
  PROVE  /\ Entered # 0 /\ Taken(p, Least(Stops(proc[p].n))) \in 0 .. Entered
         /\ \A i \in 1 .. Taken(p, Least(Stops(proc[p].n))) - 1 : Ready[i] \notin Ends
<1>1. Entered \in Nat /\ Len(Ready) = Entered /\ Ready \in Seq(Stored)
  BY RingIs, Views DEF Seen, Console
<1>2. PICK n \in Nat : n = proc[p].n
  BY DEF Types, ProcState
<1>3. Stops(n) \in SUBSET Nat /\ Stops(n) # {}
  BY <1>2, SMTT(30) DEF Stops
<1>4. PICK m : m = Least(Stops(n)) /\ m \in Stops(n) /\ \A j \in Stops(n) : m <= j
  BY <1>3, LeastIs
<1>5. m \in 1 .. Entered /\ m <= n
  BY <1>1, <1>4 DEF Stops
<1>6. ASSUME NEW i \in 1 .. m - 1 PROVE Ready[i] \notin Ends
  <2>1. i \notin Stops(n)
    BY <1>4, <1>5, SMTT(30)
  <2>. QED  BY <1>1, <1>2, <1>5, <2>1, SMTT(30) DEF Stops
<1>7. PICK t : t = Taken(p, m)
  OBVIOUS
<1>8. t = m - 1 \/ t = m
  BY <1>7 DEF Taken
<1>9. t \in 0 .. Entered /\ \A i \in 1 .. t - 1 : i \in 1 .. m - 1
  BY <1>1, <1>5, <1>8, SMTT(30)
<1>. QED  BY <1>1, <1>2, <1>4, <1>5, <1>6, <1>7, <1>9, SMTT(30)

LEMMA NoStop ==
  ASSUME Types, Console, NEW p \in Proc, proc[p].n # 0, Stops(proc[p].n) = {}
  PROVE  /\ input.w = Plus(input.r, Entered) /\ Entered \in 0 .. Entered
         /\ proc[p].n - Len(Ready) \in Nat
         /\ \A i \in 1 .. Entered - 1 : Ready[i] \notin Ends
<1>1. /\ Entered \in Nat /\ Len(Ready) = Entered /\ input.r \in Word /\ input.w \in Word
      /\ Entered = Minus(input.w, input.r)
  BY RingIs, Views DEF Seen, Console, Entered
<1>2. PICK n \in Nat : n = proc[p].n /\ n # 0
  BY DEF Types, ProcState
<1>3. Entered < n
  <2>1. n \notin Stops(n)
    BY <1>2
  <2>. QED  BY <1>1, <1>2, <2>1, SMTT(30) DEF Stops
<1>4. ASSUME NEW i \in 1 .. Entered - 1 PROVE Ready[i] \notin Ends
  <2>1. i \notin Stops(n)
    BY <1>2
  <2>. QED  BY <1>1, <1>2, <1>3, <2>1, SMTT(30) DEF Stops
<1>5. Entered \in 0 .. Minus(input.w, input.r) /\ Entered \in 0 .. Entered
  BY <1>1, SMTT(30)
<1>6. Plus(input.r, Entered) \in Word /\ Minus(input.w, Plus(input.r, Entered)) = Minus(input.w, input.r) - Entered
  BY <1>1, <1>5, Walk, SMTT(30)
<1>7. Minus(input.w, Plus(input.r, Entered)) = 0
  BY <1>1, <1>6, SMTT(30)
<1>8. input.w = Plus(input.r, Entered)
  BY <1>1, <1>6, <1>7, Zero
<1>. QED  BY <1>1, <1>2, <1>3, <1>4, <1>5, <1>8, SMTT(30)

LEMMA ReadLoopConsole ==
  ASSUME Types, Console, NEW p \in Proc, ReadLoop(p)
  PROVE  Console' /\ [Lines!Next]_<<Ready, Edit>> /\ proc' \in [Proc -> ProcState]
<1>1. /\ inputlock = Free /\ \A q \in Proc : ~In(q, "read", "falling")
      /\ proc[p] \in ProcState /\ proc \in [Proc -> ProcState] /\ Idle \in ProcState
  <2>1. 0 \in Word
    BY Sizes0, SMTT(30) DEF Word
  <2>. QED  BY <2>1, DevicesAssumption, SMTT(30) DEF ReadLoop, Console, Readers, Types, Idle, ProcState
<1>2. RingTypes /\ Indices /\ NoEnds /\ Readers /\ input.r \in Word /\ input.w \in Word
      /\ Entered = Minus(input.w, input.r)
  BY RingIs DEF Console, Entered
<1>3. ASSUME proc' = [proc EXCEPT ![p] = Idle]
      PROVE  /\ proc' \in [Proc -> ProcState]
             /\ \A q \in Proc : ~In(q, "read", "falling")' /\ (In(q, "read", "asleep")' => In(q, "read", "asleep"))
  BY <1>1, <1>3 DEF In, Idle
<1>4. CASE proc[p].n = 0
  <2>1. proc' = [proc EXCEPT ![p] = Idle] /\ input' = input
    BY <1>4 DEF ReadLoop
  <2>2. Ready' = Ready /\ Edit' = Edit
    BY <2>1 DEF Ready, Edit, Char
  <2>3. RingTypes' /\ Indices' /\ NoEnds'
    BY <1>2, <2>1, <2>2 DEF RingTypes, Indices, NoEnds, Entered, Typed, Count
  <2>4. Readers'
    BY <1>2, <1>3, <2>1 DEF Readers
  <2>. QED  BY <1>3, <2>1, <2>2, <2>3, <2>4 DEF Console
<1>5. CASE proc[p].n # 0 /\ Stops(proc[p].n) # {}
  <2>1. PICK k \in 0 .. Entered : /\ k = Taken(p, Least(Stops(proc[p].n)))
                                  /\ \A i \in 1 .. k - 1 : Ready[i] \notin Ends
    BY <1>5, StopsAt
  <2>2. proc' = [proc EXCEPT ![p] = Idle] /\ input' = [input EXCEPT !.r = Plus(input.r, k)]
    BY <1>5, <2>1 DEF ReadLoop
  <2>3. RingTypes' /\ Indices' /\ NoEnds' /\ [Lines!Next]_<<Ready, Edit>>
    BY <1>2, <2>1, <2>2, TakeConsole
  <2>4. input.r # input.w
    BY <1>2, <1>5, StopsAt, Zero
  <2>5. \A q \in Proc : ~In(q, "read", "falling")' /\ ~In(q, "read", "asleep")'
    BY <1>2, <1>3, <2>2, <2>4 DEF Readers
  <2>6. Readers'
    BY <2>5 DEF Readers
  <2>. QED  BY <1>3, <2>2, <2>3, <2>6 DEF Console
<1>6. CASE proc[p].n # 0 /\ Stops(proc[p].n) = {}
  <2>1. /\ input.w = Plus(input.r, Entered) /\ Entered \in 0 .. Entered
        /\ proc[p].n - Len(Ready) \in Nat
        /\ \A i \in 1 .. Entered - 1 : Ready[i] \notin Ends
    BY <1>6, NoStop
  <2>2. input' = [input EXCEPT !.r = Plus(input.r, Entered)] /\ input' = [input EXCEPT !.r = input.w]
    BY <1>6, <2>1 DEF ReadLoop
  <2>3. RingTypes' /\ Indices' /\ NoEnds' /\ [Lines!Next]_<<Ready, Edit>> /\ input'.w = input.w
    <3>1. PICK k \in 0 .. Entered : k = Entered
      BY <2>1
    <3>. QED  BY <1>2, <2>1, <2>2, <3>1, TakeConsole
  <2>4. input'.r = input'.w
    BY <2>2, <2>3 DEF Console, RingTypes
  <2>5. CASE proc[p].killed
    <3>1. proc' = [proc EXCEPT ![p] = Idle]
      BY <1>6, <2>5 DEF ReadLoop
    <3>2. Readers'
      BY <1>3, <2>4, <3>1 DEF Readers
    <3>. QED  BY <1>3, <2>3, <3>1, <3>2 DEF Console
  <2>6. CASE ~proc[p].killed
    <3>1. proc' = [proc EXCEPT ![p].n = @ - Len(Ready), ![p].state = "falling"] /\ inputlock' = p
      BY <1>6, <2>6 DEF ReadLoop
    <3>2. PICK n \in Nat : n = proc[p].n - Len(Ready)
      BY <2>1
    <3>3. PICK x : x = [proc[p] EXCEPT !.n = n, !.state = "falling"]
      OBVIOUS
    <3>4. x \in ProcState
      BY <1>1, <3>3 DEF ProcState
    <3>5. proc' = [proc EXCEPT ![p] = x]
      BY <1>1, <3>1, <3>2, <3>3
    <3>6. proc' \in [Proc -> ProcState] /\ \A q \in Proc : q # p => proc'[q] = proc[q]
      BY <1>1, <3>4, <3>5
    <3>7. Readers'
      BY <1>1, <2>4, <3>1, <3>6 DEF Readers, In
    <3>. QED  BY <2>3, <3>6, <3>7 DEF Console
  <2>. QED  BY <2>5, <2>6
<1>. QED  BY <1>4, <1>5, <1>6

\* Steps that leave the ring and the readers alone, or let readers out of their sleep.
LEMMA ConsoleFrame ==
  ASSUME Console, UNCHANGED <<input, inputlock>>,
         \A p \in Proc : /\ In(p, "read", "falling")' => In(p, "read", "falling")
                         /\ In(p, "read", "asleep")' => In(p, "read", "asleep")
  PROVE  Console' /\ UNCHANGED <<Ready, Edit>>
<1>1. Ready' = Ready /\ Edit' = Edit
  BY DEF Ready, Edit, Char
<1>2. RingTypes' /\ Indices' /\ NoEnds'
  BY <1>1 DEF Console, RingTypes, Indices, NoEnds, Entered, Typed, Count
<1>3. Readers'
  BY DEF Console, Readers
<1>. QED  BY <1>1, <1>2, <1>3 DEF Console

\* A process that changes in a step of its own.
LEMMA OneProc ==
  ASSUME Types, Console, UNCHANGED <<input, inputlock, ticks>>, NEW p \in Proc, NEW x \in ProcState,
         proc' = [proc EXCEPT ![p] = x],
         x.call = "read" => x.state = "run" \/ (x.state = proc[p].state /\ proc[p].call = "read")
  PROVE  Types' /\ Console' /\ UNCHANGED <<Ready, Edit>>
<1>1. Types' /\ proc'[p] = x /\ \A q \in Proc : q # p => proc'[q] = proc[q]
  BY DEF Types
<1>2. \A q \in Proc : /\ In(q, "read", "falling")' => In(q, "read", "falling")
                      /\ In(q, "read", "asleep")' => In(q, "read", "asleep")
  BY <1>1 DEF In
<1>. QED  BY <1>1, <1>2, ConsoleFrame

LEMMA WokenTypes ==
  ASSUME proc \in [Proc -> ProcState], NEW call
  PROVE  Woken(call) \in [Proc -> ProcState]
<1>1. ASSUME NEW p \in Proc PROVE [proc[p] EXCEPT !.state = "run"] \in ProcState /\ proc[p] \in ProcState
  BY DEF ProcState
<1>. QED  BY <1>1 DEF Woken

LEMMA IntrStep ==
  ASSUME Types, Console, NEW c \in Chars, consoleintr(c)
  PROVE  Types' /\ Console' /\ [Lines!Next]_<<Ready, Edit>>
<1>1. ticks' = ticks /\ (proc' = proc \/ proc' = Woken("read"))
  BY DEF consoleintr, Store
<1>2. Types'
  BY <1>1, WokenTypes DEF Types
<1>. QED  BY <1>2, IntrConsole

LEMMA SleepLoopTypes ==
  ASSUME Types, Console, NEW p \in Proc, NEW x \in ProcState, x.call = "sleep", SleepLoop(p, x)
  PROVE  Types' /\ Console' /\ UNCHANGED <<Ready, Edit>>
<1>1. UNCHANGED <<input, inputlock, ticks>>
  BY DEF SleepLoop
<1>2. PICK y \in ProcState : y.call # "read" /\ proc' = [proc EXCEPT ![p] = y]
  <2>1. 0 \in Word
    BY Sizes0, SMTT(30) DEF Word
  <2>2. Idle \in ProcState /\ Idle.call # "read"
    BY <2>1 DEF Idle, ProcState
  <2>3. [x EXCEPT !.state = "falling"] \in ProcState /\ [x EXCEPT !.state = "falling"].call # "read"
    BY DEF ProcState
  <2>. QED  BY <2>2, <2>3 DEF SleepLoop
<1>. QED  BY <1>1, <1>2, OneProc

LEMMA TickTypes ==
  ASSUME Types, Console, Tick
  PROVE  Types' /\ Console' /\ UNCHANGED <<Ready, Edit>>
<1>1. UNCHANGED <<input, inputlock>> /\ ticks' = Plus(ticks, 1) /\ ticks \in Word
  BY DEF Tick, Types
<1>2. ticks' \in Word
  <2>1. UINT \in Nat \ {0} /\ ticks + 1 \in Int
    BY <1>1, Sizes0, SMTT(30) DEF Word
  <2>. QED  BY <1>1, <2>1, SMTT(30) DEF Plus, Word
<1>3. ASSUME NEW p \in Proc
      PROVE  /\ proc'[p] \in ProcState
             /\ In(p, "read", "falling")' => In(p, "read", "falling")
             /\ In(p, "read", "asleep")' => In(p, "read", "asleep")
  <2>1. CASE proc[p].call = "sleep"
    <3>1. PICK x \in ProcState : x = Woken("sleep")[p] /\ x.el = proc[p].el /\ x.call = "sleep"
      <4>1. proc[p] \in ProcState
        BY DEF Types
      <4>2. PICK y \in ProcState : y = [proc[p] EXCEPT !.state = "run"] /\ y.el = proc[p].el /\ y.call = proc[p].call
        <5>1. /\ [proc[p] EXCEPT !.state = "run"] \in ProcState
              /\ [proc[p] EXCEPT !.state = "run"].el = proc[p].el
              /\ [proc[p] EXCEPT !.state = "run"].call = proc[p].call
          BY <4>1 DEF ProcState
        <5>. QED  BY <5>1
      <4>3. Woken("sleep")[p] = y \/ Woken("sleep")[p] = proc[p]
        BY <4>2 DEF Woken
      <4>. QED  BY <2>1, <4>1, <4>2, <4>3
    <3>2. proc[p].el < UINT - 1 /\ proc[p].el \in Word /\ proc'[p] = [x EXCEPT !.el = @ + 1]
      BY <2>1, <3>1 DEF Tick, Types, ProcState
    <3>3. x.el + 1 \in Word
      BY <3>1, <3>2, Sizes0, SMTT(30) DEF Word
    <3>4. proc'[p] \in ProcState /\ proc'[p].call = "sleep"
      BY <3>1, <3>2, <3>3 DEF ProcState
    <3>. QED  BY <3>4 DEF In
  <2>2. CASE proc[p].call # "sleep"
    BY <2>2 DEF Tick, Types, In
  <2>. QED  BY <2>1, <2>2
<1>4. proc' \in [Proc -> ProcState]
  <2>1. proc' = [p \in Proc |-> proc'[p]]
    BY DEF Tick
  <2>. QED  BY <1>3, <2>1
<1>. QED  BY <1>1, <1>2, <1>3, <1>4, ConsoleFrame DEF Types

LEMMA ConsoleStep ==
  Types /\ Console /\ [Next]_vars => Types' /\ Console' /\ [Lines!Next]_<<Ready, Edit>>
<1>. DEFINE Goal == Types' /\ Console' /\ [Lines!Next]_<<Ready, Edit>>
<1>. SUFFICES ASSUME Types, Console, [Next]_vars PROVE Goal
  OBVIOUS
<1>1. ASSUME NEW d, kbdintr(d) PROVE Goal
  <2>1. kbdgetc(shift, d).c \in Chars
    BY KbdChars
  <2>. QED  BY <1>1, <2>1, IntrStep DEF kbdintr
<1>2. CASE KeyDown \/ KeyUp \/ KeyByte
  <2>1. PICK d : kbdintr(d)
    BY <1>2 DEF KeyDown, KeyUp, KeyByte, Sends
  <2>. QED  BY <1>1, <2>1
<1>3. CASE uartintr
  BY <1>3, IntrStep, DevicesAssumption DEF uartintr
<1>4. CASE Tick
  BY <1>4, TickTypes
<1>5. ASSUME NEW p \in Proc, ReadLoop(p) PROVE Goal
  <2>1. ticks' = ticks
    BY <1>5 DEF ReadLoop
  <2>. QED  BY <1>5, <2>1, ReadLoopConsole DEF Types
<1>6. ASSUME NEW p \in Proc, ReadSleep(p) PROVE Goal
  <2>1. /\ UNCHANGED <<input, ticks>> /\ inputlock' = Free /\ proc' = [proc EXCEPT ![p].state = "asleep"]
        /\ In(p, "read", "falling") /\ inputlock = p /\ input.r = input.w
    BY <1>6 DEF ReadSleep, Console, Readers
  <2>2. /\ Types' /\ \A q \in Proc : q # p => proc'[q] = proc[q] /\ ~In(q, "read", "falling")
        /\ proc'[p].state = "asleep"
    BY <2>1, SMTT(30) DEF Types, ProcState, Console, Readers
  <2>3. Readers'
    BY <2>1, <2>2 DEF Console, Readers, In
  <2>4. Ready' = Ready /\ Edit' = Edit
    BY <2>1 DEF Ready, Edit, Char
  <2>5. RingTypes' /\ Indices' /\ NoEnds'
    BY <2>1, <2>4 DEF Console, RingTypes, Indices, NoEnds, Entered, Typed, Count
  <2>. QED  BY <2>2, <2>3, <2>4, <2>5 DEF Console
<1>7. ASSUME NEW p \in Proc, SleepAgain(p) PROVE Goal
  BY <1>7, SleepLoopTypes DEF SleepAgain, In, Types
<1>8. ASSUME NEW p \in Proc, SleepSleep(p) PROVE Goal
  <2>1. UNCHANGED <<input, inputlock, ticks>> /\ proc[p] \in ProcState /\ proc[p].call = "sleep"
    BY <1>8 DEF SleepSleep, Types, In
  <2>2. PICK x \in ProcState : x = [proc[p] EXCEPT !.state = "asleep"] /\ x.call # "read"
    <3>1. [proc[p] EXCEPT !.state = "asleep"] \in ProcState /\ [proc[p] EXCEPT !.state = "asleep"].call # "read"
      BY <2>1 DEF ProcState
    <3>. QED  BY <3>1
  <2>3. proc' = [proc EXCEPT ![p] = x]
    BY <1>8, <2>2 DEF SleepSleep, Types
  <2>. QED  BY <2>1, <2>2, <2>3, OneProc
<1>9. ASSUME NEW p \in Proc, consoleread(p) PROVE Goal
  <2>1. PICK n \in Nat : proc' = [proc EXCEPT ![p].call = "read", ![p].n = n, ![p].target = n]
    BY <1>9, DevicesAssumption DEF consoleread
  <2>2. UNCHANGED <<input, inputlock, ticks>> /\ proc[p] \in ProcState /\ proc[p].state = "run"
    <3>1. proc[p] = Idle /\ Idle.state = "run"
      BY <1>9 DEF consoleread, Idle
    <3>. QED  BY <1>9, <3>1 DEF consoleread, Types
  <2>3. PICK x \in ProcState : x = [proc[p] EXCEPT !.call = "read", !.n = n, !.target = n] /\ x.state = "run"
    <3>1. PICK x : x = [proc[p] EXCEPT !.call = "read", !.n = n, !.target = n]
      OBVIOUS
    <3>2. x \in ProcState /\ x.state = "run"
      BY <2>2, <3>1 DEF ProcState
    <3>. QED  BY <3>1, <3>2
  <2>4. proc' = [proc EXCEPT ![p] = x]
    BY <2>1, <2>3 DEF Types
  <2>. QED  BY <2>2, <2>3, <2>4, OneProc
<1>10. ASSUME NEW p \in Proc, sys_sleep(p) PROVE Goal
  <2>1. PICK n \in Delays : SleepLoop(p, [Idle EXCEPT !.call = "sleep", !.n = n, !.ticks0 = ticks])
    BY <1>10 DEF sys_sleep
  <2>2. PICK x : x = [Idle EXCEPT !.call = "sleep", !.n = n, !.ticks0 = ticks]
    OBVIOUS
  <2>3. n \in Nat /\ 0 \in Word /\ ticks \in Word
    BY DevicesAssumption, Sizes0, SMTT(30) DEF Word, Types
  <2>4. x \in ProcState /\ x.call = "sleep"
    BY <2>2, <2>3 DEF Idle, ProcState
  <2>. QED  BY <2>1, <2>2, <2>4, SleepLoopTypes
<1>11. ASSUME NEW p \in Proc, kill(p) PROVE Goal
  <2>1. UNCHANGED <<input, inputlock, ticks>> /\ proc[p] \in ProcState
    BY <1>11 DEF kill, Types
  <2>2. PICK s : s = IF proc[p].state = "asleep" THEN "run" ELSE proc[p].state
    OBVIOUS
  <2>3. PICK x : x = [proc[p] EXCEPT !.killed = TRUE, !.state = s]
    OBVIOUS
  <2>4. s \in {"run", "falling", "asleep"} /\ (s = "run" \/ s = proc[p].state)
    BY <2>1, <2>2 DEF ProcState
  <2>5. x \in ProcState /\ x.state = s /\ x.call = proc[p].call
    BY <2>1, <2>3, <2>4 DEF ProcState
  <2>6. proc' = [proc EXCEPT ![p] = x]
    BY <1>11, <2>2, <2>3 DEF kill, Types
  <2>. QED  BY <2>1, <2>4, <2>5, <2>6, OneProc
<1>12. CASE UNCHANGED vars
  <2>1. UNCHANGED <<input, inputlock, ticks, proc>>
    BY <1>12 DEF vars
  <2>2. \A p \in Proc : /\ In(p, "read", "falling")' => In(p, "read", "falling")
                        /\ In(p, "read", "asleep")' => In(p, "read", "asleep")
    BY <2>1 DEF In
  <2>. QED  BY <2>1, <2>2, ConsoleFrame DEF Types
<1>. QED
  BY <1>2, <1>3, <1>4, <1>5, <1>6, <1>7, <1>8, <1>9, <1>10, <1>11, <1>12 DEF Next, Step

-----------------------------------------------------------------------------
(* The theorems about the console and the clock.                            *)

Inv == Types /\ Console /\ Sleepers

LEMMA ConsoleInit == Init => Inv /\ Lines!Init
<1>. SUFFICES ASSUME Init PROVE Inv /\ Lines!Init
  OBVIOUS
<1>1. 0 \in Word /\ UINT \in Nat \ {0} /\ INPUT_BUF \in Nat \ {0} /\ INPUT_BUF < UINT
  BY Sizes0, DevicesAssumption, SMTT(30) DEF Word
<1>2. input.r = 0 /\ input.w = 0 /\ input.e = 0 /\ RingTypes
  BY <1>1 DEF Init, RingTypes, Stored
<1>3. Entered = 0 /\ Typed = 0 /\ Count = 0
  BY <1>1, <1>2, Zero DEF Entered, Typed, Count
<1>4. Indices
  BY <1>1, <1>2, <1>3, SMTT(30) DEF Indices
<1>5. Ready = <<>> /\ Edit = <<>>
  BY <1>2, <1>3, <1>4, Views, SMTT(30) DEF Seen
<1>6. NoEnds
  BY <1>3, SMTT(30) DEF NoEnds
<1>7. Idle \in ProcState /\ \A p \in Proc : proc[p].call = "none"
  BY <1>1 DEF Idle, ProcState, Init
<1>8. Types /\ Sleepers /\ Readers
  BY <1>1, <1>7 DEF Types, Sleepers, Readers, In, Init
<1>. QED  BY <1>2, <1>4, <1>5, <1>6, <1>8 DEF Inv, Console, Lines!Init

LEMMA DevicesInv == Spec => []Inv
<1>1. Init => Inv
  BY ConsoleInit
<1>2. Inv /\ [Next]_vars => Inv'
  BY ConsoleStep, SleepersStep DEF Inv
<1>. QED  BY <1>1, <1>2, PTL DEF Spec

\* No reader of the console sleeps while there are characters for it, and a full ring is
\* always entered so that it can be read: for every ring size that divides the range of
\* the indices, every number of readers and every input (consoleintr, consoleread).
THEOREM ConsoleReadersAwake == Spec => []ReadersAwake
<1>1. Inv => ReadersAwake
  BY DEF Inv, Console, Readers, Indices, Count, ReadersAwake
<1>. QED  BY <1>1, DevicesInv, PTL

\* The ring with its wrapping indices implements the abstract line editor: what is typed
\* comes out once and in order, erasing never reaches an entered character, and a read
\* stops at the end of a line (consoleintr, consoleread).
THEOREM ConsoleImplements == Spec => Implements
<1>1. Init => Lines!Init
  BY ConsoleInit
<1>2. Inv /\ [Next]_vars => [Lines!Next]_<<Ready, Edit>>
  BY ConsoleStep DEF Inv
<1>. QED  BY <1>1, <1>2, DevicesInv, PTL DEF Spec, Implements, Lines!Spec

\* A process that returns from sys_sleep() unkilled has slept its ticks, and one that is
\* left asleep has ticks to go, wherever the counter wraps.
LEMMA SleepStep ==
  ASSUME Inv, Inv', [Next]_vars, NEW p \in Proc
  PROVE  /\ (proc[p].call = "sleep" /\ proc'[p].call = "none" /\ ~proc[p].killed)
              => proc[p].el >= proc[p].n
         /\ In(p, "sleep", "asleep")' => proc'[p].el < proc'[p].n
<1>1. In(p, "sleep", "asleep")' => proc'[p].el < proc'[p].n
  BY DEF Inv, Sleepers
<1>2. SUFFICES ASSUME proc[p].call = "sleep", proc'[p].call = "none", ~proc[p].killed
               PROVE  proc[p].el >= proc[p].n
  BY <1>1
<1>3. proc[p] \in ProcState /\ proc[p] # Idle /\ proc \in [Proc -> ProcState]
  BY <1>2, SMTT(30) DEF Inv, Types, Idle
<1>4. SleepAgain(p)
  <2>1. ASSUME NEW c, consoleintr(c) PROVE FALSE
    <3>1. proc' = proc \/ proc' = Woken("read")
      BY <2>1 DEF consoleintr, Store
    <3>2. proc'[p] = proc[p]
      BY <1>2, <3>1 DEF Woken
    <3>. QED  BY <1>2, <3>2
  <2>2. ASSUME KeyDown \/ KeyUp \/ KeyByte \/ uartintr PROVE FALSE
    BY <2>1, <2>2, SMTT(30) DEF KeyDown, KeyUp, KeyByte, Sends, kbdintr, uartintr
  <2>3. ASSUME Tick PROVE FALSE
    <3>1. PICK x \in ProcState : x = Woken("sleep")[p] /\ x.call = "sleep"
      <4>1. PICK y : y = [proc[p] EXCEPT !.state = "run"]
        OBVIOUS
      <4>2. y \in ProcState /\ y.call = "sleep"
        BY <1>2, <1>3, <4>1 DEF ProcState
      <4>3. Woken("sleep")[p] = y \/ Woken("sleep")[p] = proc[p]
        BY <4>1 DEF Woken
      <4>. QED  BY <1>2, <1>3, <4>2, <4>3
    <3>2. proc'[p] = [x EXCEPT !.el = @ + 1]
      BY <1>2, <2>3, <3>1 DEF Tick
    <3>. QED  BY <1>2, <3>1, <3>2 DEF ProcState
  <2>4. ASSUME NEW q \in Proc, ReadLoop(q) PROVE FALSE
    <3>1. q # p
      BY <1>2, <2>4 DEF ReadLoop, In
    <3>2. proc'[p] = proc[p]
      BY <1>3, <2>4, <3>1 DEF ReadLoop
    <3>. QED  BY <1>2, <3>2
  <2>5. ASSUME NEW q \in Proc, ReadSleep(q) \/ SleepSleep(q) PROVE FALSE
    <3>1. proc' = [proc EXCEPT ![q].state = "asleep"]
      BY <2>5 DEF ReadSleep, SleepSleep
    <3>2. proc'[p].call = proc[p].call
      BY <1>3, <3>1 DEF ProcState
    <3>. QED  BY <1>2, <3>2
  <2>6. ASSUME NEW q \in Proc, q # p, SleepAgain(q) PROVE FALSE
    BY <1>2, <1>3, <2>6 DEF SleepAgain, SleepLoop
  <2>7. ASSUME NEW q \in Proc, consoleread(q) PROVE FALSE
    <3>1. q # p
      BY <1>3, <2>7 DEF consoleread
    <3>. QED  BY <1>2, <1>3, <2>7, <3>1 DEF consoleread
  <2>8. ASSUME NEW q \in Proc, sys_sleep(q) PROVE FALSE
    <3>1. q # p
      BY <1>3, <2>8 DEF sys_sleep
    <3>. QED  BY <1>2, <1>3, <2>8, <3>1 DEF sys_sleep, SleepLoop
  <2>9. ASSUME NEW q \in Proc, kill(q) PROVE FALSE
    <3>1. proc' = [proc EXCEPT ![q].killed = TRUE, ![q].state = IF @ = "asleep" THEN "run" ELSE @]
      BY <2>9 DEF kill
    <3>2. proc'[p].call = proc[p].call
      BY <1>3, <3>1 DEF ProcState
    <3>. QED  BY <1>2, <3>2
  <2>10. ASSUME UNCHANGED vars PROVE FALSE
    BY <1>2, <2>10 DEF vars
  <2>. QED  BY <2>2, <2>3, <2>4, <2>5, <2>6, <2>7, <2>8, <2>9, <2>10 DEF Next, Step
<1>5. ~Early(ticks, proc[p].ticks0, proc[p].n)
  <2>1. SUFFICES ASSUME Early(ticks, proc[p].ticks0, proc[p].n) PROVE FALSE
    OBVIOUS
  <2>2. proc' = [proc EXCEPT ![p] = [proc[p] EXCEPT !.state = "falling"]]
    BY <1>2, <1>4, <2>1 DEF SleepAgain, SleepLoop
  <2>3. proc'[p].call = "sleep"
    BY <1>2, <1>3, <2>2 DEF ProcState
  <2>. QED  BY <1>2, <2>3
<1>6. proc[p].el = Minus(ticks, proc[p].ticks0) /\ proc[p].el \in Nat /\ proc[p].n \in Nat
  BY <1>2, <1>3, Sizes0, SMTT(30) DEF Inv, Sleepers, ProcState, Word
<1>. QED  BY <1>5, <1>6, SMTT(30) DEF Early

\* sys_sleep() keeps its time for every number of sleepers, every delay and every width
\* of the tick counter, wherever it wraps, and whatever is typed and killed meanwhile.
THEOREM SleepersKeepTime == Spec => SleepTimes
<1>1. Inv /\ Inv' /\ [Next]_vars =>
        [\A p \in Proc :
           /\ (proc[p].call = "sleep" /\ proc'[p].call = "none" /\ ~proc[p].killed)
                => proc[p].el >= proc[p].n
           /\ In(p, "sleep", "asleep")' => proc'[p].el < proc'[p].n]_vars
  BY SleepStep
<1>. QED  BY <1>1, DevicesInv, PTL DEF Spec, SleepTimes
=============================================================================

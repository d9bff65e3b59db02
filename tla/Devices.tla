------------------------------ MODULE Devices -------------------------------
(***************************************************************************)
(* Interrupt-driven input and time: the keyboard decoder (kbd.c), the      *)
(* serial line (uart.c), the console's input ring and its readers          *)
(* (console.c), the timer interrupt (trap.c) and the processes that sleep  *)
(* until a later tick (sysproc.c).                                         *)
(*                                                                         *)
(* A section under input.lock or tickslock is one step, except that a      *)
(* process which has decided to sleep holds the lock until its next step:  *)
(* kill() takes neither lock and can fall in between.  A character is a    *)
(* short string, "NO" the null character; the scan codes are those of      *)
(* kbd.h.  What is echoed is left out.                                     *)
(***************************************************************************)
EXTENDS Integers, Sequences, FiniteSets

CONSTANTS
    Proc,       \* processes
    INPUT_BUF,  \* characters in the ring
    UINT,       \* values of an unsigned int
    Machines,   \* machines to consider: which processes read, which sleep, and
                \* whether there are a keyboard, a serial line and a clock
    Keys,       \* keys of a keyboard: <<scan code, whether 0xE0 precedes it>>
    Serial,     \* characters that arrive on a serial line
    Sizes,      \* numbers of characters a read asks for
    Delays      \* numbers of ticks sleep is called with

Free == "free"
Letters == {"d", "D", "u", "U", "p", "P"}
Ends == {"nl", "^D"}
Chars == Letters \cup Ends \cup {"cr", "^H", "^P", "^U", "NO"}

\* A key that goes up sends its scan code and 128, which is never 0xE0.
ASSUME DevicesAssumption ==
    /\ {INPUT_BUF, UINT} \subseteq Nat \ {0} /\ UINT % INPUT_BUF = 0 /\ INPUT_BUF < UINT
    /\ Sizes \subseteq Nat /\ Delays \subseteq 0..(UINT - 1)
    /\ Keys \subseteq ((0..127) \ {96}) \X BOOLEAN /\ Serial \subseteq Chars
    /\ Free \notin Proc

VARIABLES
    machine,   \* the machine at hand
    input,     \* the ring: buf, r, w, e
    inputlock, \* who holds input.lock across steps
    shift,     \* kbdgetc's flags
    wire,      \* scan codes the keyboard has still to send
    held,      \* modifier keys that are down (ghost)
    ticks,
    tickslock,
    proc       \* the processes
vars == <<machine, input, inputlock, shift, wire, held, ticks, tickslock, proc>>
kbdvars == <<machine, shift, wire, held>>

\* A process is in no call, in consoleread or in sys_sleep; there it runs, has decided
\* to sleep, or is asleep on the call's channel.  `el' counts the ticks since it called
\* sys_sleep (ghost).
Idle == [call |-> "none", state |-> "run", n |-> 0, target |-> 0, ticks0 |-> 0,
         killed |-> FALSE, el |-> 0]
Plus(a, b) == (a + b) % UINT
Minus(a, b) == (a - b + UINT) % UINT

(***************************************************************************)
(* kbdgetc                                                                 *)
(***************************************************************************)
shiftcode(data) == CASE data \in {29, 157} -> {"CTL"} [] data \in {42, 54} -> {"SHIFT"}
                     [] data \in {56, 184} -> {"ALT"} [] OTHER -> {}
togglecode(data) == IF data = 58 THEN {"CAPSLOCK"} ELSE {}
Toggle(s, t) == (s \ t) \cup (t \ s)
normalmap(data) == CASE data = 14 -> "^H" [] data = 22 -> "u" [] data = 25 -> "p" [] data = 32 -> "d"
                     [] data \in {28, 156} -> "nl" [] OTHER -> "NO"
shiftmap(data) == CASE data = 22 -> "U" [] data = 25 -> "P" [] data = 32 -> "D"
                    [] OTHER -> normalmap(data)
ctlmap(data) == CASE data = 22 -> "^U" [] data = 25 -> "^P" [] data = 32 -> "^D"
                  [] data \in {28, 156} -> "cr" [] OTHER -> "NO"
charcode(s, data) == IF "CTL" \in s THEN ctlmap(data)
                     ELSE IF "SHIFT" \in s THEN shiftmap(data) ELSE normalmap(data)
Cases == {<<"u", "U">>, <<"p", "P">>, <<"d", "D">>}
Swapped(c) == {x[2] : x \in {y \in Cases : y[1] = c}} \cup {x[1] : x \in {y \in Cases : y[2] = c}}
Caps(c) == IF Swapped(c) = {} THEN c ELSE CHOOSE x \in Swapped(c) : TRUE

\* The new flags and the character: of a byte that is only part of a key, of a key
\* that goes up, of a key that goes down.
\* Mutant: the escape is not forgotten when the key goes up.
Up_KeepsEscape(s, data) == s \ shiftcode(IF "E0ESC" \in s THEN data ELSE data % 128)
Up(s, data) == s \ (shiftcode(IF "E0ESC" \in s THEN data ELSE data % 128) \cup {"E0ESC"})
Down(s, data) == Toggle((s \ {"E0ESC"}) \cup shiftcode(data), togglecode(data))
Code(s, data) == IF "E0ESC" \in s THEN data + 128 ELSE data
kbdgetc(s, data) ==
    LET t == Down(s, Code(s, data))
        c == charcode(t, Code(s, data))
    IN  IF data = 224 THEN [shift |-> s \cup {"E0ESC"}, c |-> "NO"]
        ELSE IF data >= 128 THEN [shift |-> Up(s, data), c |-> "NO"]
        ELSE [shift |-> t, c |-> IF "CAPSLOCK" \in t THEN Caps(c) ELSE c]

(***************************************************************************)
(* consoleintr, for one character.  Readers sleep on input.r.              *)
(***************************************************************************)
Char(i) == input.buf[i % INPUT_BUF]
Woken(call) == [p \in Proc |-> IF proc[p].call = call /\ proc[p].state = "asleep"
                               THEN [proc[p] EXCEPT !.state = "run"] ELSE proc[p]]
In(p, call, state) == proc[p].call = call /\ proc[p].state = state

\* ^U: back over what is not entered yet, and not over the end of a line.
\* Mutant: entered characters are erased too.
KillLine_Entered ==
    LET K == {k \in 0..Minus(input.e, input.r) :
                \A i \in 1..k : Char(Minus(input.e, i)) # "nl"}
    IN  Minus(input.e, CHOOSE k \in K : \A j \in K : j <= k)
KillLine ==
    LET K == {k \in 0..Minus(input.e, input.w) :
                \A i \in 1..k : Char(Minus(input.e, i)) # "nl"}
    IN  Minus(input.e, CHOOSE k \in K : \A j \in K : j <= k)

\* Does the character enter the line?
\* Mutant: only the end of a line or of the file does, not the last free place.
Enters_NotFull(c) == c \in Ends
Enters(c) == c \in Ends \/ Plus(input.e, 1) = Plus(input.r, INPUT_BUF)

Store(c) ==
    IF c # "NO" /\ Minus(input.e, input.r) < INPUT_BUF
    THEN /\ input' = [input EXCEPT !.buf[input.e % INPUT_BUF] = c, !.e = Plus(@, 1),
                                   !.w = IF Enters(c) THEN Plus(input.e, 1) ELSE @]
         /\ proc' = IF Enters(c) THEN Woken("read") ELSE proc
    ELSE UNCHANGED <<input, proc>>
consoleintr(c) ==
    /\ inputlock = Free
    /\ CASE c = "^P" -> UNCHANGED <<input, proc>>
         [] c = "^U" -> input' = [input EXCEPT !.e = KillLine] /\ UNCHANGED proc
         [] c = "^H" -> /\ input' = [input EXCEPT !.e = IF @ # input.w THEN Minus(@, 1) ELSE @]
                        /\ UNCHANGED proc
         [] OTHER -> Store(IF c = "cr" THEN "nl" ELSE c)
    /\ UNCHANGED <<inputlock, ticks, tickslock>>

\* One byte from the keyboard.
kbdintr(data) ==
    /\ machine.kbd /\ UNCHANGED machine
    /\ shift' = kbdgetc(shift, data).shift
    /\ consoleintr(kbdgetc(shift, data).c)
Modifier(k) == shiftcode(IF k[2] THEN k[1] + 128 ELSE k[1]) # {}
\* A key goes down or up.  A modifier goes down only when it is up.
Sends(k, codes) == kbdintr(Head(codes)) /\ wire' = Tail(codes)
KeyDown == \E k \in Keys :
    /\ wire = <<>> /\ ~(Modifier(k) /\ k \in held)
    /\ Sends(k, IF k[2] THEN <<224, k[1]>> ELSE <<k[1]>>)
    /\ held' = IF Modifier(k) THEN held \cup {k} ELSE held
KeyUp == \E k \in Keys :
    /\ wire = <<>> /\ (Modifier(k) => k \in held)
    /\ Sends(k, IF k[2] THEN <<224, k[1] + 128>> ELSE <<k[1] + 128>>)
    /\ held' = held \ {k}
KeyByte == wire # <<>> /\ Sends(<<>>, wire) /\ UNCHANGED held
uartintr == machine.uart /\ (\E c \in Serial : consoleintr(c)) /\ UNCHANGED kbdvars

(***************************************************************************)
(* consoleread.  With the lock, it takes characters until it has enough,   *)
(* or one ends a line (read) or the file (read only if it comes first), or *)
(* there are no more.                                                      *)
(***************************************************************************)
Ready == [i \in 1..Minus(input.w, input.r) |-> Char(Plus(input.r, i - 1))]
\* The positions at which the loop may stop, the first of which is taken.
Stops(n) == {i \in 1..Len(Ready) : i <= n /\ (i = n \/ Ready[i] \in Ends)}
Least(S) == CHOOSE i \in S : \A j \in S : i <= j
\* Characters consumed when it stops at i: an end of file after others is left there.
Taken(p, i) == IF Ready[i] = "^D" /\ proc[p].n - (i - 1) < proc[p].target THEN i - 1 ELSE i

consoleread(p) ==
    /\ proc[p] = Idle /\ p \in machine.readers
    /\ \E n \in Sizes : proc' = [proc EXCEPT ![p].call = "read", ![p].n = n, ![p].target = n]
    /\ UNCHANGED <<input, inputlock, kbdvars, ticks, tickslock>>
ReadLoop(p) ==
    /\ In(p, "read", "run") /\ inputlock = Free
    /\ IF proc[p].n = 0 THEN proc' = [proc EXCEPT ![p] = Idle] /\ UNCHANGED <<input, inputlock>>
       ELSE IF Stops(proc[p].n) # {}
       THEN /\ input' = [input EXCEPT !.r = Plus(@, Taken(p, Least(Stops(proc[p].n))))]
            /\ proc' = [proc EXCEPT ![p] = Idle] /\ UNCHANGED inputlock
       ELSE /\ input' = [input EXCEPT !.r = input.w]
            /\ IF proc[p].killed THEN proc' = [proc EXCEPT ![p] = Idle] /\ UNCHANGED inputlock
               ELSE /\ proc' = [proc EXCEPT ![p].n = @ - Len(Ready), ![p].state = "falling"]
                    /\ inputlock' = p
    /\ UNCHANGED <<kbdvars, ticks, tickslock>>
ReadSleep(p) ==
    /\ In(p, "read", "falling")
    /\ proc' = [proc EXCEPT ![p].state = "asleep"] /\ inputlock' = Free
    /\ UNCHANGED <<input, kbdvars, ticks, tickslock>>

(***************************************************************************)
(* The clock, and sys_sleep                                                *)
(***************************************************************************)
\* Mutant: the end is computed in advance.
Early_Sum(t, ticks0, n) == t < Plus(ticks0, n)
Early(t, ticks0, n) == Minus(t, ticks0) < n

\* The loop of sys_sleep for the process as x, with tickslock.
SleepLoop(p, x) ==
    /\ tickslock = Free
    /\ IF Early(ticks, x.ticks0, x.n) /\ ~x.killed
       THEN proc' = [proc EXCEPT ![p] = [x EXCEPT !.state = "falling"]] /\ tickslock' = p
       ELSE proc' = [proc EXCEPT ![p] = Idle] /\ UNCHANGED tickslock
    /\ UNCHANGED <<input, inputlock, kbdvars, ticks>>
sys_sleep(p) ==
    /\ proc[p] = Idle /\ p \in machine.sleepers
    /\ \E n \in Delays : SleepLoop(p, [Idle EXCEPT !.call = "sleep", !.n = n, !.ticks0 = ticks])
SleepAgain(p) == In(p, "sleep", "run") /\ SleepLoop(p, proc[p])
SleepSleep(p) ==
    /\ In(p, "sleep", "falling")
    /\ proc' = [proc EXCEPT ![p].state = "asleep"] /\ tickslock' = Free
    /\ UNCHANGED <<input, inputlock, kbdvars, ticks>>

\* The timer interrupt.  Bound: a process that could run gets to before the counter
\* has gone round (2^32 ticks in the code).
\* Mutant: the sleepers are not woken.
Tick_NoWakeup ==
    /\ machine.clock /\ tickslock = Free /\ \A p \in Proc : proc[p].el < UINT - 1
    /\ ticks' = Plus(ticks, 1)
    /\ proc' = [p \in Proc |-> IF proc[p].call = "sleep" THEN [proc[p] EXCEPT !.el = @ + 1]
                               ELSE proc[p]]
    /\ UNCHANGED <<input, inputlock, kbdvars, tickslock>>
Tick ==
    /\ machine.clock /\ tickslock = Free /\ \A p \in Proc : proc[p].el < UINT - 1
    /\ ticks' = Plus(ticks, 1)
    /\ proc' = [p \in Proc |-> IF proc[p].call = "sleep" THEN [Woken("sleep")[p] EXCEPT !.el = @ + 1]
                               ELSE proc[p]]
    /\ UNCHANGED <<input, inputlock, kbdvars, tickslock>>

\* kill, which takes neither lock.
kill(p) ==
    /\ proc[p].call # "none" /\ ~proc[p].killed
    /\ proc' = [proc EXCEPT ![p].killed = TRUE,
                            ![p].state = IF @ = "asleep" THEN "run" ELSE @]
    /\ UNCHANGED <<input, inputlock, kbdvars, ticks, tickslock>>

(***************************************************************************)
Init ==
    /\ machine \in Machines
    /\ input = [buf |-> [i \in 0..(INPUT_BUF - 1) |-> "NO"], r |-> 0, w |-> 0, e |-> 0]
    /\ shift = {} /\ wire = <<>> /\ held = {} /\ ticks = 0
    /\ inputlock = Free /\ tickslock = Free /\ proc = [p \in Proc |-> Idle]

Step(p) == ReadLoop(p) \/ ReadSleep(p) \/ SleepAgain(p) \/ SleepSleep(p)
Next ==
    \/ KeyDown
    \/ KeyUp
    \/ KeyByte
    \/ uartintr
    \/ Tick
    \/ \E p \in Proc : Step(p)
    \/ \E p \in Proc : consoleread(p)
    \/ \E p \in Proc : sys_sleep(p)
    \/ \E p \in Proc : kill(p)

\* Whoever spins for a lock gets it if it is free again and again: the timer interrupt
\* and the processes; nobody need type.
Spec == Init /\ [][Next]_vars /\ SF_vars(Tick) /\ \A p \in Proc : SF_vars(Step(p))

(***************************************************************************)
(* Properties                                                              *)
(***************************************************************************)
\* The ring with its three wrapping indices is a line editor with a queue behind it:
\* what is typed comes out once and in order, erasing never reaches an entered
\* character, a full ring is entered, and a read never goes past a line's end
\* (consoleintr, consoleread).
Edit == [i \in 1..Minus(input.e, input.w) |-> Char(Plus(input.w, i - 1))]
Lines == INSTANCE LineInput WITH Cap <- INPUT_BUF, ready <- Ready, edit <- Edit
Implements == Lines!Spec

\* Nobody sleeps on input.r while there are characters to read, nor is the ring full
\* of characters that can be neither read nor added to.
ReadersAwake ==
    /\ (\E p \in Proc : In(p, "read", "asleep")) => input.r = input.w
    /\ Minus(input.e, input.r) = INPUT_BUF => input.w = input.e

\* kbdgetc's flags follow the keys: E0ESC is set exactly between the two bytes of an
\* escaped key, and a Control or Shift flag never outlives the keys that set it.
ShiftRight ==
    /\ ("E0ESC" \in shift) = (wire # <<>>)
    /\ wire = <<>> => \A f \in {"CTL", "SHIFT"} : f \in shift =>
         \E k \in held : f \in shiftcode(IF k[2] THEN k[1] + 128 ELSE k[1])

\* sys_sleep's unsigned difference is right when the tick counter wraps: who returns
\* has slept its time unless killed, and who is left asleep has ticks still to go.
SleepTimes ==
    [][\A p \in Proc :
         /\ (proc[p].call = "sleep" /\ proc'[p].call = "none" /\ ~proc[p].killed)
              => proc[p].el >= proc[p].n
         /\ In(p, "sleep", "asleep")' => proc'[p].el < proc'[p].n]_vars

\* Every sleep ends, with its time or after a kill, even one that falls between the
\* test of killed and the sleep.
SleepEnds == \A p \in Proc : (proc[p].call = "sleep") ~> (proc[p].call = "none")
=============================================================================

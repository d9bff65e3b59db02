------------------------------- MODULE Shell --------------------------------
(***************************************************************************)
(* init (init.c), the shell (sh.c) and the programs it runs, as processes  *)
(* with their descriptor tables: what fork, wait, exit, open, close, dup   *)
(* and pipe (sysfile.c) do to those tables, and how runcmd uses them to    *)
(* connect the parts of a command line.  A command line is parsed with     *)
(* parsecmd of module Text.                                                *)
(*                                                                         *)
(* A descriptor is a pair: the console, a file (by the word that names     *)
(* it), or an end of a pipe; how files are counted and how a pipe's lock   *)
(* and channels work is in modules Files and Pipe.  Two programs exist:    *)
(* "e" writes Burst bytes to its output (echo.c), "c" copies its input to  *)
(* its output (cat.c); the console and files are always at their end.      *)
(* Consecutive system calls that only change the caller's descriptors are  *)
(* one step: nobody can tell in which order they happen.                   *)
(***************************************************************************)
EXTENDS Text, Strings

CONSTANTS
    NPROC,      \* process slots: 1 is init
    NOFILE,     \* descriptors of a process
    NPIPE,      \* pipes the kernel has memory for
    PIPESIZE,   \* bytes a pipe holds
    Burst,      \* bytes "e" writes
    Lines,      \* command lines the user may enter
    MaxLines,   \* bound: lines entered
    Typed       \* strings the text algorithms are tried on, and nothing else

ASSUME ShellAssumption ==
    /\ {NPROC, NOFILE, NPIPE, PIPESIZE, Burst, MaxLines} \subseteq Nat \ {0} /\ NOFILE > 3 /\ NPROC > 1

VARIABLES
    line,    \* the string typed last
    lines,   \* lines entered so far
    proc,    \* the processes
    data,    \* bytes in each pipe
    node,    \* for each pipe, the place in the command that made it (ghost)
    failed   \* whether a fork or pipe failed and may have left others at work (ghost)
vars == <<line, lines, proc, data, node, failed>>

Proc == 1..NPROC
Fd == 0..(NOFILE - 1)
PipeId == 1..NPIPE
None == <<"none", 0>>
Console == <<"cons", 0>>
init == 1

\* `str' is the process's copy of the line.  `at' is the place of cmd in the command
\* `top' that was entered: the way to it from the root; `bg' says that a BACK is on
\* that way (all three ghosts).
Unused == [state |-> "UNUSED", parent |-> 0, pc |-> "", cmd |-> Syntax, n |-> 0,
           fd |-> [f \in Fd |-> None], ends |-> <<0, 0>>, str |-> <<>>,
           top |-> Syntax, at |-> <<>>, bg |-> FALSE]
Std == [f \in Fd |-> IF f < 3 THEN Console ELSE None]

(***************************************************************************)
(* System calls, as operators on the process and its table                 *)
(***************************************************************************)
FreeFds(t) == {f \in Fd : t[f] = None}
Lowest(t) == CHOOSE f \in Fd : t[f] = None /\ \A g \in 0..(f - 1) : t[g] # None
\* fdalloc: the lowest free descriptor.
fdalloc(t, d) == [t EXCEPT ![Lowest(t)] = d]
close(t, f) == [t EXCEPT ![f] = None]
dup(t, f) == fdalloc(t, t[f])
Held(d) == \E p \in Proc, f \in Fd : proc[p].fd[f] = d
FreePipes == {k \in PipeId : ~Held(<<"r", k>>) /\ ~Held(<<"w", k>>)}

\* exit() of init is panic("init exiting"), and the machine stops.
Running(p, pc) == proc[p].state = "RUN" /\ proc[p].pc = pc /\ proc[init].pc # "panic"
Goto(p, pc) == [proc EXCEPT ![p].pc = pc]
Slots == {q \in Proc : proc[q].state = "UNUSED"}
Slot == CHOOSE q \in Slots : \A r \in 1..(q - 1) : proc[r].state # "UNUSED"

\* fork: a copy of the caller in the first free slot; it may fail, for want of a slot
\* or of memory for the copy.
MayFork == IF Slots = {} THEN {FALSE} ELSE BOOLEAN
Forked(p, pc, child) == [Goto(p, pc) EXCEPT ![Slot] = child @@ proc[p]]

\* exit: descriptors closed, children given to init.
Exited(p) == [q \in Proc |->
                IF q = p THEN [Unused EXCEPT !.state = "ZOMBIE", !.parent = proc[p].parent]
                ELSE IF proc[q].parent = p THEN [proc[q] EXCEPT !.parent = init] ELSE proc[q]]

\* wait: the first zombie child is reaped; without children it returns at once.
Kids(p) == {q \in Proc : proc[q].state # "UNUSED" /\ proc[q].parent = p}
Zombies(p) == {q \in Kids(p) : proc[q].state = "ZOMBIE"}
Waited(p, next) ==
    \/ Kids(p) = {} /\ proc' = [proc EXCEPT ![p] = next]
    \/ Zombies(p) # {} /\ proc' = [proc EXCEPT ![p] = next, ![Min(Zombies(p))] = Unused]

(***************************************************************************)
(* init.c: keep a shell running, reap the rest.                            *)
(***************************************************************************)
InitFork ==
    /\ Running(init, "fork")
    /\ \E ok \in MayFork :
         proc' = IF ok THEN [Forked(init, "wait", [pc |-> "open", parent |-> init, n |-> 0])
                                EXCEPT ![init].n = Slot]
                 ELSE Goto(init, "panic")
    /\ UNCHANGED <<line, lines, data, node, failed>>
InitWait ==
    /\ Running(init, "wait") /\ Zombies(init) # {}
    /\ Waited(init, [proc[init] EXCEPT !.pc = IF Min(Zombies(init)) = proc[init].n
                                              THEN "fork" ELSE "wait"])
    /\ UNCHANGED <<line, lines, data, node, failed>>

(***************************************************************************)
(* sh.c main                                                               *)
(***************************************************************************)
\* open("console") until the descriptor is above 2, which is then closed.
ShOpen(p) ==
    /\ Running(p, "open")
    /\ proc' = IF Lowest(proc[p].fd) < 3
               THEN [proc EXCEPT ![p].fd = fdalloc(@, Console)] ELSE Goto(p, "prompt")
    /\ UNCHANGED <<line, lines, data, node, failed>>

\* No command but those in the background is at work.
Quiet(s) == \A p \in Proc \ {init, s} : proc[p].state = "RUN" => proc[p].bg

\* getcmd, then fork1; the child parses the line.  When fork fails the shell itself
\* panics, that is, exits.  "cd " is done by the shell itself, which prompts again.
Builtin(l) == Len(l) > 2 /\ SubSeq(l, 1, 3) = <<"c", "d", " ">>
ShGetcmd(p) ==
    /\ Running(p, "prompt") /\ lines < MaxLines /\ lines' = lines + 1
    /\ \E l \in Lines, ok \in MayFork :
         /\ line' = l
         /\ proc' = IF Builtin(l) THEN proc ELSE IF ~ok THEN Exited(p)
                    ELSE Forked(p, "wait", [pc |-> "parse", parent |-> p, str |-> l])
         /\ failed' = ((~ok /\ ~Builtin(l)) \/ (failed /\ ~Quiet(p)))
    /\ UNCHANGED <<data, node>>
ShEof(p) ==
    /\ Running(p, "prompt") /\ proc' = Exited(p)
    /\ UNCHANGED <<line, lines, data, node, failed>>
ShWait(p) ==
    /\ Running(p, "wait") /\ p # init
    /\ Waited(p, [proc[p] EXCEPT !.pc = "prompt"])
    /\ UNCHANGED <<line, lines, data, node, failed>>

\* parsecmd: panic("syntax") exits.
Parsed == [l \in Lines |-> parsecmd(l)]
Parse(p) ==
    LET c == Parsed[proc[p].str]
    IN  /\ Running(p, "parse")
        /\ proc' = IF c = Syntax THEN Exited(p)
                   ELSE [proc EXCEPT ![p].pc = "run", ![p].cmd = c, ![p].top = c]
        /\ UNCHANGED <<line, lines, data, node, failed>>

(***************************************************************************)
(* sh.c runcmd                                                             *)
(***************************************************************************)
Does(p, type) == Running(p, "run") /\ proc[p].cmd.type = type
\* The process as it goes on with a part of its command.
Part(p, c, step) == [proc[p] EXCEPT !.pc = "run", !.cmd = c, !.at = Append(@, step)]
\* fork1: when fork fails the caller panics, that is, exits.
Fork1(p, pc, child) ==
    /\ \E ok \in MayFork :
         /\ proc' = IF ok THEN Forked(p, pc, [parent |-> p] @@ child) ELSE Exited(p)
         /\ failed' = (failed \/ ~ok)
    /\ UNCHANGED <<line, lines, data, node>>

\* EXEC: the programs are the files "e" and "c"; exec of anything else fails.
RunExec(p) ==
    LET argv == proc[p].cmd.argv
        name == proc[p].str[argv[1][1]]
    IN  /\ Does(p, "EXEC")
        /\ proc' = IF argv = <<>> THEN Exited(p)
                   ELSE IF name \notin {"e", "c"} THEN Exited(p)
                   ELSE [proc EXCEPT ![p].pc = name, ![p].n = IF name = "e" THEN Burst ELSE 0]
        /\ UNCHANGED <<line, lines, data, node, failed>>

\* REDIR: close, then open takes the lowest descriptor; a file that is not there
\* ("x") cannot be opened for reading.
RunRedir(p) ==
    LET c == proc[p].cmd
        t == close(proc[p].fd, c.fd)
    IN  /\ Does(p, "REDIR")
        /\ proc' = IF c.fd = 0 /\ proc[p].str[c.file[1]] = "x" THEN Exited(p)
                   ELSE [proc EXCEPT ![p] = [Part(p, c.cmd, "c") EXCEPT
                                               !.fd = fdalloc(t, <<"file", c.file[1]>>)]]
        /\ UNCHANGED <<line, lines, data, node, failed>>

\* LIST: the left part in a child, wait for it, the right part.
RunList(p) == Does(p, "LIST") /\ Fork1(p, "list", Part(p, proc[p].cmd.left, "l"))
ListWait(p) ==
    /\ Running(p, "list") /\ Waited(p, Part(p, proc[p].cmd.right, "r"))
    /\ UNCHANGED <<line, lines, data, node, failed>>

\* BACK: a child, and no wait.
RunBack(p) == Does(p, "BACK")
    /\ Fork1(p, "exit", [Part(p, proc[p].cmd.cmd, "c") EXCEPT !.bg = TRUE])

\* PIPE: pipe(p) takes the two lowest descriptors; one child for each side; each
\* moves its end to descriptor 1 or 0 and closes both others.
Ends(p) == LET f == Lowest(proc[p].fd) IN <<f, Lowest([proc[p].fd EXCEPT ![f] = Console])>>
RunPipe(p) ==
    LET k == Min(FreePipes)
        bad == Cardinality(FreeFds(proc[p].fd)) < 2 \/ FreePipes = {}
    IN  /\ Does(p, "PIPE")
        /\ IF bad THEN proc' = Exited(p) /\ failed' = TRUE /\ UNCHANGED <<data, node>>
           ELSE /\ proc' = [proc EXCEPT ![p].pc = "left", ![p].ends = Ends(p),
                              ![p].fd = fdalloc(fdalloc(@, <<"r", k>>), <<"w", k>>)]
                /\ data' = [data EXCEPT ![k] = 0] /\ node' = [node EXCEPT ![k] = proc[p].at]
                /\ UNCHANGED failed
        /\ UNCHANGED <<line, lines>>
\* Mutant: the right side keeps the write end it got from its parent.
PipeSide_KeepsEnd(p, mine, std) ==
    LET e == proc[p].ends
        t == close(dup(close(proc[p].fd, std), mine), e[1])
    IN  IF std = 1 THEN close(t, e[2]) ELSE t
PipeSide(p, mine, std) ==
    LET e == proc[p].ends
    IN  close(close(dup(close(proc[p].fd, std), mine), e[1]), e[2])
PipeLeft(p) ==
    /\ Running(p, "left")
    /\ Fork1(p, "right", [Part(p, proc[p].cmd.left, "l") EXCEPT
                            !.fd = PipeSide(p, proc[p].ends[2], 1)])
PipeRight(p) ==
    /\ Running(p, "right")
    /\ Fork1(p, "close", [Part(p, proc[p].cmd.right, "r") EXCEPT
                            !.fd = PipeSide(p, proc[p].ends[1], 0)])
\* Mutant: the shell in the middle keeps the write end while it waits.
PipeClose_KeepsEnd(p) ==
    /\ Running(p, "close")
    /\ proc' = [proc EXCEPT ![p].pc = "wait1", ![p].fd = close(@, proc[p].ends[1])]
    /\ UNCHANGED <<line, lines, data, node, failed>>
PipeClose(p) ==
    /\ Running(p, "close")
    /\ proc' = [proc EXCEPT ![p].pc = "wait1",
                            ![p].fd = close(close(@, proc[p].ends[1]), proc[p].ends[2])]
    /\ UNCHANGED <<line, lines, data, node, failed>>
\* Mutant: one wait for the two children.
PipeWait_Once(p) ==
    /\ Running(p, "wait1") /\ Waited(p, [proc[p] EXCEPT !.pc = "exit"])
    /\ UNCHANGED <<line, lines, data, node, failed>>
PipeWait(p) ==
    /\ proc[p].pc \in {"wait1", "wait2"} /\ Running(p, proc[p].pc)
    /\ Waited(p, [proc[p] EXCEPT !.pc = IF @ = "wait1" THEN "wait2" ELSE "exit"])
    /\ UNCHANGED <<line, lines, data, node, failed>>
Exit(p) ==
    /\ Running(p, "exit") /\ proc' = Exited(p)
    /\ UNCHANGED <<line, lines, data, node, failed>>

(***************************************************************************)
(* The programs                                                            *)
(***************************************************************************)
\* read of one byte: from a pipe, or the end of the input.
Read(p) ==
    LET d == proc[p].fd[0]
    IN  /\ Running(p, "c") /\ proc[p].n = 0
        /\ IF d[1] = "r" /\ data[d[2]] > 0
           THEN proc' = [proc EXCEPT ![p].n = 1] /\ data' = [data EXCEPT ![d[2]] = @ - 1]
           ELSE /\ d[1] = "r" => ~Held(<<"w", d[2]>>)
                /\ proc' = Exited(p) /\ UNCHANGED data
        /\ UNCHANGED <<line, lines, node, failed>>
\* write of one byte, whose result neither program looks at; "e" exits after the last.
Write(p) ==
    LET d == proc[p].fd[1]
    IN  /\ proc[p].pc \in {"e", "c"} /\ Running(p, proc[p].pc) /\ proc[p].n > 0
        /\ IF d[1] = "w" /\ data[d[2]] < PIPESIZE THEN data' = [data EXCEPT ![d[2]] = @ + 1]
           ELSE (d[1] = "w" => ~Held(<<"r", d[2]>>)) /\ UNCHANGED data
        /\ proc' = IF proc[p].pc = "e" /\ proc[p].n = 1 THEN Exited(p)
                   ELSE [proc EXCEPT ![p].n = @ - 1]
        /\ UNCHANGED <<line, lines, node, failed>>

(***************************************************************************)
Step(p) ==
    \/ ShOpen(p)
    \/ ShWait(p)
    \/ Parse(p)
    \/ RunExec(p)
    \/ RunRedir(p)
    \/ RunList(p)
    \/ ListWait(p)
    \/ RunBack(p)
    \/ RunPipe(p)
    \/ PipeLeft(p)
    \/ PipeRight(p)
    \/ PipeClose(p)
    \/ PipeWait(p)
    \/ Exit(p)
    \/ Read(p)
    \/ Write(p)

Init ==
    /\ line \in Typed \cup {<<>>}
    /\ proc = [p \in Proc |->
                 IF p = init THEN [Unused EXCEPT !.state = "RUN", !.fd = Std,
                                                 !.pc = IF line = <<>> THEN "fork" ELSE "off"]
                 ELSE Unused]
    /\ data = [k \in PipeId |-> 0] /\ node = [k \in PipeId |-> <<>>] /\ failed = FALSE
    /\ lines = 0

Next ==
    \/ InitFork
    \/ InitWait
    \/ \E p \in Proc : Step(p)
    \/ \E p \in Proc : ShGetcmd(p)
    \/ \E p \in Proc : ShEof(p)

\* Every process that can go on does; the user need not type.
Fairness == WF_vars(InitFork) /\ WF_vars(InitWait) /\ \A p \in Proc : WF_vars(Step(p))
Spec == Init /\ [][Next]_vars /\ Fairness

(***************************************************************************)
(* Properties                                                              *)
(***************************************************************************)
off == proc[init].pc = "off"

\* The recursive-descent parser of sh.c builds, for every string, the command the
\* grammar gives it, and panics exactly on the strings outside the grammar: blanks
\* and `>>' in gettoken, empty commands, nesting, the order of redirections, the
\* limit on arguments and what parsecmd finds left over.  The NULs that nulterminate
\* then writes into the line make a string of every word and damage none.
IsWord(s, w) == SubSeq(s, w[1], Until(s, w[1], {}) - 1) = SubSeq(line, w[1], w[2] - 1)
ParseRight ==
    off => LET cmd == parsecmd(line) IN
           /\ cmd = RefLine(Tokens(line))
           /\ cmd # Syntax => \A w \in WordsOf(cmd) : IsWord(nulterminate(line, cmd), w)

\* grep's backtracking matcher accepts a text exactly when the pattern, read as a
\* sequence of items, can reach its end: stars, dots, both anchors, and the places
\* where these characters stand for themselves.
Sample == UNION {[1..n -> {"a", "*"}] : n \in 0..2}
MatchRight == off => \A text \in Sample : match(line, text) = RefMatch(line, text)

\* The bytes of a typed string from place i on, where a dot stands for a NUL, and
\* after them a buffer of n bytes that holds something else.
Bytes(s) == [i \in DOMAIN s |-> IF s[i] = "." THEN NUL ELSE s[i]]
Source(i) == Drop(Bytes(line), i) \o <<NUL>>
Buffer(n) == [k \in 1..n |-> "%"]
Chars(m, s) == SubSeq(m, s, s + strlen(m, s) - 1)

\* memmove copies the right bytes however source and destination overlap, the one of
\* the user library unless the destination is above the source; memset stores the
\* same by words as by bytes.
MoveRight(m) ==
    \A n \in 0..Len(m) : \A d, s \in 1..(Len(m) - n + 1) :
      /\ memmove(m, d, s, n) = Moved(m, d, s, n)
      /\ ~(s < d /\ s + n > d) => umemmove(m, d, s, n) = Moved(m, d, s, n)
      /\ memset(m, d, "%", n) = Fill(m, d, "%", n)
      /\ memcmp(m, d, s, n) = 0 <=> SubSeq(m, d, d + n - 1) = SubSeq(m, s, s + n - 1)

\* A name t stored with strncpy in a field of n bytes is found again by strncmp, and
\* under no name u that differs in its first n characters; safestrcpy writes n bytes
\* at most and always a terminated prefix.
StoreRight(tt, uu, n) ==
    LET m == tt \o uu \o Buffer(n + 1)
        t == 1
        u == Len(tt) + 1
        s == u + Len(uu)
        a == strncpy(m, s, t, n)
        b == safestrcpy(m, s, t, n)
        Cut(x) == SubSeq(Chars(m, x), 1, Min({n, strlen(m, x)}))
    IN  /\ strncmp(a, u, s, n) = 0 <=> Cut(u) = Cut(t)
        /\ \A k \in DOMAIN m \ (s..(s + n - 1)) : a[k] = m[k] /\ b[k] = m[k]
        /\ Chars(b, s) = SubSeq(Chars(m, t), 1, Min({n - 1, strlen(m, t)}))
        /\ strcmp(m, t, u) = 0 <=> Chars(m, t) = Chars(m, u)
        /\ strlen(m, t) < Len(uu) => Chars(strcpy(m, u, t), u) = Chars(m, t)

\* The way of a file name through the kernel.  skipelem and the loop of namex take
\* every path apart into its names, cut to DIRSIZ characters, however many slashes
\* lead, separate or trail, and nameiparent's test recognises the last name; the
\* routines of string.c that copy, store and compare names do so for every overlap,
\* length and field size.
NamesRight ==
    off => /\ namex(line) = RefNames(line)
           /\ Len(line) > 5 => MoveRight(Bytes(line) \o <<"a">>)
           /\ "." \in ToSet(line) =>
                \A i, j \in 0..Len(line), n \in 1..2 : StoreRight(Source(i), Source(j), n)

\* printf and cprintf, with a state and by looking ahead, take formats apart the same
\* way except for %c and a % at the end; numbers come out right in both bases, the
\* most negative one and 0 included, and atoi reads back what was printed.  %c is
\* printf's only: the comment above printf (printf.c:38), "Only understands %d, %x, %p,
\* %s.", leaves it out, and that comment is not what is checked.
Edges == {0, 1, WORD \div 2 - 1, WORD \div 2, WORD - 1}
PrintRight ==
    off /\ "%" \in ToSet(line) => \A x \in Edges :
      LET w == [args |-> [k \in 1..3 |-> (x + 7 * (k - 1)) % WORD],
                at   |-> [y \in 0..(WORD - 1) |-> IF y % 2 = 0 THEN <<>> ELSE <<"%", "d">>],
                chr  |-> [y \in 0..(WORD - 1) |-> IF y % 2 = 0 THEN "a" ELSE "%"]]
      IN  /\ printf(line, w) = RefPrintf(line, Conversions \cup {"c"}, w)
          /\ cprintf(line, w) = RefPrintf(line, Conversions, w)
          /\ Int32(x) >= 0 => atoi(printf(<<"%", "d">>, w)) = x

\* What a program's descriptor must be connected to: the nearest redirection or pipe
\* above it in the command.
SubAt(c, at) == FoldLeft(LAMBDA x, s : CASE s = "l" -> x.left [] s = "r" -> x.right [] OTHER -> x.cmd,
                         c, at)
Decides(c, at, i, f) ==
    LET x == SubAt(c, SubSeq(at, 1, i - 1))
    IN  \/ x.type = "REDIR" /\ x.fd = f
        \/ x.type = "PIPE" /\ at[i] = (IF f = 0 THEN "r" ELSE "l")
Connected(p, f) ==
    LET at == proc[p].at
        D == {i \in 1..Len(at) : Decides(proc[p].top, at, i, f)}
        x == SubAt(proc[p].top, SubSeq(at, 1, Max(D) - 1))
        d == proc[p].fd[f]
    IN  IF D = {} THEN d = Console
        ELSE IF x.type = "REDIR" THEN d = <<"file", x.file[1]>>
        ELSE d[1] = (IF f = 0 THEN "r" ELSE "w") /\ node[d[2]] = SubSeq(at, 1, Max(D) - 1)

\* A program starts with descriptors 0, 1 and 2 and no other, its input and output
\* connected as the command line says: the closes and dups of the shells between it
\* and the prompt leave no pipe end behind and hit the right descriptors.
Wired ==
    \A p \in Proc : proc[p].pc \in {"e", "c"} =>
        /\ {f \in Fd : proc[p].fd[f] # None} = 0..2 /\ proc[p].fd[2] = Console
        /\ Connected(p, 0) /\ Connected(p, 1)

\* When the shell prompts again no part of a line it ran is still at work except what
\* a `&' put in the background, and the shell has no child left; a failed fork or
\* pipe may leave the other half of a pipeline behind.
ForegroundDone ==
    \A s \in Proc : proc[s].pc = "prompt" =>
        /\ Kids(s) = {} /\ proc[s].fd = Std
        /\ failed \/ Quiet(s)

\* Every command line ends: the shell that waits for it gets back to its prompt.  A
\* pipe end left open anywhere would keep a reader from its end of file for ever.
PromptReturns ==
    (\E s \in Proc \ {init} : Running(s, "wait")) ~> (\E s \in Proc : Running(s, "prompt"))
=============================================================================

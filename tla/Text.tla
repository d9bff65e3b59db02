-------------------------------- MODULE Text --------------------------------
(***************************************************************************)
(* The programs' algorithms on text, as functions: the shell's parser      *)
(* (sh.c), the path splitter of the file system (fs.c skipelem) and the    *)
(* pattern matcher of grep (grep.c), each with a reference definition that *)
(* is built another way.  A string is a sequence of one-character strings; *)
(* reading past its end gives the terminating NUL, written "".             *)
(***************************************************************************)
EXTENDS Integers, Sequences, SequencesExt, FiniteSets, FiniteSetsExt

CONSTANTS MAXARGS,   \* arguments a command may have, one less than that in fact
          DIRSIZ     \* characters of a file name that count

ASSUME TextAssumption == {MAXARGS, DIRSIZ} \subseteq Nat \ {0}

whitespace == {" "}
symbols == {"<", "|", ">", "&", ";", "(", ")"}
At(s, i) == IF i \in DOMAIN s THEN s[i] ELSE ""
Drop(s, i) == SubSeq(s, i + 1, Len(s))

\* First position from i on whose character is not in C.
Skip(s, i, C) == Min({j \in i..(Len(s) + 1) : At(s, j) \notin C})
\* First position from i on that ends the string or holds a character of C.
Until(s, i, C) == Min({j \in i..(Len(s) + 1) : At(s, j) \in C \cup {""}})

(***************************************************************************)
(* Commands.  A word is the pair of positions <<q, eq>> that delimits it.  *)
(***************************************************************************)
execcmd(argv) == [type |-> "EXEC", argv |-> argv]
redircmd(cmd, file, fd) == [type |-> "REDIR", cmd |-> cmd, file |-> file, fd |-> fd]
pipecmd(left, right) == [type |-> "PIPE", left |-> left, right |-> right]
listcmd(left, right) == [type |-> "LIST", left |-> left, right |-> right]
backcmd(cmd) == [type |-> "BACK", cmd |-> cmd]
Syntax == [type |-> "SYNTAX"]      \* the parser panicked

\* Mutant: `>>' is two tokens.
gettoken_Single(s, i) ==
    LET q == Skip(s, i, whitespace)
        c == At(s, q)
        e == IF c = "" THEN q ELSE IF c \in symbols THEN q + 1
             ELSE Until(s, q, whitespace \cup symbols)
    IN  [tok |-> IF c \in symbols \cup {""} THEN c ELSE "a", word |-> <<q, e>>,
         i |-> Skip(s, e, whitespace)]
\* gettoken: the token at or after i ("+" stands for >>, "a" for a word), where it
\* starts and ends, and the position after it and the blanks that follow.
gettoken(s, i) ==
    LET q == Skip(s, i, whitespace)
        c == At(s, q)
        two == c = ">" /\ At(s, q + 1) = ">"
        e == IF c = "" THEN q ELSE IF two THEN q + 2 ELSE IF c \in symbols THEN q + 1
             ELSE Until(s, q, whitespace \cup symbols)
    IN  [tok |-> IF two THEN "+" ELSE IF c \in symbols \cup {""} THEN c ELSE "a",
         word |-> <<q, e>>, i |-> Skip(s, e, whitespace)]

\* peek: is the next character that is not blank one of toks?
peek(s, i, toks) == At(s, Skip(s, i, whitespace)) \in toks

\* A parser returns the command and the position it stopped at.
Res(cmd, i) == [cmd |-> cmd, i |-> i]
Failed(r) == r.cmd = Syntax

\* B(e), with e evaluated once.
With(e, B(_)) == CHOOSE v \in {B(w) : w \in {e}} : TRUE

RECURSIVE parseline(_, _), parsepipe(_, _), parseredirs(_, _, _), parseargs(_, _, _, _),
          parseback(_, _), redirect(_, _)

\* parseredirs: the redirections at i, the last one outermost; here as the sequence
\* of <<file, fd>>, applied to the command by redirect.
parseredirs(s, i, rs) ==
    LET op == gettoken(s, i)
        f  == gettoken(s, op.i)
        r  == Append(rs, <<f.word, IF op.tok = "<" THEN 0 ELSE 1>>)
    IN  IF ~peek(s, i, {"<", ">"}) THEN [rs |-> rs, i |-> i, ok |-> TRUE]
        ELSE IF f.tok # "a" THEN [rs |-> rs, i |-> i, ok |-> FALSE]
        ELSE With(<<f.i, r>>, LAMBDA x : parseredirs(s, x[1], x[2]))
redirect(cmd, rs) ==
    IF rs = <<>> THEN cmd ELSE redircmd(redirect(cmd, Front(rs)), Last(rs)[1], Last(rs)[2])

\* Mutant: room for the word, but not for the null after it.
TooMany_Late(argv) == Len(argv) + 1 > MAXARGS

\* No room for one more argument and the null after it.
TooMany(argv) == Len(argv) + 1 >= MAXARGS

\* The loop of parseexec over words and redirections.
parseargs(s, i, argv, rs) ==
    LET Rest(r, t) ==
            IF ~r.ok THEN Res(Syntax, i)
            ELSE IF peek(s, r.i, {"|", ")", "&", ";"}) \/ t.tok = ""
            THEN Res(redirect(execcmd(argv), r.rs), r.i)
            ELSE IF t.tok # "a" \/ TooMany(argv) THEN Res(Syntax, i)
            ELSE parseargs(s, t.i, Append(argv, t.word), r.rs)
    IN  With(parseredirs(s, i, rs), LAMBDA r : With(gettoken(s, r.i), LAMBDA t : Rest(r, t)))

\* parseblock: ( line ) and its redirections.
parseblock(s, i) ==
    LET Close(l, r) == IF Failed(l) \/ ~peek(s, l.i, {")"}) \/ ~r.ok THEN Res(Syntax, i)
                       ELSE Res(redirect(l.cmd, r.rs), r.i)
    IN  With(parseline(s, gettoken(s, i).i),
             LAMBDA l : Close(l, parseredirs(s, gettoken(s, l.i).i, <<>>)))

parseexec(s, i) ==
    IF peek(s, i, {"("}) THEN parseblock(s, i) ELSE parseargs(s, i, <<>>, <<>>)

\* l, and after one of the characters ops a second command, joined to it by Join.
Joined(s, l, ops, Parse(_, _), Join(_, _)) ==
    IF Failed(l) \/ ~peek(s, l.i, ops) THEN l
    ELSE With(Parse(s, gettoken(s, l.i).i),
              LAMBDA r : IF Failed(r) THEN r ELSE Res(Join(l.cmd, r.cmd), r.i))

parsepipe(s, i) ==
    With(parseexec(s, i), LAMBDA l : Joined(s, l, {"|"}, parsepipe, pipecmd))

\* parseline: a pipe, its `&'s, and after a `;' the rest of the line.
parseback(s, r) ==
    IF Failed(r) \/ ~peek(s, r.i, {"&"}) THEN r
    ELSE With(Res(backcmd(r.cmd), gettoken(s, r.i).i), LAMBDA x : parseback(s, x))
parseline(s, i) ==
    With(parsepipe(s, i), LAMBDA p :
        With(parseback(s, p), LAMBDA l : Joined(s, l, {";"}, parseline, listcmd)))

\* parsecmd: the whole string must have been used up.
parsecmd(s) ==
    With(parseline(s, 1),
         LAMBDA r : IF Skip(s, r.i, whitespace) # Len(s) + 1 THEN Syntax ELSE r.cmd)

\* nulterminate: the words' ends become NULs, so that argv and file are strings.
RECURSIVE WordsOf(_)
WordsOf(cmd) ==
    CASE cmd.type = "EXEC" -> ToSet(cmd.argv)
      [] cmd.type = "REDIR" -> WordsOf(cmd.cmd) \cup {cmd.file}
      [] cmd.type = "BACK" -> WordsOf(cmd.cmd)
      [] OTHER -> WordsOf(cmd.left) \cup WordsOf(cmd.right)
nulterminate(s, cmd) ==
    [i \in DOMAIN s |-> IF \E w \in WordsOf(cmd) : w[2] = i THEN "" ELSE s[i]]

(***************************************************************************)
(* skipelem: the next name of a path and what follows it.                  *)
(***************************************************************************)
\* Mutant: the slashes after the name are left in place.
skipelem_Slash(path) ==
    LET b == Skip(path, 1, {"/"})
        e == Until(path, b, {"/"})
    IN  [last |-> At(path, b) = "", name |-> SubSeq(path, b, Min({e - 1, b + DIRSIZ - 1})),
         rest |-> Drop(path, e - 1)]
skipelem(path) ==
    LET b == Skip(path, 1, {"/"})
        e == Until(path, b, {"/"})
    IN  [last |-> At(path, b) = "", name |-> SubSeq(path, b, Min({e - 1, b + DIRSIZ - 1})),
         rest |-> Drop(path, Skip(path, e, {"/"}) - 1)]

\* namex's loop: the names looked up in turn, and whether nameiparent stops before
\* the last of them: it tests that nothing follows.
RECURSIVE namex(_)
namex(path) ==
    LET r == skipelem(path)
    IN  IF r.last THEN <<>> ELSE <<<<r.name, r.rest = <<>>>>>> \o namex(r.rest)

(***************************************************************************)
(* match, matchhere, matchstar of grep                                     *)
(***************************************************************************)
RECURSIVE matchhere(_, _), matchstar(_, _, _)
\* Mutant: a star needs one instance.
matchstar_Plus(c, re, text) ==
    /\ text # <<>> /\ (c = "." \/ At(text, 1) = c)
    /\ matchhere(re, Tail(text)) \/ matchstar(c, re, Tail(text))
matchstar(c, re, text) ==
    \/ matchhere(re, text)
    \/ text # <<>> /\ (At(text, 1) = c \/ c = ".") /\ matchstar(c, re, Tail(text))
matchhere(re, text) ==
    IF re = <<>> THEN TRUE
    ELSE IF At(re, 2) = "*" THEN matchstar(re[1], Drop(re, 2), text)
    ELSE IF re = <<"$">> THEN text = <<>>
    ELSE text # <<>> /\ (re[1] = "." \/ re[1] = text[1]) /\ matchhere(Tail(re), Tail(text))
match(re, text) ==
    IF At(re, 1) = "^" THEN matchhere(Tail(re), text)
    ELSE \E i \in 0..Len(text) : matchhere(re, Drop(text, i))

(***************************************************************************)
(* Reference definitions                                                   *)
(***************************************************************************)
\* The tokens of a line, from their first positions: a `>' that follows an odd run
\* of `>' belongs to the one before; other symbols stand alone; a word is a maximal
\* run of anything else.
Plain(s, i) == At(s, i) \notin whitespace \cup symbols \cup {""}
Run(s, i) == Cardinality({j \in 1..(i - 1) : \A k \in j..(i - 1) : s[k] = ">"})
Starts(s) == {i \in 1..Len(s) : \/ Plain(s, i) /\ ~Plain(s, i - 1)
                                \/ s[i] \in symbols /\ (s[i] = ">" => Run(s, i) % 2 = 0)}
Token(s, i) ==
    IF Plain(s, i) THEN <<"a", <<i, Min({j \in i..(Len(s) + 1) : ~Plain(s, j)})>>>>
    ELSE IF s[i] = ">" /\ i + 1 \notin Starts(s) /\ At(s, i + 1) = ">" THEN <<"+", <<>>>>
    ELSE <<s[i], <<>>>>
Tokens(s) == LET S == SetToSortSeq(Starts(s), LAMBDA i, j : i < j)
             IN  [k \in 1..Len(S) |-> Token(s, S[k])]

\* The grammar, by cutting at operators outside all parentheses.
Depth(t, i) == Cardinality({k \in 1..(i - 1) : t[k][1] = "("})
                 - Cardinality({k \in 1..(i - 1) : t[k][1] = ")"})
Outer(t, op) == {i \in 1..Len(t) : t[i][1] = op /\ Depth(t, i) = 0}
Both(F(_, _), l, r) == IF Syntax \in {l, r} THEN Syntax ELSE F(l, r)
Redir == {"<", ">", "+"}
RefRedirect(cmd, t) ==
    LET R == SelectSeq([i \in 1..Len(t) |-> i], LAMBDA i : t[i][1] \in Redir)
    IN  IF \E i \in 1..Len(t) : t[i][1] \in Redir /\ (i = Len(t) \/ t[i + 1][1] # "a")
        THEN Syntax
        ELSE FoldLeft(LAMBDA c, i : redircmd(c, t[i + 1][2], IF t[i][1] = "<" THEN 0 ELSE 1),
                      cmd, R)
Words(t) == SelectSeq([i \in 1..Len(t) |-> i],
                      LAMBDA i : t[i][1] = "a" /\ (i > 1 => t[i - 1][1] \notin Redir))

RECURSIVE RefLine(_), RefPipe(_), RefBack(_, _)
RefExec(t) ==
    LET close == Min({i \in 1..Len(t) : i > 1 /\ Depth(t, i + 1) = 0})
    IN  IF t # <<>> /\ t[1][1] = "("
        THEN IF Depth(t, Len(t) + 1) # 0 \/ Words(Drop(t, close)) # <<>> THEN Syntax
             ELSE IF \E i \in (close + 1)..Len(t) : t[i][1] \notin Redir \cup {"a"} THEN Syntax
             ELSE LET c == RefLine(SubSeq(t, 2, close - 1))
                  IN  IF c = Syntax THEN Syntax ELSE RefRedirect(c, Drop(t, close))
        ELSE IF (\E i \in 1..Len(t) : t[i][1] \notin Redir \cup {"a"})
                  \/ Len(Words(t)) >= MAXARGS THEN Syntax
        ELSE RefRedirect(execcmd([k \in 1..Len(Words(t)) |-> t[Words(t)[k]][2]]), t)
RefPipe(t) ==
    LET bars == Outer(t, "|")
    IN  IF bars = {} THEN RefExec(t)
        ELSE Both(pipecmd, RefExec(SubSeq(t, 1, Min(bars) - 1)), RefPipe(Drop(t, Min(bars))))
RefBack(c, n) == IF c = Syntax \/ n = 0 THEN c ELSE backcmd(RefBack(c, n - 1))
RefAmps(t) ==
    LET n == Cardinality({i \in 1..Len(t) : \A j \in i..Len(t) : t[j][1] = "&"})
        body == SubSeq(t, 1, Len(t) - n)
    IN  IF Outer(body, "&") # {} THEN Syntax ELSE RefBack(RefPipe(body), n)
RefLine(t) ==
    LET semis == Outer(t, ";")
    IN  IF semis = {} THEN RefAmps(t)
        ELSE Both(listcmd, RefAmps(SubSeq(t, 1, Min(semis) - 1)), RefLine(Drop(t, Min(semis))))

\* The names of a path: its maximal runs without a slash, cut to DIRSIZ.
RefNames(s) ==
    LET B == {i \in 1..Len(s) : s[i] # "/" /\ At(s, i - 1) \in {"", "/"}}
        S == SetToSortSeq(B, LAMBDA i, j : i < j)
        E(b) == Max({j \in b..Len(s) : \A k \in b..j : s[k] # "/"})
    IN  [k \in 1..Len(S) |-> <<SubSeq(s, S[k], Min({E(S[k]), S[k] + DIRSIZ - 1})), k = Len(S)>>]

\* A pattern as items; the positions of the text reached after each of them.
RECURSIVE Items(_)
Items(re) == IF re = <<>> THEN <<>>
             ELSE IF At(re, 2) = "*" THEN <<<<re[1], "*">>>> \o Items(Drop(re, 2))
             ELSE IF re = <<"$">> THEN <<<<"", "$">>>>
             ELSE <<<<re[1], "1">>>> \o Items(Tail(re))
Reach(text, P, item) ==
    LET Fits(i) == item[1] \in {".", text[i]}
    IN  CASE item[2] = "1" -> {p + 1 : p \in {q \in P : q < Len(text) /\ Fits(q + 1)}}
          [] item[2] = "$" -> P \cap {Len(text)}
          [] OTHER -> {q \in 0..Len(text) : \E p \in P : p <= q /\ \A i \in (p + 1)..q : Fits(i)}
RefMatch(re, text) ==
    LET start == At(re, 1) = "^"
    IN  FoldLeft(LAMBDA P, item : Reach(text, P, item),
                 IF start THEN {0} ELSE 0..Len(text), Items(IF start THEN Tail(re) ELSE re)) # {}
=============================================================================

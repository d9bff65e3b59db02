------------------------------ MODULE Strings -------------------------------
(***************************************************************************)
(* The byte and string routines of the kernel (string.c) and of the user   *)
(* library (ulib.c), and printf and cprintf.  Memory is a sequence of      *)
(* characters, an address an index into it, NUL the empty string.  A word  *)
(* of memory has 4 bytes; an int has WORD values.                          *)
(***************************************************************************)
EXTENDS Integers, Sequences, SequencesExt, FiniteSets, FiniteSetsExt

CONSTANT WORD      \* 2^32

ASSUME StringsAssumption == WORD \in Nat /\ WORD % 2 = 0 /\ WORD > 16

NUL == ""
Up(n)   == [k \in 1..n |-> k - 1]
Down(n) == [k \in 1..n |-> n - k]

\* *(d + k) = *(s + k), for the ks of a sequence in turn.
Copy(m, d, s, ks) == FoldLeft(LAMBDA x, k : [x EXCEPT ![d + k] = x[s + k]], m, ks)
Fill(m, d, c, n)  == [i \in DOMAIN m |-> IF i \in d..(d + n - 1) THEN c ELSE m[i]]

\* memset() stores words if it can.
memset(m, d, c, n) ==
    IF d % 4 = 0 /\ n % 4 = 0
    THEN FoldLeft(LAMBDA x, k : Fill(x, d + 4 * k, c, 4), m, Up(n \div 4))
    ELSE Fill(m, d, c, n)

\* Mutant: always upwards.
memmove_Up(m, d, s, n) == Copy(m, d, s, Up(n))
memmove(m, d, s, n) == Copy(m, d, s, IF s < d /\ s + n > d THEN Down(n) ELSE Up(n))
\* The one of ulib.c.
umemmove(m, d, s, n) == Copy(m, d, s, Up(n))

strlen(m, s) == Min({n \in 0..Len(m) : s + n <= Len(m) /\ m[s + n] = NUL})

strncpy(m, s, t, n) ==
    LET c == Min({n, strlen(m, t) + 1})
    IN  Fill(Copy(m, s, t, Up(c)), s + c, NUL, n - c)

safestrcpy(m, s, t, n) ==
    LET c == Min({n - 1, strlen(m, t) + 1})
    IN  IF n <= 0 THEN m ELSE Fill(Copy(m, s, t, Up(c)), s + c, NUL, 1)

\* strcpy() of ulib.c.
strcpy(m, s, t) == Copy(m, s, t, Up(strlen(m, t) + 1))

\* Comparisons are against the characters' codes.
Codes == <<NUL, " ", "$", "%", "&", "(", ")", "*", ".", "/", ";", "<", ">", "^", "a", "c", "d",
           "e", "f", "s", "x", "|">>
Code(c) == CHOOSE i \in DOMAIN Codes : Codes[i] = c
Stops(m, p, q, k) == m[p + k] = NUL \/ m[p + k] # m[q + k]
Stop(m, p, q, n)  == {k \in 0..(n - 1) : (\A i \in 0..(k - 1) : ~Stops(m, p, q, i)) /\ Stops(m, p, q, k)}
strncmp(m, p, q, n) ==
    LET K == Stop(m, p, q, n)
    IN  IF K = {} THEN 0 ELSE LET k == Min(K) IN Code(m[p + k]) - Code(m[q + k])
strcmp(m, p, q) == strncmp(m, p, q, Len(m))
memcmp(m, p, q, n) ==
    LET K == {k \in 0..(n - 1) : m[p + k] # m[q + k]}
    IN  IF K = {} THEN 0 ELSE LET k == Min(K) IN Code(m[p + k]) - Code(m[q + k])

-----------------------------------------------------------------------------
(* Numbers and formats.                                                     *)

\* The user library has the upper case letters.
digits == <<"0", "1", "2", "3", "4", "5", "6", "7", "8", "9", "a", "b", "c", "d", "e", "f">>

\* do buf[i++] = digits[x % base]; while((x /= base) != 0), read backwards.
RECURSIVE Written(_, _)
Written(x, base) ==
    (IF x \div base = 0 THEN <<>> ELSE Written(x \div base, base)) \o <<digits[(x % base) + 1]>>

Int32(x) == IF x >= WORD \div 2 THEN x - WORD ELSE x

\* Mutant: the sign is dropped before the conversion to unsigned.
printint_Positive(x, base, sgn) ==
    IF sgn /\ Int32(x) < 0 THEN <<"-">> \o Written(x, base) ELSE Written(x, base)
printint(x, base, sgn) ==
    IF sgn /\ Int32(x) < 0 THEN <<"-">> \o Written((WORD - x) % WORD, base) ELSE Written(x, base)

atoi(s) ==
    LET n == Min({i \in 1..(Len(s) + 1) : i > Len(s) \/ s[i] \notin ToSet(SubSeq(digits, 1, 10))}) - 1
    IN  FoldLeft(LAMBDA v, c : (v * 10 + (CHOOSE d \in 0..9 : digits[d + 1] = c)) % WORD,
                 0, SubSeq(s, 1, n))

\* What a conversion prints of the word x; at[x] is the string at that address and
\* chr[x] the character with that code.
Conversions == {"d", "x", "p", "s"}
Converted(c, x, w) ==
    CASE c = "d" -> printint(x, 10, TRUE)
      [] c \in {"x", "p"} -> printint(x, 16, FALSE)
      [] c = "s" -> IF x = 0 THEN <<"(", "n", "u", "l", "l", ")">> ELSE w.at[x]
      [] c = "c" -> <<w.chr[x]>>

\* printf() of the user library: one character at a time, in state 0 or '%'.
PrintfStep(a, c, w) ==
    CASE ~a.percent /\ c = "%" -> [a EXCEPT !.percent = TRUE]
      [] ~a.percent /\ c # "%" -> [a EXCEPT !.out = Append(@, c)]
      [] a.percent /\ c \in Conversions \cup {"c"} ->
           [percent |-> FALSE, ap |-> a.ap + 1, out |-> a.out \o Converted(c, w.args[a.ap], w)]
      [] a.percent /\ c = "%" -> [a EXCEPT !.percent = FALSE, !.out = Append(@, c)]
      [] OTHER -> [a EXCEPT !.percent = FALSE, !.out = @ \o <<"%", c>>]
printf(fmt, w) ==
    FoldLeft(LAMBDA a, c : PrintfStep(a, c, w), [percent |-> FALSE, ap |-> 1, out |-> <<>>], fmt).out

\* cprintf() of the kernel looks one character ahead, and has no %c.
RECURSIVE CprintfFrom(_, _, _, _)
CprintfFrom(fmt, i, n, w) ==
    LET c == fmt[i + 1] IN
    CASE i > Len(fmt) -> <<>>
      [] i <= Len(fmt) /\ fmt[i] # "%" -> <<fmt[i]>> \o CprintfFrom(fmt, i + 1, n, w)
      [] i = Len(fmt) /\ fmt[i] = "%" -> <<>>
      [] i < Len(fmt) /\ fmt[i] = "%" /\ c \in Conversions ->
           Converted(c, w.args[n], w) \o CprintfFrom(fmt, i + 2, n + 1, w)
      [] OTHER -> (IF c = "%" THEN <<>> ELSE <<"%">>) \o <<c>> \o CprintfFrom(fmt, i + 2, n, w)
cprintf(fmt, w) == CprintfFrom(fmt, 1, 1, w)

-----------------------------------------------------------------------------
(* Reference definitions.                                                   *)

\* All bytes read before any is written.
Moved(m, d, s, n) == [i \in DOMAIN m |-> IF i \in d..(d + n - 1) THEN m[s + i - d] ELSE m[i]]

\* x in a base, the k-th digit by itself.
Numeral(x, base) ==
    LET n == Max({1} \cup {k \in 1..8 : base ^ (k - 1) <= x})
    IN  [k \in 1..n |-> digits[((x \div base ^ (n - k)) % base) + 1]]
Shown(x) == IF Int32(x) < 0 THEN <<"-">> \o Numeral(-Int32(x), 10) ELSE Numeral(x, 10)

\* A % starts a conversion if it follows an even number of others; C are the letters
\* that take an argument.
Percents(fmt, i) == Cardinality({j \in 1..(i - 1) : \A k \in j..(i - 1) : fmt[k] = "%"})
Begins(fmt) == {i \in 1..Len(fmt) : fmt[i] = "%" /\ Percents(fmt, i) % 2 = 0}
Takes(fmt, C) == {i \in Begins(fmt) : i < Len(fmt) /\ fmt[i + 1] \in C}
RefConverted(c, x, w) ==
    CASE c = "d" -> Shown(x)
      [] c \in {"x", "p"} -> Numeral(x, 16)
      [] c = "c" -> <<w.chr[x]>>
      [] OTHER -> IF x = 0 THEN <<"(", "n", "u", "l", "l", ")">> ELSE w.at[x]
RefPart(fmt, C, w, i) ==
    CASE i \in Takes(fmt, C) ->
           RefConverted(fmt[i + 1], w.args[Cardinality({j \in Takes(fmt, C) : j <= i})], w)
      [] i \in Begins(fmt) \ Takes(fmt, C) -> IF i < Len(fmt) /\ fmt[i + 1] # "%" THEN <<"%">> ELSE <<>>
      [] i - 1 \in Takes(fmt, C) -> <<>>
      [] OTHER -> <<fmt[i]>>
RefPrintf(fmt, C, w) == FlattenSeq([i \in 1..Len(fmt) |-> RefPart(fmt, C, w, i)])
=============================================================================

------------------------------- MODULE Rings ---------------------------------
(***************************************************************************)
(* Ring buffers indexed by wrapping counters, as pipe.c and console.c have *)
(* them: lemmas about remainders, counters below W that index P places     *)
(* where P divides W, and sequences given element by element.              *)
(***************************************************************************)
EXTENDS Integers, Sequences, TLAPS

-----------------------------------------------------------------------------
(* Remainders.                                                              *)

\* Division with remainder.
LEMMA DivMod ==
  ASSUME NEW P \in Nat \ {0}, NEW x \in Int
  PROVE  x \div P \in Int /\ x = (x \div P) * P + (x % P) /\ x % P \in 0 .. P - 1
  BY Z3

\* The only multiple of P between -P and P is 0.
LEMMA MultSmall ==
  ASSUME NEW P \in Nat \ {0}, NEW k \in Int, k * P < P, k * P > -P
  PROVE  k = 0
<1>1. k >= 1 => k * P >= P
  BY Z3
<1>2. k <= -1 => k * P <= -P
  BY Z3
<1>. QED  BY <1>1, <1>2, Z3

\* The remainder is unique.
LEMMA ModUnique ==
  ASSUME NEW P \in Nat \ {0}, NEW k \in Int, NEW r \in 0 .. P - 1
  PROVE  (k * P + r) % P = r
<1>. DEFINE x == k * P + r
            d == x \div P
<1>1. x \in Int
  BY Z3
<1>2. d \in Int /\ x = d * P + (x % P) /\ x % P \in 0 .. P - 1
  BY <1>1, DivMod, Zenon
<1>3. (k - d) * P = k * P - d * P
  BY <1>2, Z3
<1>4. k - d \in Int /\ (k - d) * P < P /\ (k - d) * P > -P
  BY <1>1, <1>2, <1>3, Z3
<1>5. k - d = 0
  BY <1>4, MultSmall
<1>. QED  BY <1>2, <1>5, Z3

\* A multiple of P may be added.
LEMMA ModMult ==
  ASSUME NEW P \in Nat \ {0}, NEW m \in Int, NEW x \in Int
  PROVE  (x + m * P) % P = x % P
<1>1. x \div P \in Int /\ x = (x \div P) * P + (x % P) /\ x % P \in 0 .. P - 1
  BY DivMod
<1>2. (x \div P) + m \in Int /\ ((x \div P) + m) * P + (x % P) = x + m * P
  BY <1>1, Z3
<1>3. (((x \div P) + m) * P + (x % P)) % P = x % P
  BY <1>1, <1>2, ModUnique, Zenon
<1>. QED  BY <1>2, <1>3

\* Numbers less than P apart have different remainders.
LEMMA ModDiff ==
  ASSUME NEW P \in Nat \ {0}, NEW x \in Int, NEW y \in Int, x < y, y < x + P
  PROVE  x % P # y % P
<1>. DEFINE a == x \div P
            b == y \div P
<1>1. a \in Int /\ x = a * P + (x % P) /\ x % P \in 0 .. P - 1
  BY DivMod
<1>2. b \in Int /\ y = b * P + (y % P) /\ y % P \in 0 .. P - 1
  BY DivMod
<1>. SUFFICES ASSUME x % P = y % P PROVE FALSE
  OBVIOUS
<1>3. b - a \in Int /\ (b - a) * P = y - x
  BY <1>1, <1>2, Z3
<1>4. b - a = 0
  BY <1>3, MultSmall, Z3
<1>. QED  BY <1>1, <1>2, <1>4, Z3

\* The distance of two counters below W, and what is left of a sum.
LEMMA Distance ==
  ASSUME NEW W \in Nat \ {0}, NEW a \in 0 .. W - 1, NEW b \in 0 .. W - 1
  PROVE  (a - b) % W = IF a >= b THEN a - b ELSE a - b + W
<1>1. CASE a >= b
  BY <1>1, Z3
<1>2. CASE a < b
  BY <1>2, Z3
<1>. QED  BY <1>1, <1>2

LEMMA Sum ==
  ASSUME NEW W \in Nat \ {0}, NEW a \in 0 .. W - 1, NEW k \in 0 .. W - 1
  PROVE  (a + k) % W = IF a + k < W THEN a + k ELSE a + k - W
<1>1. CASE a + k < W
  BY <1>1, Z3
<1>2. CASE a + k >= W
  BY <1>2, Z3
<1>. QED  BY <1>1, <1>2, Z3

\* Advancing the leading counter by k widens the distance by k, advancing the other
\* one narrows it.
LEMMA Widens ==
  ASSUME NEW W \in Nat \ {0}, NEW a \in 0 .. W - 1, NEW b \in 0 .. W - 1,
         NEW k \in 0 .. W - 1, ((a - b) % W) + k < W
  PROVE  (a + k) % W \in 0 .. W - 1 /\ (((a + k) % W) - b) % W = ((a - b) % W) + k
<1>. DEFINE c == (a + k) % W
<1>1. c = IF a + k < W THEN a + k ELSE a + k - W
  BY Sum, Zenon
<1>2. (a - b) % W = IF a >= b THEN a - b ELSE a - b + W
  BY Distance
<1>3. c \in 0 .. W - 1
  BY <1>1, Z3
<1>4. (c - b) % W = IF c >= b THEN c - b ELSE c - b + W
  BY <1>3, Distance, Zenon
<1>. HIDE DEF c
<1>5. (c - b) % W = ((a - b) % W) + k
  BY <1>1, <1>2, <1>3, <1>4, Z3
<1>. QED  BY <1>3, <1>5 DEF c

LEMMA Narrows ==
  ASSUME NEW W \in Nat \ {0}, NEW a \in 0 .. W - 1, NEW b \in 0 .. W - 1,
         NEW k \in 0 .. (a - b) % W
  PROVE  (b + k) % W \in 0 .. W - 1 /\ (a - ((b + k) % W)) % W = ((a - b) % W) - k
<1>. DEFINE c == (b + k) % W
<1>2. (a - b) % W = IF a >= b THEN a - b ELSE a - b + W
  BY Distance
<1>0. k \in 0 .. W - 1
  BY <1>2, Z3
<1>1. c = IF b + k < W THEN b + k ELSE b + k - W
  BY <1>0, Sum, Zenon
<1>3. c \in 0 .. W - 1
  BY <1>0, <1>1, Z3
<1>4. (a - c) % W = IF a >= c THEN a - c ELSE a - c + W
  BY <1>3, Distance, Zenon
<1>. HIDE DEF c
<1>5. (a - c) % W = ((a - b) % W) - k
  BY <1>0, <1>1, <1>2, <1>3, <1>4, Z3
<1>. QED  BY <1>3, <1>5 DEF c

\* Dropping W changes no index.
LEMMA DropWhole ==
  ASSUME NEW P \in Nat \ {0}, NEW W \in Nat \ {0}, W % P = 0, NEW x \in Int
  PROVE  (x + W) % P = x % P
<1>. DEFINE m == W \div P
<1>1. m \in Int /\ W = m * P
  BY DivMod
<1>2. (x + m * P) % P = x % P
  BY <1>1, ModMult, Zenon
<1>. HIDE DEF m
<1>. QED  BY <1>1, <1>2

-----------------------------------------------------------------------------
(* Sequences.                                                               *)

\* A sequence is its elements.
LEMMA SameSeq ==
  ASSUME NEW S, NEW s \in Seq(S), NEW t \in Seq(S), Len(s) = Len(t),
         \A i \in 1 .. Len(s) : s[i] = t[i]
  PROVE  s = t
  OBVIOUS

\* A sequence that starts with s and goes on with t is s \o t.
LEMMA IsConcat ==
  ASSUME NEW S, NEW s \in Seq(S), NEW t \in Seq(S), NEW u \in Seq(S),
         Len(u) = Len(s) + Len(t),
         \A i \in 1 .. Len(s) : u[i] = s[i],
         \A j \in 1 .. Len(t) : u[Len(s) + j] = t[j]
  PROVE  u = s \o t
<1>1. /\ s \o t \in Seq(S) /\ Len(s \o t) = Len(s) + Len(t)
      /\ \A i \in 1 .. Len(s) + Len(t) : (s \o t)[i] = IF i <= Len(s) THEN s[i] ELSE t[i - Len(s)]
  OBVIOUS
<1>2. Len(s) \in Nat /\ Len(t) \in Nat
  OBVIOUS
<1>3. ASSUME NEW i \in 1 .. Len(s) + Len(t) PROVE u[i] = (s \o t)[i]
  <2>1. CASE i <= Len(s)
    BY <1>1, <1>2, <2>1
  <2>2. CASE i > Len(s)
    <3>1. i - Len(s) \in 1 .. Len(t) /\ Len(s) + (i - Len(s)) = i
      BY <1>2, <2>2
    <3>2. (s \o t)[i] = t[i - Len(s)]
      BY <1>1, <1>2, <2>2
    <3>. QED  BY <3>1, <3>2
  <2>. QED  BY <1>2, <2>1, <2>2
<1>. QED  BY <1>1, <1>3, SameSeq

\* The part of a sequence after place m, given element by element.
LEMMA IsSubSeq ==
  ASSUME NEW S, NEW s \in Seq(S), NEW u \in Seq(S), NEW m \in Nat, NEW n \in Nat,
         m <= n, n <= Len(s), Len(u) = n - m,
         \A i \in 1 .. n - m : u[i] = s[m + i]
  PROVE  u = SubSeq(s, m + 1, n)
<1>. DEFINE t == SubSeq(s, m + 1, n)
<1>1. \A i \in m + 1 .. n : s[i] \in S
  OBVIOUS
<1>2. t \in Seq(S) /\ Len(t) = n - m /\ \A i \in 1 .. n - m : t[i] = s[m + i]
  BY <1>1
<1>. HIDE DEF t
<1>3. u = t
  BY <1>2, SameSeq
<1>. QED  BY <1>3 DEF t
==============================================================================

-------------------------- MODULE SeekCommandLemmas --------------------------
(***************************************************************************)
(* What the parser of seek commands reads: a number from every command,    *)
(* and from a well-formed one the numbers it holds; for any digits and     *)
(* whatever memory never written is read as.                               *)
(***************************************************************************)
EXTENDS SeekCommand, SequenceTheorems, WellFoundedInduction, TLAPS

-----------------------------------------------------------------------------
(* Induction and recursion over the natural numbers, in forms that the     *)
(* provers can use: sets and functions in place of operators.              *)

(* Induction over the natural numbers, for a set in place of a predicate.  *)
LEMMA SetInduction ==
  ASSUME NEW T, 0 \in T, \A n \in Nat : n \in T => n + 1 \in T
  PROVE  \A n \in Nat : n \in T
  <1> SUFFICES ASSUME Nat \ T # {} PROVE FALSE
    OBVIOUS
  <1>1. PICK x \in Nat \ T : \A y \in Nat \ T : <<y, x>> \notin OpToRel(<, Nat)
    BY WFMin, NatLessThanWellFounded
  <1>2. \A y \in Nat \ T : ~ (y < x)
    BY <1>1 DEF OpToRel
  <1>3. x # 0 /\ x - 1 \in Nat
    OBVIOUS
  <1>4. x - 1 \in T
    BY <1>2, <1>3
  <1> QED
    BY <1>3, <1>4

(* A step of a recursion over 1 .. n with values in S, and a function that *)
(* starts at z and follows the steps.                                      *)
Steps(n, S) == [1 .. n -> [S -> S]]
Follows(f, n, z, step) == f[0] = z /\ \A k \in 1 .. n : f[k] = step[k][f[k - 1]]

(* A function defined by recursion over 0 .. n, each value from the one    *)
(* before, exists.                                                         *)
LEMMA RecursionExists ==
  ASSUME NEW n \in Nat, NEW S, NEW z \in S, NEW step \in Steps(n, S)
  PROVE  \E f \in [0 .. n -> S] : Follows(f, n, z, step)
  <1> USE DEF Steps, Follows
  <1> DEFINE R(m) == \E f \in [0 .. m -> S] : Follows(f, m, z, step)
             T == {m \in Nat : m <= n => R(m)}
  <1>1. 0 \in T
    <2> DEFINE f == [k \in 0 .. 0 |-> z]
    <2>1. f \in [0 .. 0 -> S] /\ f[0] = z
      OBVIOUS
    <2> HIDE DEF f
    <2>2. \A k \in 1 .. 0 : f[k] = step[k][f[k - 1]]
      OBVIOUS
    <2> QED
      BY <2>1, <2>2
  <1>2. ASSUME NEW m \in Nat, m \in T PROVE m + 1 \in T
    <2> SUFFICES ASSUME m + 1 <= n PROVE R(m + 1)
      OBVIOUS
    <2>1. PICK f \in [0 .. m -> S] : Follows(f, m, z, step)
      BY <1>2
    <2> DEFINE g == [k \in 0 .. m + 1 |-> IF k = m + 1 THEN step[m + 1][f[m]] ELSE f[k]]
    <2>2. step[m + 1][f[m]] \in S
      OBVIOUS
    <2>3. g \in [0 .. m + 1 -> S]
      BY <2>2
    <2>4. Follows(g, m + 1, z, step)
      <3>1. g[m + 1] = step[m + 1][f[m]] /\ \A k \in 0 .. m : g[k] = f[k]
        OBVIOUS
      <3> HIDE DEF g
      <3>2. ASSUME NEW k \in 1 .. m + 1 PROVE g[k] = step[k][g[k - 1]]
        <4>1. CASE k = m + 1
          BY <3>1, <4>1
        <4>2. CASE k # m + 1
          <5>1. k \in 1 .. m /\ k - 1 \in 0 .. m
            BY <4>2
          <5> QED
            BY <2>1, <3>1, <5>1
        <4> QED
          BY <4>1, <4>2
      <3> QED
        BY <2>1, <3>1, <3>2
    <2> HIDE DEF g
    <2> QED
      BY <2>3, <2>4
  <1> HIDE DEF T
  <1>3. n \in T
    BY <1>1, <1>2, SetInduction
  <1> QED
    BY <1>3 DEF T

-----------------------------------------------------------------------------
(* Well-formed commands. *)

(* A number of one to three digits with something else behind it. *)
Numeral(s) ==
  /\ s \in Seq(Nat) /\ Len(s) \in 2 .. 4
  /\ \A i \in 1 .. Len(s) - 1 : s[i] \in 0 .. 9
  /\ s[Len(s)] \notin 0 .. 9

(* atoi reads such a number as its value, whatever stops it. *)
LEMMA AtoiIs ==
  ASSUME NEW s, Numeral(s)
  PROVE  /\ Len(s) = 2 => atoi(s) = {s[1]}
         /\ Len(s) = 3 => atoi(s) = {10 * s[1] + s[2]}
         /\ Len(s) = 4 => atoi(s) = {100 * s[1] + 10 * s[2] + s[3]}
  <1> DEFINE n == Len(s)
             from == CHOOSE i \in 1 .. n + 1 : /\ \A x \in 1 .. i - 1 : s[x] = LineEnd
                                               /\ i <= n => s[i] # LineEnd
             to   == CHOOSE i \in from .. n + 1 : /\ \A x \in from .. i - 1 : s[x] \in 0 .. 9
                                                  /\ i <= n => s[i] \notin 0 .. 9
             value[i \in from - 1 .. n] == IF i < from THEN 0 ELSE 10 * value[i - 1] + s[i]
             w == [i \in 0 .. n |-> IF i = 0 THEN 0
                                    ELSE IF i = 1 THEN s[1]
                                    ELSE IF i = 2 THEN 10 * s[1] + s[2]
                                    ELSE IF i = 3 THEN 100 * s[1] + 10 * s[2] + s[3]
                                    ELSE 1000 * s[1] + 100 * s[2] + 10 * s[3] + s[4]]
  <1>1. /\ n \in Nat /\ n \in 2 .. 4 /\ \A i \in 1 .. n : s[i] \in Nat
        /\ \A i \in 1 .. n - 1 : s[i] \in 0 .. 9
        /\ s[n] \notin 0 .. 9
    <2>1. s \in Seq(Nat) /\ n \in 2 .. 4
      BY DEF Numeral
    <2>2. (\A i \in 1 .. n - 1 : s[i] \in 0 .. 9) /\ s[n] \notin 0 .. 9
      BY DEF Numeral
    <2>3. \A i \in 1 .. n : s[i] \in Nat
      BY <2>1
    <2> HIDE DEF n
    <2> QED
      BY <2>1, <2>2, <2>3
  <1>2. atoi(s) = IF to > n THEN Unread ELSE {value[to - 1]}
    BY DEF atoi
  <1> HIDE DEF n
  <1>3. from = 1
    <2>1. 1 \in 1 .. n + 1 /\ s[1] # 11 /\ 1 \in 1 .. n
      BY <1>1
    <2>2. ASSUME NEW i \in 1 .. n + 1, \A x \in 1 .. i - 1 : s[x] = 11 PROVE i = 1
      BY <1>1, <2>1, <2>2
    <2>3. \A x \in 1 .. 1 - 1 : s[x] = 11
      OBVIOUS
    <2>4. from \in 1 .. n + 1 /\ \A x \in 1 .. from - 1 : s[x] = 11
      BY <2>1, <2>3 DEF LineEnd
    <2> HIDE DEF from
    <2> QED
      BY <2>2, <2>4
  <1>4. to = n
    <2> HIDE DEF from
    <2>1. n \in from .. n + 1 /\ \A x \in from .. n - 1 : s[x] \in 0 .. 9
      BY <1>1, <1>3
    <2>2. to \in from .. n + 1 /\ (\A x \in from .. to - 1 : s[x] \in 0 .. 9) /\ (to <= n => s[to] \notin 0 .. 9)
      BY <1>1, <2>1
    <2> HIDE DEF to
    <2>3. to \in 1 .. n + 1 /\ (to > n => n \in from .. to - 1) /\ (to < n => to \in 1 .. n - 1)
      BY <1>1, <1>3, <2>2
    <2> QED
      BY <1>1, <2>2, <2>3
  <1>5. /\ s[1] \in Nat /\ s[2] \in Nat /\ (n >= 3 => s[3] \in Nat) /\ (n = 4 => s[4] \in Nat)
    BY <1>1
  <1>6. w = [i \in from - 1 .. n |-> IF i < from THEN 0 ELSE 10 * w[i - 1] + s[i]]
    <2> HIDE DEF from, to
    <2>1. from - 1 .. n = 0 .. n
      BY <1>3
    <2>2. ASSUME NEW i \in 0 .. n PROVE w[i] = IF i < from THEN 0 ELSE 10 * w[i - 1] + s[i]
      <3>1. /\ w[0] = 0
            /\ w[1] = s[1]
            /\ w[2] = 10 * s[1] + s[2]
            /\ n >= 3 => w[3] = 100 * s[1] + 10 * s[2] + s[3]
            /\ n = 4 => w[4] = 1000 * s[1] + 100 * s[2] + 10 * s[3] + s[4]
        BY <1>1
      <3> HIDE DEF w
      <3>2. CASE i = 0
        BY <1>3, <3>1, <3>2
      <3>3. CASE i = 1
        BY <1>3, <1>5, <3>1, <3>3
      <3>4. CASE i = 2
        BY <1>3, <1>5, <3>1, <3>4
      <3>5. CASE i = 3
        BY <1>1, <1>3, <1>5, <3>1, <3>5
      <3>6. CASE i = 4
        BY <1>1, <1>3, <1>5, <3>1, <3>6
      <3> QED
        BY <1>1, <3>2, <3>3, <3>4, <3>5, <3>6
    <2>3. w = [i \in 0 .. n |-> w[i]]
      OBVIOUS
    <2> HIDE DEF w
    <2> QED
      BY <2>1, <2>2, <2>3
  <1>7. value = [i \in from - 1 .. n |-> IF i < from THEN 0 ELSE 10 * value[i - 1] + s[i]]
    <2> HIDE DEF from, to, w
    <2> QED
      BY <1>6
  <1> HIDE DEF from, to, w, value
  <1>8. \A i \in 0 .. n : value[i] = IF i < 1 THEN 0 ELSE 10 * value[i - 1] + s[i]
    <2>1. \A i \in from - 1 .. n : value[i] = IF i < from THEN 0 ELSE 10 * value[i - 1] + s[i]
      BY <1>7
    <2>2. from - 1 .. n = 0 .. n
      BY <1>3
    <2> QED
      BY <1>3, <2>1, <2>2
  <1>9. value[0] = 0
    BY <1>1, <1>8
  <1>10. value[1] = s[1]
    BY <1>1, <1>5, <1>8, <1>9
  <1>11. n >= 3 => value[2] = 10 * s[1] + s[2]
    BY <1>1, <1>5, <1>8, <1>10
  <1>12. n = 4 => value[3] = 100 * s[1] + 10 * s[2] + s[3]
    BY <1>1, <1>5, <1>8, <1>11
  <1>13. atoi(s) = {value[n - 1]}
    BY <1>1, <1>2, <1>4
  <1>14. /\ n = 2 => atoi(s) = {s[1]}
         /\ n = 3 => atoi(s) = {10 * s[1] + s[2]}
         /\ n = 4 => atoi(s) = {100 * s[1] + 10 * s[2] + s[3]}
    BY <1>1, <1>10, <1>11, <1>12, <1>13
  <1> QED
    BY <1>14 DEF n


(* The value of the digits that a numeral holds is what atoi reads. *)
LEMMA ValueIsRead ==
  ASSUME NEW y \in Seq(Nat), NEW s, Numeral(s), Len(s) = Len(y) + 1,
         \A i \in 1 .. Len(y) : s[i] = y[i]
  PROVE  atoi(s) = {Value(y)}
  <1> DEFINE n == Len(y)
             l == Len(s)
  <1>1. n \in 1 .. 3 /\ l = n + 1 /\ \A i \in 1 .. n : s[i] = y[i]
    <2>1. l \in 2 .. 4 /\ n \in Nat /\ l = n + 1
      BY DEF Numeral
    <2>2. \A i \in 1 .. n : s[i] = y[i]
      OBVIOUS
    <2> HIDE DEF n, l
    <2> QED
      BY <2>1, <2>2
  <1>2. Value(y) = CASE n = 1 -> y[1]
                           [] n = 2 -> 10 * y[1] + y[2]
                           [] n = 3 -> 100 * y[1] + 10 * y[2] + y[3]
    BY DEF Value
  <1>3. /\ l = 2 => atoi(s) = {s[1]}
        /\ l = 3 => atoi(s) = {10 * s[1] + s[2]}
        /\ l = 4 => atoi(s) = {100 * s[1] + 10 * s[2] + s[3]}
    BY AtoiIs
  <1> HIDE DEF n, l
  <1>4. CASE n = 1
    <2>1. Value(y) = y[1] /\ s[1] = y[1] /\ l = 2
      BY <1>1, <1>2, <1>4
    <2> QED
      BY <1>3, <2>1
  <1>5. CASE n = 2
    <2>1. Value(y) = 10 * y[1] + y[2] /\ s[1] = y[1] /\ s[2] = y[2] /\ l = 3
      BY <1>1, <1>2, <1>5
    <2> QED
      BY <1>3, <2>1
  <1>6. CASE n = 3
    <2>1. /\ Value(y) = 100 * y[1] + 10 * y[2] + y[3] /\ l = 4
          /\ s[1] = y[1] /\ s[2] = y[2] /\ s[3] = y[3]
      BY <1>1, <1>2, <1>6
    <2> QED
      BY <1>3, <2>1
  <1> QED
    BY <1>1, <1>4, <1>5, <1>6

(* A part of a buffer. *)
LEMMA PartIs ==
  ASSUME NEW r \in Seq(Nat), NEW i \in Nat \ {0}, NEW j \in Nat, i - 1 <= j, j <= Len(r)
  PROVE  /\ SubSeq(r, i, j) \in Seq(Nat)
         /\ Len(SubSeq(r, i, j)) = j - i + 1
         /\ \A x \in 1 .. j - i + 1 : SubSeq(r, i, j)[x] = r[i + x - 1]
  <1> DEFINE n == Len(r)
  <1>1. n \in Nat /\ j <= n /\ \A x \in 1 .. n : r[x] \in Nat
    OBVIOUS
  <1> HIDE DEF n
  <1>2. \A x \in i .. j : r[x] \in Nat
    BY <1>1
  <1>3. /\ SubSeq(r, i, j) \in Seq(Nat)
        /\ Len(SubSeq(r, i, j)) = IF i <= j THEN j - i + 1 ELSE 0
        /\ \A x \in 1 .. j - i + 1 : SubSeq(r, i, j)[x] = r[i + x - 1]
    BY <1>2, SubSeqProperties
  <1> QED
    BY <1>3

(* A well-formed command is looked at, and can be read in one way only. *)
LEMMA CommandIsRead ==
  ASSUME NEW m, m.rest \in Seq(Nat), WellFormed(m)
  PROVE  IsCommand(m) /\ EndsLine(m) /\ \A x \in Seeks(m) : x = Numbers(m)
  <1> DEFINE r == m.rest
             n == Len(r)
             k == CommaAt(r)
             a == SubSeq(r, 1, k - 1)
             b == SubSeq(r, k + 1, n - 1)
             sa == StartBufferString(r)
             sb == StartOffsetString(r)
  <1>1. r \in Seq(Nat) /\ n \in Nat
    OBVIOUS
  <1>2. m.named /\ m.junk = << >>
    BY DEF WellFormed
  <1>3. /\ k \in 2 .. 4 /\ n \in k + 2 .. k + 4
        /\ r[n] = 11
        /\ \A i \in 1 .. n - 1 : i # k => r[i] \in 0 .. 9
    BY DEF WellFormed, LineEnd
  <1>4. IsCommand(m)
    <2>1. Length(m) = 0 + 19 + n
      BY <1>2 DEF Length, Prefix
    <2> HIDE DEF n, k
    <2>2. n \in 4 .. 8
      BY <1>3
    <2> QED
      BY <1>2, <2>1, <2>2 DEF IsCommand
  <1>17. EndsLine(m)
    <2>1. \E i \in 1 .. n : r[i] = 11
      <3> HIDE DEF n, k, r
      <3> QED
        BY <1>3
    <2> QED
      BY <2>1 DEF EndsLine, LineEnd
  <1>5. BehindColon(m) = r
    BY <1>2 DEF BehindColon
  <1>6. sa = a \o <<13>> /\ sb = SubSeq(r, k + 1, n)
    BY DEF StartBufferString, StartOffsetString, Null
  <1>7. Numbers(m) = [write_cmd |-> Value(a), write_cmd_offset |-> Value(b)]
    BY DEF Numbers
  <1>8. Seeks(m) =
          [write_cmd        : IF Len(sa) <= 4 /\ Len(sb) <= 4 THEN atoi(sa) ELSE Unread,
           write_cmd_offset : IF Len(sa) <= 4 /\ Len(sb) <= 4 THEN atoi(sb) ELSE Unread]
    BY <1>5 DEF Seeks, ArraySize
  <1>9. /\ a \in Seq(Nat) /\ Len(a) = k - 1
        /\ \A i \in 1 .. k - 1 : a[i] = r[i]
    <2> DEFINE p == 1
               j == k - 1
    <2>1. p = 1 /\ p \in Nat \ {0} /\ j = k - 1
      OBVIOUS
    <2>2. j \in Nat /\ p - 1 <= j /\ j <= Len(r)
      <3> HIDE DEF k, n
      <3> QED
        BY <1>3 DEF n
    <2>3. a = SubSeq(r, p, j)
      OBVIOUS
    <2> HIDE DEF p, j, r, k, a
    <2>4. /\ a \in Seq(Nat) /\ Len(a) = j - p + 1
          /\ \A x \in 1 .. j - p + 1 : a[x] = r[p + x - 1]
      BY <1>1, <2>1, <2>2, <2>3, PartIs
    <2>5. k \in Nat /\ j - p + 1 = k - 1 /\ \A x \in 1 .. k - 1 : p + x - 1 = x
      BY <1>3, <2>1
    <2> QED
      BY <2>4, <2>5
  <1>10. /\ b \in Seq(Nat) /\ Len(b) = n - 1 - k
         /\ \A i \in 1 .. n - 1 - k : b[i] = r[k + i]
    <2> DEFINE p == k + 1
               j == n - 1
    <2>1. p = k + 1 /\ j = n - 1 /\ n = Len(r) /\ b = SubSeq(r, p, j)
      OBVIOUS
    <2> HIDE DEF p, j, r, k, b, n
    <2>2. p \in Nat \ {0} /\ j \in Nat /\ p - 1 <= j /\ j <= Len(r)
      BY <1>3, <2>1
    <2>3. /\ b \in Seq(Nat) /\ Len(b) = j - p + 1
          /\ \A x \in 1 .. j - p + 1 : b[x] = r[p + x - 1]
      <3>1. b = SubSeq(r, p, j)
        BY <2>1
      <3> QED
        BY <1>1, <2>2, <3>1, PartIs
    <2>4. j - p + 1 = n - 1 - k /\ \A x \in 1 .. n - 1 - k : p + x - 1 = k + x
      BY <1>3, <2>1
    <2> QED
      BY <2>3, <2>4
  <1>11. /\ sb \in Seq(Nat) /\ Len(sb) = n - k
         /\ \A i \in 1 .. n - k : sb[i] = r[k + i]
    <2> DEFINE p == k + 1
               j == n
    <2>1. p = k + 1 /\ j = n /\ n = Len(r) /\ sb = SubSeq(r, p, j)
      BY <1>6
    <2> HIDE DEF p, j, r, k, sb, n
    <2>2. p \in Nat \ {0} /\ j \in Nat /\ p - 1 <= j /\ j <= Len(r)
      BY <1>3, <2>1
    <2>3. /\ sb \in Seq(Nat) /\ Len(sb) = j - p + 1
          /\ \A x \in 1 .. j - p + 1 : sb[x] = r[p + x - 1]
      <3>1. sb = SubSeq(r, p, j)
        BY <2>1
      <3> QED
        BY <1>1, <2>2, <3>1, PartIs
    <2>4. j - p + 1 = n - k /\ \A x \in 1 .. n - k : p + x - 1 = k + x
      BY <1>3, <2>1
    <2> QED
      BY <2>3, <2>4
  <1>12. /\ sa \in Seq(Nat) /\ Len(sa) = k /\ sa[k] = 13
         /\ \A i \in 1 .. k - 1 : sa[i] = r[i]
    <2> DEFINE c == <<13>>
    <2>1. c \in Seq(Nat) /\ Len(c) = 1 /\ c[1] = 13 /\ sa = a \o c
      BY <1>6
    <2> HIDE DEF c, a, sa
    <2>2. /\ sa \in Seq(Nat) /\ Len(sa) = Len(a) + Len(c)
          /\ \A i \in 1 .. Len(a) + Len(c) : sa[i] = IF i <= Len(a) THEN a[i] ELSE c[i - Len(a)]
      BY <1>9, <2>1, ConcatProperties
    <2> HIDE DEF k, r
    <2>3. /\ Len(sa) = k - 1 + 1
          /\ \A i \in 1 .. k - 1 + 1 : sa[i] = IF i <= k - 1 THEN a[i] ELSE c[i - (k - 1)]
      BY <1>9, <2>1, <2>2
    <2>4. k - 1 + 1 = k /\ k \in 1 .. k /\ k - (k - 1) = 1 /\ ~ (k <= k - 1)
      BY <1>3
    <2>5. Len(sa) = k /\ sa[k] = c[1]
      BY <2>3, <2>4
    <2>6. \A i \in 1 .. k - 1 : i \in 1 .. k /\ i <= k - 1
      BY <1>3
    <2>7. \A i \in 1 .. k - 1 : sa[i] = a[i]
      BY <2>3, <2>4, <2>6
    <2> QED
      BY <1>9, <2>1, <2>2, <2>5, <2>7
  <1> HIDE DEF r, n, k, a, b, sa, sb
  <1>13. Numeral(sa) /\ atoi(sa) = {Value(a)}
    <2>1. ASSUME NEW i \in 1 .. k - 1 PROVE sa[i] \in 0 .. 9
      <3>1. i \in 1 .. n - 1 /\ i # k
        BY <1>3
      <3> QED
        BY <1>3, <1>12, <3>1
    <2>2. Numeral(sa)
      BY <1>3, <1>12, <2>1 DEF Numeral
    <2>3. Len(sa) = Len(a) + 1 /\ \A i \in 1 .. Len(a) : sa[i] = a[i]
      BY <1>3, <1>9, <1>12
    <2> QED
      BY <1>9, <2>2, <2>3, ValueIsRead
  <1>14. Numeral(sb) /\ atoi(sb) = {Value(b)}
    <2>1. ASSUME NEW i \in 1 .. n - k - 1 PROVE sb[i] \in 0 .. 9
      <3>1. i \in 1 .. n - k /\ k + i \in 1 .. n - 1 /\ k + i # k
        BY <1>3
      <3> QED
        BY <1>3, <1>11, <3>1
    <2>2. sb[n - k] = 11 /\ n - k \in 2 .. 4
      BY <1>3, <1>11
    <2>3. Numeral(sb)
      BY <1>3, <1>11, <2>1, <2>2 DEF Numeral
    <2>4. Len(sb) = Len(b) + 1 /\ \A i \in 1 .. Len(b) : sb[i] = b[i]
      BY <1>3, <1>10, <1>11
    <2> QED
      BY <1>10, <2>3, <2>4, ValueIsRead
  <1>15. Len(sa) <= 4 /\ Len(sb) <= 4
    BY <1>3, <1>11, <1>12
  <1>16. Seeks(m) = [write_cmd : {Value(a)}, write_cmd_offset : {Value(b)}]
    BY <1>8, <1>13, <1>14, <1>15
  <1> QED
    BY <1>4, <1>7, <1>16, <1>17

-----------------------------------------------------------------------------
(* Every command. *)

(* A set of numbers that is not empty has a least one. *)
LEMMA LeastExists ==
  ASSUME NEW T, T \subseteq Nat, T # {}
  PROVE  \E x \in T : \A y \in T : x <= y
  <1>1. PICK x \in T : \A y \in T : <<y, x>> \notin OpToRel(<, Nat)
    BY WFMin, NatLessThanWellFounded
  <1>2. \A y \in T : ~ (y < x)
    BY <1>1 DEF OpToRel
  <1> QED
    BY <1>2

(* The places where a stretch of elements of A from p on ends. *)
StretchEnd(s, p, A) ==
  {i \in p .. Len(s) + 1 : /\ \A x \in p .. i - 1 : s[x] \in A
                           /\ i <= Len(s) => s[i] \notin A}

(* There is one. *)
LEMMA StretchEnds ==
  ASSUME NEW s \in Seq(Nat), NEW p \in 1 .. Len(s) + 1, NEW A
  PROVE  StretchEnd(s, p, A) # {}
  <1> DEFINE n == Len(s)
             T == {i \in p .. n + 1 : i <= n => s[i] \notin A}
  <1>1. n \in Nat /\ p \in 1 .. n + 1
    OBVIOUS
  <1> HIDE DEF n
  <1>2. T \subseteq Nat /\ n + 1 \in T
    BY <1>1
  <1>3. PICK i \in T : \A y \in T : i <= y
    BY <1>2, LeastExists
  <1>4. \A x \in p .. i - 1 : s[x] \in A
    BY <1>1, <1>3
  <1>5. i \in p .. n + 1 /\ (i <= n => s[i] \notin A)
    BY <1>3
  <1> QED
    BY <1>4, <1>5 DEF n, StretchEnd

(* atoi gives a number. *)
LEMMA AtoiIsNumber ==
  ASSUME NEW s \in Seq(Nat), Unread \subseteq Nat
  PROVE  atoi(s) \subseteq Nat
  <1> DEFINE n == Len(s)
             from == CHOOSE i \in 1 .. n + 1 : /\ \A x \in 1 .. i - 1 : s[x] = LineEnd
                                               /\ i <= n => s[i] # LineEnd
             to   == CHOOSE i \in from .. n + 1 : /\ \A x \in from .. i - 1 : s[x] \in 0 .. 9
                                                  /\ i <= n => s[i] \notin 0 .. 9
             value[i \in from - 1 .. n] == IF i < from THEN 0 ELSE 10 * value[i - 1] + s[i]
  <1>1. n \in Nat /\ \A i \in 1 .. n : s[i] \in Nat
    OBVIOUS
  <1>2. atoi(s) = IF to > n THEN Unread ELSE {value[to - 1]}
    BY DEF atoi
  <1>3. from \in 1 .. n + 1
    <2>1. \E i \in 1 .. n + 1 : (\A x \in 1 .. i - 1 : s[x] \in {LineEnd}) /\ (i <= n => s[i] \notin {LineEnd})
      <3> DEFINE p == 1
                 A == {LineEnd}
      <3>1. p \in 1 .. Len(s) + 1 /\ p = 1
        BY <1>1
      <3> HIDE DEF p, A
      <3>2. StretchEnd(s, p, A) # {}
        BY <3>1, StretchEnds
      <3> QED
        BY <3>1, <3>2 DEF A, StretchEnd
    <2> HIDE DEF n
    <2> QED
      BY <2>1
  <1>4. to \in from .. n + 1
    <2> HIDE DEF from
    <2>1. \E i \in from .. n + 1 : (\A x \in from .. i - 1 : s[x] \in 0 .. 9) /\ (i <= n => s[i] \notin 0 .. 9)
      <3> DEFINE A == 0 .. 9
      <3> HIDE DEF A
      <3>1. StretchEnd(s, from, A) # {}
        BY <1>3, StretchEnds
      <3> QED
        BY <3>1 DEF A, StretchEnd
    <2> HIDE DEF n
    <2> QED
      BY <2>1
  <1> HIDE DEF n, to
  <1> DEFINE b == from - 1
             l == n - b
             step == [k \in 1 .. l |-> [v \in Nat |-> 10 * v + s[b + k]]]
  <1> HIDE DEF from
  <1>5. b \in Nat /\ l \in Nat /\ from = b + 1 /\ n = b + l
    BY <1>1, <1>3
  <1> HIDE DEF b, l
  <1>6. step \in Steps(l, Nat)
    <2>1. \A k \in 1 .. l : b + k \in 1 .. n
      BY <1>5
    <2>2. \A k \in 1 .. l : s[b + k] \in Nat
      BY <1>1, <2>1
    <2> QED
      BY <2>2 DEF Steps
  <1>7. PICK f \in [0 .. l -> Nat] : Follows(f, l, 0, step)
    BY <1>5, <1>6, RecursionExists
  <1>8. f[0] = 0 /\ \A k \in 1 .. l : f[k] = 10 * f[k - 1] + s[b + k]
    <2>1. \A k \in 1 .. l : k - 1 \in 0 .. l
      BY <1>5
    <2>2. \A k \in 1 .. l : f[k - 1] \in Nat
      BY <2>1
    <2>3. \A k \in 1 .. l : step[k][f[k - 1]] = 10 * f[k - 1] + s[b + k]
      BY <2>2
    <2> QED
      BY <1>7, <2>3 DEF Follows
  <1> HIDE DEF step
  <1> DEFINE w == [i \in from - 1 .. n |-> f[i - b]]
  <1>9. w = [i \in from - 1 .. n |-> IF i < from THEN 0 ELSE 10 * w[i - 1] + s[i]]
    <2>1. from - 1 .. n = b .. b + l
      BY <1>5
    <2>2. ASSUME NEW i \in b .. b + l PROVE w[i] = IF i < from THEN 0 ELSE 10 * w[i - 1] + s[i]
      <3>1. w[i] = f[i - b]
        BY <2>1
      <3>2. CASE i = b
        BY <1>5, <1>8, <3>1, <3>2
      <3>3. CASE i # b
        <4>1. i - b \in 1 .. l /\ i - 1 \in b .. b + l /\ (i - 1) - b = (i - b) - 1 /\ b + (i - b) = i /\ ~(i < from)
          BY <1>5, <3>3
        <4>2. w[i - 1] = f[(i - b) - 1]
          BY <2>1, <4>1
        <4>3. f[i - b] = 10 * f[(i - b) - 1] + s[b + (i - b)]
          BY <1>8, <4>1
        <4> QED
          BY <3>1, <4>1, <4>2, <4>3
      <3> QED
        BY <3>2, <3>3
    <2>3. w = [i \in from - 1 .. n |-> w[i]]
      OBVIOUS
    <2> HIDE DEF w
    <2> QED
      BY <2>1, <2>2, <2>3
  <1>10. value = [i \in from - 1 .. n |-> IF i < from THEN 0 ELSE 10 * value[i - 1] + s[i]]
    <2> HIDE DEF w
    <2> QED
      BY <1>9
  <1> HIDE DEF value, w
  <1>11. \A k \in 0 .. l : value[b + k] \in Nat
    <2> DEFINE T == {k \in Nat : k <= l => value[b + k] \in Nat}
    <2>1. \A i \in from - 1 .. n : value[i] = IF i < from THEN 0 ELSE 10 * value[i - 1] + s[i]
      BY <1>10
    <2>2. 0 \in T
      BY <1>5, <2>1
    <2>3. ASSUME NEW k \in Nat, k \in T PROVE k + 1 \in T
      <3> SUFFICES ASSUME k + 1 <= l PROVE value[b + (k + 1)] \in Nat
        OBVIOUS
      <3>1. /\ b + (k + 1) \in from - 1 .. n /\ ~(b + (k + 1) < from) /\ (b + (k + 1)) - 1 = b + k
            /\ b + (k + 1) \in 1 .. n
        BY <1>5
      <3>2. value[b + (k + 1)] = 10 * value[b + k] + s[b + (k + 1)]
        BY <2>1, <3>1
      <3>3. value[b + k] \in Nat /\ s[b + (k + 1)] \in Nat
        <4>1. k <= l
          BY <1>5
        <4> QED
          BY <1>1, <2>3, <3>1, <4>1
      <3> QED
        BY <3>2, <3>3
    <2> HIDE DEF T
    <2>4. \A k \in Nat : k \in T
      BY <2>2, <2>3, SetInduction
    <2>5. \A k \in 0 .. l : k \in Nat /\ k <= l
      BY <1>5
    <2> QED
      BY <2>4, <2>5 DEF T
  <1>12. ~(to > n) => value[to - 1] \in Nat
    <2>1. ~(to > n) => (to - 1) - b \in 0 .. l /\ b + ((to - 1) - b) = to - 1
      BY <1>4, <1>5
    <2> QED
      BY <1>11, <2>1
  <1> QED
    BY <1>2, <1>12

(* Some part of a buffer. *)
LEMMA SomePart ==
  ASSUME NEW r \in Seq(Nat), NEW i \in Nat \ {0}, NEW j \in Nat, j <= Len(r)
  PROVE  SubSeq(r, i, j) \in Seq(Nat)
  <1> DEFINE n == Len(r)
  <1>1. n \in Nat /\ j <= n /\ \A x \in 1 .. n : r[x] \in Nat
    OBVIOUS
  <1> HIDE DEF n
  <1>2. \A x \in i .. j : r[x] \in Nat
    BY <1>1
  <1> QED
    BY <1>2, SubSeqProperties

(* What lies behind the first colon are characters. *)
LEMMA BehindColonType ==
  ASSUME NEW m, m.junk \in Seq(Nat), m.rest \in Seq(Nat)
  PROVE  BehindColon(m) \in Seq(Nat)
  <1> DEFINE early == {i \in 1 .. Len(m.junk) : m.junk[i] = Colon}
             k == CHOOSE i \in early : \A x \in early : i <= x
             a == SubSeq(m.junk, k + 1, Len(m.junk))
             b == [i \in 1 .. Prefix |-> Colon]
  <1>1. CASE early = {}
    BY <1>1 DEF BehindColon
  <1>2. CASE early # {}
    <2>1. early \subseteq Nat /\ Len(m.junk) \in Nat
      OBVIOUS
    <2> HIDE DEF early
    <2>2. k \in early
      BY <1>2, <2>1, LeastExists
    <2>3. a \in Seq(Nat)
      <3> HIDE DEF k
      <3>1. k + 1 \in Nat \ {0} /\ Len(m.junk) <= Len(m.junk)
        BY <2>1, <2>2
      <3> QED
        BY <2>1, <3>1, SomePart
    <2>4. b \in Seq(Nat)
      <3> DEFINE l == Prefix
      <3>1. l \in Nat /\ b \in [1 .. l -> Nat]
        BY DEF Prefix, Colon
      <3> HIDE DEF b, l
      <3> QED
        BY <3>1
    <2>5. BehindColon(m) = a \o b \o m.rest
      BY <1>2 DEF BehindColon, early
    <2> HIDE DEF a, b
    <2> QED
      BY <2>3, <2>4, <2>5
  <1> QED
    BY <1>1, <1>2

(* Every command is read as two numbers. *)
LEMMA SeeksAreNumbers ==
  ASSUME NEW m, m.junk \in Seq(Nat), m.rest \in Seq(Nat), Unread \subseteq Nat, NEW x \in Seeks(m)
  PROVE  x \in [write_cmd : Nat, write_cmd_offset : Nat]
  <1> DEFINE s == BehindColon(m)
             k == CommaAt(s)
             sa == StartBufferString(s)
             sb == StartOffsetString(s)
             commas == {i \in 1 .. Len(s) : s[i] = Comma}
  <1>1. s \in Seq(Nat)
    BY BehindColonType
  <1>2. x \in [write_cmd        : IF Len(sa) <= 4 /\ Len(sb) <= 4 THEN atoi(sa) ELSE Unread,
                write_cmd_offset : IF Len(sa) <= 4 /\ Len(sb) <= 4 THEN atoi(sb) ELSE Unread]
    BY DEF Seeks, ArraySize
  <1> HIDE DEF s
  <1>3. k \in 1 .. Len(s) + 1
    <2>1. commas \subseteq Nat /\ commas \subseteq 1 .. Len(s) /\ Len(s) \in Nat
      BY <1>1
    <2>2. k = IF commas = {} THEN Len(s) + 1 ELSE CHOOSE i \in commas : \A y \in commas : i <= y
      BY DEF CommaAt
    <2> HIDE DEF k, commas
    <2>3. commas # {} => (CHOOSE i \in commas : \A y \in commas : i <= y) \in commas
      BY <2>1, LeastExists
    <2>4. CASE commas = {}
      BY <2>1, <2>2, <2>4
    <2>5. CASE commas # {}
      <3>1. k \in 1 .. Len(s)
        BY <2>1, <2>2, <2>3, <2>5
      <3> QED
        BY <2>1, <3>1
    <2> QED
      BY <2>4, <2>5
  <1>4. sa \in Seq(Nat) /\ sb \in Seq(Nat)
    <2> DEFINE n == Len(s)
               a == SubSeq(s, 1, k - 1)
               one == 1
               p == k + 1
               j == k - 1
    <2>1. n \in Nat /\ k \in 1 .. n + 1 /\ n = Len(s) /\ one = 1 /\ p = k + 1 /\ j = k - 1
      BY <1>1, <1>3
    <2>2. sa = a \o <<13>> /\ sb = SubSeq(s, p, n)
      BY DEF StartBufferString, StartOffsetString, Null
    <2>3. a = SubSeq(s, one, j)
      OBVIOUS
    <2> HIDE DEF n, a, sa, sb, k, one, p, j
    <2>4. one \in Nat \ {0} /\ j \in Nat /\ p \in Nat \ {0} /\ j <= n /\ n <= n
      BY <2>1
    <2>5. a \in Seq(Nat) /\ sb \in Seq(Nat)
      BY <1>1, <2>1, <2>2, <2>3, <2>4, SomePart
    <2> QED
      BY <2>2, <2>5
  <1>5. atoi(sa) \subseteq Nat /\ atoi(sb) \subseteq Nat
    BY <1>4, AtoiIsNumber
  <1> HIDE DEF sa, sb
  <1> DEFINE A == IF Len(sa) <= 4 /\ Len(sb) <= 4 THEN atoi(sa) ELSE Unread
             B == IF Len(sa) <= 4 /\ Len(sb) <= 4 THEN atoi(sb) ELSE Unread
  <1>6. A \subseteq Nat /\ B \subseteq Nat
    BY <1>5
  <1>7. x \in [write_cmd : A, write_cmd_offset : B]
    BY <1>2
  <1> HIDE DEF A, B
  <1> QED
    BY <1>6, <1>7
=============================================================================

------------------------ MODULE AesdServerDeviceProofs ------------------------
(***************************************************************************)
(* Proofs about the workers of the build for /dev/aesdchar, for any number *)
(* of connections, receives and commands kept, and any texts whose         *)
(* commands the device can carry out.                                      *)
(***************************************************************************)
EXTENDS AesdServerDevice, SeekCommandLemmas

-----------------------------------------------------------------------------
(* Sequences of sequences put together. *)

Pieces(S) == Seq(Seq(S))

(* f puts s together piece by piece. *)
Gathers(f, s) == f[0] = << >> /\ \A k \in 1 .. Len(s) : f[k] = f[k - 1] \o s[k]

(* There is such a function. *)
LEMMA GathersExists ==
  ASSUME NEW S, NEW s \in Pieces(S)
  PROVE  \E f \in [0 .. Len(s) -> Seq(S)] : Gathers(f, s)
  <1> DEFINE n == Len(s)
             Z == Seq(S)
             step == [k \in 1 .. n |-> [v \in Z |-> v \o s[k]]]
  <1>1. n \in Nat /\ << >> \in Z /\ \A k \in 1 .. n : s[k] \in Z
    BY DEF Pieces
  <1>2. \A k \in 1 .. n : \A v \in Z : v \o s[k] \in Z
    BY <1>1
  <1> HIDE DEF n, Z
  <1>3. step \in Steps(n, Z) /\ \A k \in 1 .. n : \A v \in Z : step[k][v] = v \o s[k]
    BY <1>2 DEF Steps
  <1> HIDE DEF step
  <1>4. PICK f \in [0 .. n -> Z] : Follows(f, n, << >>, step)
    BY <1>1, <1>3, RecursionExists
  <1>5. ASSUME NEW k \in 1 .. n PROVE f[k] = f[k - 1] \o s[k]
    <2>1. k - 1 \in 0 .. n
      BY <1>1
    <2>2. f[k - 1] \in Z
      BY <2>1
    <2> QED
      BY <1>3, <1>4, <2>2 DEF Follows
  <1>6. f[0] = << >>
    BY <1>4 DEF Follows
  <1> QED
    BY <1>5, <1>6 DEF Gathers, n, Z

(* Only one: two agree wherever their sequences do. *)
LEMMA GathersUnique ==
  ASSUME NEW S, NEW s1 \in Pieces(S), NEW s2 \in Pieces(S), NEW l \in Nat, l <= Len(s1), l <= Len(s2),
         \A k \in 1 .. l : s1[k] = s2[k], NEW f1, Gathers(f1, s1), NEW f2, Gathers(f2, s2)
  PROVE  \A k \in 0 .. l : f1[k] = f2[k]
  <1> DEFINE T == {k \in Nat : k <= l => f1[k] = f2[k]}
             ls == Len(s1)
             lt == Len(s2)
  <1>1. ls \in Nat /\ lt \in Nat /\ l <= ls /\ l <= lt
    BY DEF Pieces
  <1>2. f1[0] = << >> /\ f2[0] = << >>
    BY DEF Gathers
  <1>3. (\A k \in 1 .. ls : f1[k] = f1[k - 1] \o s1[k]) /\ (\A k \in 1 .. lt : f2[k] = f2[k - 1] \o s2[k])
    BY DEF Gathers
  <1> HIDE DEF ls, lt
  <1>4. 0 \in T
    BY <1>2
  <1>5. ASSUME NEW k \in Nat, k \in T PROVE k + 1 \in T
    <2> SUFFICES ASSUME k + 1 <= l PROVE f1[k + 1] = f2[k + 1]
      OBVIOUS
    <2>1. k + 1 \in 1 .. ls /\ k + 1 \in 1 .. lt /\ k + 1 \in 1 .. l /\ (k + 1) - 1 = k /\ k <= l
      BY <1>1
    <2>2. f1[k] = f2[k]
      BY <1>5, <2>1
    <2>3. f1[k + 1] = f1[k] \o s1[k + 1] /\ f2[k + 1] = f2[k] \o s2[k + 1]
      BY <1>3, <2>1
    <2> QED
      BY <2>1, <2>2, <2>3
  <1> HIDE DEF T
  <1>6. \A k \in Nat : k \in T
    BY <1>4, <1>5, SetInduction
  <1>7. \A k \in 0 .. l : k \in Nat /\ k <= l
    OBVIOUS
  <1> QED
    BY <1>6, <1>7 DEF T

(* FlattenSeq is what it leads to. *)
LEMMA FlattenGathers ==
  ASSUME NEW S, NEW s \in Pieces(S), NEW f, Gathers(f, s)
  PROVE  FlattenSeq(s) = f[Len(s)]
  <1> DEFINE n == Len(s)
             flatten[i \in 1 .. n] == IF i = 1 THEN s[i] ELSE flatten[i - 1] \o s[i]
  <1>1. CASE n = 0
    BY <1>1 DEF FlattenSeq, Gathers, Pieces
  <1>2. CASE n # 0
    <2>1. n \in Nat /\ \A k \in 1 .. n : s[k] \in Seq(S)
      BY DEF Pieces
    <2>2. FlattenSeq(s) = flatten[n]
      BY <1>2 DEF FlattenSeq
    <2>3. f[0] = << >> /\ \A k \in 1 .. n : f[k] = f[k - 1] \o s[k]
      BY DEF Gathers
    <2> HIDE DEF n
    <2>4. 1 \in 1 .. n /\ f[1] = s[1]
      <3>1. 1 \in 1 .. n /\ 1 - 1 = 0
        BY <1>2, <2>1
      <3>2. f[1] = << >> \o s[1] /\ s[1] \in Seq(S)
        BY <2>1, <2>3, <3>1
      <3> QED
        BY <3>1, <3>2
    <2> DEFINE w == [i \in 1 .. n |-> f[i]]
    <2>5. w = [i \in 1 .. n |-> IF i = 1 THEN s[i] ELSE w[i - 1] \o s[i]]
      <3>1. ASSUME NEW i \in 1 .. n PROVE w[i] = IF i = 1 THEN s[i] ELSE w[i - 1] \o s[i]
        <4>1. CASE i = 1
          BY <2>4, <4>1
        <4>2. CASE i # 1
          <5>1. i - 1 \in 1 .. n
            BY <2>1, <4>2
          <5> QED
            BY <2>3, <4>2, <5>1
        <4> QED
          BY <4>1, <4>2
      <3>2. w = [i \in 1 .. n |-> w[i]]
        OBVIOUS
      <3> HIDE DEF w
      <3> QED
        BY <3>1, <3>2
    <2>6. flatten = [i \in 1 .. n |-> IF i = 1 THEN s[i] ELSE flatten[i - 1] \o s[i]]
      <3> HIDE DEF w
      <3> QED
        BY <2>5
    <2> HIDE DEF flatten, w
    <2> DEFINE T == {k \in Nat : k \in 1 .. n => flatten[k] = f[k]}
    <2>7. 0 \in T
      OBVIOUS
    <2>8. ASSUME NEW k \in Nat, k \in T PROVE k + 1 \in T
      <3> SUFFICES ASSUME k + 1 \in 1 .. n PROVE flatten[k + 1] = f[k + 1]
        OBVIOUS
      <3>1. \A i \in 1 .. n : flatten[i] = IF i = 1 THEN s[i] ELSE flatten[i - 1] \o s[i]
        BY <2>6
      <3>2. CASE k = 0
        BY <2>4, <3>1, <3>2
      <3>3. CASE k # 0
        <4>1. k \in 1 .. n /\ (k + 1) - 1 = k /\ k + 1 # 1
          BY <2>1, <3>3
        <4>2. flatten[k + 1] = flatten[k] \o s[k + 1] /\ f[k + 1] = f[k] \o s[k + 1]
          BY <2>3, <3>1, <4>1
        <4> QED
          BY <2>8, <4>1, <4>2
      <3> QED
        BY <3>2, <3>3
    <2> HIDE DEF T
    <2>9. n \in T
      BY <2>1, <2>7, <2>8, SetInduction
    <2>10. n \in 1 .. n
      BY <1>2, <2>1
    <2> QED
      BY <2>2, <2>9, <2>10 DEF T, n
  <1> QED
    BY <1>1, <1>2


(* It is a sequence of what the pieces hold. *)
LEMMA FlattenType ==
  ASSUME NEW S, NEW s \in Pieces(S)
  PROVE  FlattenSeq(s) \in Seq(S)
  <1>1. PICK f \in [0 .. Len(s) -> Seq(S)] : Gathers(f, s)
    BY GathersExists
  <1>2. FlattenSeq(s) = f[Len(s)] /\ Len(s) \in 0 .. Len(s)
    BY <1>1, FlattenGathers DEF Pieces
  <1> QED
    BY <1>1, <1>2

(* Nothing and one piece. *)
LEMMA FlattenSmall ==
  ASSUME NEW S, NEW x \in Seq(S)
  PROVE  FlattenSeq(<< >>) = << >> /\ FlattenSeq(<<x>>) = x
  <1>1. FlattenSeq(<< >>) = << >>
    BY DEF FlattenSeq
  <1> DEFINE s == <<x>>
  <1>2. s \in Pieces(S) /\ Len(s) = 1 /\ s[1] = x
    BY DEF Pieces
  <1> HIDE DEF s
  <1>3. PICK f \in [0 .. Len(s) -> Seq(S)] : Gathers(f, s)
    BY <1>2, GathersExists
  <1>4. f[0] = << >> /\ \A k \in 1 .. 1 : f[k] = f[k - 1] \o s[k]
    BY <1>2, <1>3 DEF Gathers
  <1>5. f[1] = f[0] \o s[1]
    <2>1. 1 \in 1 .. 1 /\ 1 - 1 = 0
      OBVIOUS
    <2> QED
      BY <1>4, <2>1
  <1>6. f[1] = x
    BY <1>2, <1>4, <1>5
  <1>7. FlattenSeq(s) = f[1]
    BY <1>2, <1>3, FlattenGathers
  <1> QED
    BY <1>1, <1>6, <1>7 DEF s

(* Concatenation is associative. *)
LEMMA ConcatThree ==
  ASSUME NEW S, NEW s1 \in Seq(S), NEW s2 \in Seq(S), NEW s3 \in Seq(S)
  PROVE  (s1 \o s2) \o s3 = s1 \o (s2 \o s3)
  BY ConcatAssociative

(* Two sequences one after the other. *)
LEMMA FlattenConcat ==
  ASSUME NEW S, NEW s \in Pieces(S), NEW t \in Pieces(S)
  PROVE  FlattenSeq(s \o t) = FlattenSeq(s) \o FlattenSeq(t)
  <1> DEFINE Z == Seq(S)
             n == Len(s)
             m == Len(t)
             u == s \o t
  <1>1. n \in Nat /\ m \in Nat /\ n = Len(s) /\ m = Len(t)
    BY DEF Pieces
  <1>2. /\ u \in Pieces(S) /\ Len(u) = n + m
        /\ \A k \in 1 .. n : u[k] = s[k]
        /\ \A k \in 1 .. m : u[n + k] = t[k]
    <2>1. /\ u \in Pieces(S) /\ Len(u) = Len(s) + Len(t)
          /\ \A i \in 1 .. Len(s) + Len(t) : u[i] = IF i <= Len(s) THEN s[i] ELSE t[i - Len(s)]
      BY ConcatProperties DEF Pieces
    <2> HIDE DEF n, m, u
    <2>2. /\ u \in Pieces(S) /\ Len(u) = n + m
          /\ \A i \in 1 .. n + m : u[i] = IF i <= n THEN s[i] ELSE t[i - n]
      BY <1>1, <2>1
    <2>3. \A k \in 1 .. n : u[k] = s[k]
      BY <1>1, <2>2
    <2>4. ASSUME NEW k \in 1 .. m PROVE u[n + k] = t[k]
      <3>1. n + k \in 1 .. n + m /\ ~(n + k <= n) /\ (n + k) - n = k
        BY <1>1
      <3> QED
        BY <2>2, <3>1
    <2> QED
      BY <2>2, <2>3, <2>4
  <1> HIDE DEF u
  <1>3. PICK f : f \in [0 .. Len(s) -> Z] /\ Gathers(f, s)
    BY GathersExists
  <1>4. PICK g : g \in [0 .. Len(t) -> Z] /\ Gathers(g, t)
    BY GathersExists
  <1>5. PICK h : h \in [0 .. Len(u) -> Z] /\ Gathers(h, u)
    BY <1>2, GathersExists
  <1>6. FlattenSeq(s) = f[n] /\ FlattenSeq(t) = g[m] /\ FlattenSeq(u) = h[n + m]
    <2>1. FlattenSeq(u) = h[Len(u)]
      BY <1>2, <1>5, FlattenGathers
    <2> QED
      BY <1>2, <1>3, <1>4, <2>1, FlattenGathers
  <1>7. h[n] = f[n]
    <2> HIDE DEF n, m
    <2>1. n <= Len(u) /\ n <= Len(s) /\ n \in 0 .. n
      BY <1>1, <1>2
    <2>2. n \in Nat /\ u \in Pieces(S) /\ (\A k \in 1 .. n : u[k] = s[k]) /\ Gathers(h, u) /\ Gathers(f, s)
      BY <1>1, <1>2, <1>3, <1>5
    <2> HIDE DEF Z
    <2>3. \A k \in 0 .. n : h[k] = f[k]
      BY <2>1, <2>2, GathersUnique
    <2> QED
      BY <2>1, <2>3
  <1>8. /\ g \in [0 .. m -> Z] /\ g[0] = << >> /\ \A k \in 1 .. m : g[k] = g[k - 1] \o t[k]
        /\ \A k \in 1 .. n + m : h[k] = h[k - 1] \o u[k]
        /\ f[n] \in Z /\ \A k \in 1 .. m : t[k] \in Z
    <2>1. f[n] \in Z
      <3>1. n \in 0 .. n
        BY <1>1
      <3> QED
        BY <1>3, <3>1
    <2>2. \A k \in 1 .. m : t[k] \in Z
      BY DEF Pieces
    <2>3. g \in [0 .. m -> Z] /\ g[0] = << >> /\ \A k \in 1 .. m : g[k] = g[k - 1] \o t[k]
      BY <1>4 DEF Gathers
    <2>4. \A k \in 1 .. n + m : h[k] = h[k - 1] \o u[k]
      BY <1>2, <1>5 DEF Gathers
    <2> QED
      BY <2>1, <2>2, <2>3, <2>4
  <1> DEFINE T == {k \in Nat : k <= m => h[n + k] = f[n] \o g[k]}
  <1> HIDE DEF n, m
  <1>9. 0 \in T
    <2>1. n + 0 = n /\ f[n] \o << >> = f[n]
      BY <1>1, <1>8
    <2> QED
      BY <1>7, <1>8, <2>1
  <1>10. ASSUME NEW k \in Nat, k \in T PROVE k + 1 \in T
    <2> SUFFICES ASSUME k + 1 <= m PROVE h[n + (k + 1)] = f[n] \o g[k + 1]
      <3>1. k + 1 \in Nat
        OBVIOUS
      <3> QED
        BY <3>1, Zenon
    <2>1. /\ k + 1 \in 1 .. m /\ n + (k + 1) \in 1 .. n + m /\ k \in 0 .. m /\ k <= m
          /\ (n + (k + 1)) - 1 = n + k /\ (k + 1) - 1 = k
      BY <1>1
    <2>2. h[n + k] = f[n] \o g[k]
      BY <1>10, <2>1
    <2>3. h[n + (k + 1)] = h[n + k] \o t[k + 1] /\ g[k + 1] = g[k] \o t[k + 1]
      BY <1>2, <1>8, <2>1
    <2>4. g[k] \in Z /\ t[k + 1] \in Z
      BY <1>8, <2>1
    <2>5. (f[n] \o g[k]) \o t[k + 1] = f[n] \o (g[k] \o t[k + 1])
      <3> DEFINE x == f[n]
                 y == g[k]
                 z == t[k + 1]
      <3>1. x \in Seq(S) /\ y \in Seq(S) /\ z \in Seq(S)
        BY <1>8, <2>4
      <3> HIDE DEF x, y, z
      <3>2. \A x1, x2, x3 \in Seq(S) : (x1 \o x2) \o x3 = x1 \o (x2 \o x3)
        BY ConcatThree
      <3>3. (x \o y) \o z = x \o (y \o z)
        BY <3>1, <3>2, Zenon
      <3> QED
        BY <3>3 DEF x, y, z
    <2> QED
      BY <2>2, <2>3, <2>5
  <1> HIDE DEF T
  <1>11. m \in T /\ m <= m
    <2>1. \A k \in Nat : k \in T
      BY <1>9, <1>10, SetInduction, Zenon
    <2> QED
      BY <1>1, <2>1
  <1>12. h[n + m] = f[n] \o g[m]
    BY <1>11 DEF T
  <1> QED
    BY <1>6, <1>12 DEF u

-----------------------------------------------------------------------------
(* The bytes of one client, in a sequence of bytes. *)

(* The pieces that Own puts together. *)
OwnPieces(c, s) == [i \in 1 .. Len(s) |-> IF s[i] \in DataByte(c) THEN <<s[i]>> ELSE << >>]

(* They are pieces, one for each byte. *)
LEMMA OwnPiecesType ==
  ASSUME NEW S, NEW c, NEW s \in Seq(S)
  PROVE  OwnPieces(c, s) \in Pieces(S) /\ Len(OwnPieces(c, s)) = Len(s)
  <1> DEFINE n == Len(s)
             p == OwnPieces(c, s)
             D == DataByte(c)
  <1>1. n \in Nat /\ \A i \in 1 .. n : s[i] \in S
    OBVIOUS
  <1>2. p = [i \in 1 .. n |-> IF s[i] \in D THEN <<s[i]>> ELSE << >>]
    BY DEF OwnPieces
  <1> HIDE DEF n, p, D
  <1>3. ASSUME NEW i \in 1 .. n PROVE p[i] \in Seq(S)
    <2>1. p[i] = IF s[i] \in D THEN <<s[i]>> ELSE << >>
      BY <1>2
    <2>2. <<s[i]>> \in Seq(S) /\ << >> \in Seq(S)
      BY <1>1
    <2> QED
      BY <2>1, <2>2
  <1>4. p \in [1 .. n -> Seq(S)]
    <2>1. DOMAIN p = 1 .. n /\ p = [i \in 1 .. n |-> p[i]]
      BY <1>2
    <2> QED
      BY <1>3, <2>1
  <1>5. p \in Seq(Seq(S)) /\ Len(p) = n
    BY <1>1, <1>4
  <1> QED
    BY <1>5 DEF p, n, Pieces

(* What Own gives is a sequence of bytes. *)
LEMMA OwnType ==
  ASSUME NEW S, NEW c, NEW s \in Seq(S)
  PROVE  Own(c, s) \in Seq(S)
  <1>1. Own(c, s) = FlattenSeq(OwnPieces(c, s))
    BY DEF Own, OwnPieces
  <1> QED
    BY <1>1, OwnPiecesType, FlattenType

(* It treats the parts of a sequence one by one. *)
LEMMA OwnConcat ==
  ASSUME NEW S, NEW c, NEW s \in Seq(S), NEW t \in Seq(S)
  PROVE  Own(c, s \o t) = Own(c, s) \o Own(c, t)
  <1> DEFINE u == s \o t
             p == OwnPieces(c, s)
             r == OwnPieces(c, t)
             w == OwnPieces(c, u)
             n == Len(s)
             m == Len(t)
  <1>1. /\ u \in Seq(S) /\ Len(u) = Len(s) + Len(t) /\ n = Len(s) /\ m = Len(t) /\ n \in Nat /\ m \in Nat
        /\ \A i \in 1 .. Len(s) + Len(t) : u[i] = IF i <= Len(s) THEN s[i] ELSE t[i - Len(s)]
    BY ConcatProperties
  <1>2. p \in Pieces(S) /\ r \in Pieces(S) /\ Len(p) = n /\ Len(r) = m
    BY OwnPiecesType
  <1> HIDE DEF u
  <1>3. w \in Pieces(S) /\ Len(w) = n + m
    BY <1>1, OwnPiecesType
  <1>4. w = p \o r
    <2> DEFINE D == DataByte(c)
    <2>1. /\ \A i \in 1 .. n : p[i] = IF s[i] \in D THEN <<s[i]>> ELSE << >>
          /\ \A i \in 1 .. m : r[i] = IF t[i] \in D THEN <<t[i]>> ELSE << >>
          /\ \A i \in 1 .. Len(u) : w[i] = IF u[i] \in D THEN <<u[i]>> ELSE << >>
      BY DEF OwnPieces
    <2>2. /\ p \o r \in Pieces(S) /\ Len(p \o r) = Len(p) + Len(r)
          /\ \A i \in 1 .. Len(p) + Len(r) : (p \o r)[i] = IF i <= Len(p) THEN p[i] ELSE r[i - Len(p)]
      <3> HIDE DEF p, r
      <3> QED
        BY <1>2, ConcatProperties DEF Pieces
    <2> DEFINE v == p \o r
    <2>3. /\ v \in Pieces(S) /\ Len(v) = n + m
          /\ \A i \in 1 .. n + m : v[i] = IF i <= n THEN p[i] ELSE r[i - n]
      <3> HIDE DEF p, r, n, m
      <3> QED
        BY <1>2, <2>2
    <2> HIDE DEF p, r, w, n, m, v, D
    <2>4. ASSUME NEW i \in 1 .. n + m PROVE w[i] = v[i]
      <3>1. w[i] = IF u[i] \in D THEN <<u[i]>> ELSE << >>
        BY <1>1, <2>1
      <3>2. CASE i <= n
        <4>1. u[i] = s[i] /\ v[i] = p[i] /\ i \in 1 .. n
          BY <1>1, <2>3, <3>2
        <4> QED
          BY <2>1, <3>1, <4>1
      <3>3. CASE ~(i <= n)
        <4>1. u[i] = t[i - n] /\ v[i] = r[i - n] /\ i - n \in 1 .. m
          BY <1>1, <2>3, <3>3
        <4> QED
          BY <2>1, <3>1, <4>1
      <3> QED
        BY <3>2, <3>3
    <2>5. w = v
      BY <1>1, <1>3, <2>3, <2>4, SeqEqual DEF Pieces
    <2> QED
      BY <2>5 DEF v
  <1>5. FlattenSeq(p \o r) = FlattenSeq(p) \o FlattenSeq(r)
    <2> HIDE DEF p, r
    <2> QED
      BY <1>2, FlattenConcat
  <1>6. Own(c, u) = FlattenSeq(w) /\ Own(c, s) = FlattenSeq(p) /\ Own(c, t) = FlattenSeq(r)
    BY DEF Own, OwnPieces
  <1> HIDE DEF p, r, w
  <1> QED
    BY <1>4, <1>5, <1>6 DEF u

(* A single byte. *)
LEMMA OwnSmall ==
  ASSUME NEW c, NEW x
  PROVE  /\ Own(c, << >>) = << >>
         /\ x \in DataByte(c) => Own(c, <<x>>) = <<x>>
         /\ x \notin DataByte(c) => Own(c, <<x>>) = << >>
  <1> DEFINE D == DataByte(c)
             y == IF x \in D THEN <<x>> ELSE << >>
             p == OwnPieces(c, <<x>>)
  <1>1. Own(c, << >>) = << >>
    <2>1. OwnPieces(c, << >>) = << >>
      BY DEF OwnPieces
    <2>2. FlattenSeq(<< >>) = << >>
      BY DEF FlattenSeq
    <2> QED
      BY <2>1, <2>2 DEF Own, OwnPieces
  <1>2. p = <<y>>
    <2>1. Len(<<x>>) = 1 /\ <<x>>[1] = x
      OBVIOUS
    <2>2. p = [i \in 1 .. Len(<<x>>) |-> IF <<x>>[i] \in D THEN <<<<x>>[i]>> ELSE << >>]
      BY DEF OwnPieces
    <2> HIDE DEF p, D
    <2>3. p = [i \in 1 .. 1 |-> y]
      BY <2>1, <2>2
    <2> HIDE DEF y
    <2> QED
      BY <2>3
  <1>3. y \in Seq({x})
    <2>1. <<x>> \in Seq({x}) /\ << >> \in Seq({x})
      OBVIOUS
    <2> HIDE DEF D
    <2> QED
      BY <2>1
  <1>4. Own(c, <<x>>) = y
    <2>1. Own(c, <<x>>) = FlattenSeq(p)
      BY DEF Own, OwnPieces
    <2> HIDE DEF y, p
    <2>2. FlattenSeq(<<y>>) = y
      BY <1>3, FlattenSmall
    <2> QED
      BY <1>2, <2>1, <2>2
  <1> HIDE DEF p
  <1> QED
    BY <1>1, <1>4

-----------------------------------------------------------------------------
(* The inductive invariant. *)

Plain == {Newline, SeekText}
Bytes == (UNION {DataByte(c) : c \in Conn}) \cup Plain

(* What a worker can have in its buffer: data with its number; the text of *)
(* a seek command; that text behind a single byte that answered it.        *)
DataChunk(c, n) == {<<<<c, n>>>>, <<<<c, n>>, Newline>>}
SeekChunk == {<<SeekText>>, <<SeekText, Newline>>}
EchoChunk == {<<x, SeekText>> : x \in Plain} \cup {<<x, SeekText, Newline>> : x \in Plain}

Labels == {"recv", "ioctl", "write", "writing", "read", "reading", "done"}
Writing == {"write", "writing"}
Numbered(c, n) == [k \in 1 .. n |-> <<c, k>>]
Waiting(c) == IF at[c] \in Writing THEN buffer[c] ELSE << >>

DeviceTypes ==
  /\ pending \in Seq(Bytes) /\ log \in Pieces(Bytes) /\ published \in Seq(Bytes)
  /\ at \in [Conn -> Labels] /\ text \in [Conn -> Message \cup {NoText}]
  /\ buffer \in [Conn -> Seq(Bytes)]
  /\ seek \in [Conn -> [write_cmd : Nat, write_cmd_offset : Nat]]
  /\ off \in [Conn -> Nat] /\ reply \in [Conn -> Seq(Bytes)] /\ torn \subseteq Conn
  /\ pieces \in [Conn -> Nat] /\ data \in [Conn -> Nat]
  /\ \A c \in Conn : data[c] <= pieces[c] /\ pieces[c] <= MaxPieces

(* Every command ends with a byte that is not data. *)
Ended == \A i \in 1 .. Len(log) : Len(log[i]) > 0 /\ log[i][Len(log[i])] \in Plain

(* The device has the end of what was published. *)
Remains == \E d \in Seq(Bytes) : published = d \o Content

ChunkOK(c) ==
  /\ at[c] = "ioctl" => /\ text[c] \in Message /\ IsCommand(text[c]) /\ seek[c] \in Seeks(text[c])
                        /\ buffer[c] \in SeekChunk
                        /\ EndsLine(text[c]) => buffer[c] = <<SeekText, Newline>>
  /\ at[c] \in Writing /\ IsCommand(text[c]) =>
       /\ buffer[c] \in EchoChunk
       /\ EndsLine(text[c]) => \E x \in Plain : buffer[c] = <<x, SeekText, Newline>>
  /\ at[c] \in Writing /\ ~IsCommand(text[c]) => data[c] > 0 /\ buffer[c] \in DataChunk(c, data[c])

WholeOK(c) == Own(c, published \o pending) \o Own(c, Waiting(c)) = Numbered(c, data[c])

ReadOK(c) == at[c] \in {"read", "reading"} => off[c] = Len(reply[c]) /\ Own(c, pending) = << >>

AnswerOK(c) ==
  Content = published =>
    /\ IsPrefix(reply[c], published)
    /\ at[c] = "recv" /\ c \notin torn /\ HasNewline(buffer[c]) /\ Own(c, buffer[c]) # << >>
         => Own(c, reply[c]) = Numbered(c, data[c])

DeviceInv ==
  /\ DeviceTypes /\ Ended /\ Remains
  /\ \A c \in Conn : ChunkOK(c) /\ WholeOK(c) /\ ReadOK(c) /\ AnswerOK(c)

-----------------------------------------------------------------------------
(* Beginnings and ends of sequences. *)

(* A prefix, element by element. *)
LEMMA PrefixIs ==
  ASSUME NEW S, NEW s1 \in Seq(S), NEW s2 \in Seq(S)
  PROVE  IsPrefix(s1, s2) <=> Len(s1) <= Len(s2) /\ \A i \in 1 .. Len(s1) : s1[i] = s2[i]
  <1> DEFINE n == Len(s1)
             m == Len(s2)
             one == 1
             a == SubSeq(s1, one, n)
             b == SubSeq(s2, one, n)
  <1>1. /\ n \in Nat /\ m \in Nat /\ n = Len(s1) /\ m = Len(s2) /\ one = 1
        /\ (\A i \in 1 .. n : s1[i] \in S) /\ (\A i \in 1 .. m : s2[i] \in S)
    OBVIOUS
  <1>2. IsPrefix(s1, s2) <=> n <= m /\ a = b
    BY DEF IsPrefix
  <1> HIDE DEF n, m, one
  <1> SUFFICES ASSUME n <= m PROVE a = b <=> \A i \in 1 .. n : s1[i] = s2[i]
    BY <1>1, <1>2
  <1>3. (\A i \in one .. n : s1[i] \in S) /\ (\A i \in one .. n : s2[i] \in S) /\ one \in Int /\ n \in Int
    BY <1>1
  <1>4. /\ a \in Seq(S) /\ Len(a) = (IF one <= n THEN n - one + 1 ELSE 0)
        /\ \A i \in 1 .. n - one + 1 : a[i] = s1[one + i - 1]
    BY <1>3, SubSeqProperties
  <1>5. /\ b \in Seq(S) /\ Len(b) = (IF one <= n THEN n - one + 1 ELSE 0)
        /\ \A i \in 1 .. n - one + 1 : b[i] = s2[one + i - 1]
    BY <1>3, SubSeqProperties
  <1> HIDE DEF a, b
  <1>6. n - one + 1 = n /\ \A i \in 1 .. n : one + i - 1 = i
    BY <1>1
  <1>7. Len(a) = n /\ Len(b) = n /\ \A i \in 1 .. n : a[i] = s1[i] /\ b[i] = s2[i]
    BY <1>1, <1>4, <1>5, <1>6
  <1>8. ASSUME \A i \in 1 .. n : s1[i] = s2[i] PROVE a = b
    BY <1>4, <1>5, <1>7, <1>8, SeqEqual
  <1>9. ASSUME a = b PROVE \A i \in 1 .. n : s1[i] = s2[i]
    BY <1>7, <1>9
  <1> QED
    BY <1>8, <1>9

(* What comes behind does not matter. *)
LEMMA PrefixExtends ==
  ASSUME NEW S, NEW s1 \in Seq(S), NEW s2 \in Seq(S), NEW s3 \in Seq(S), IsPrefix(s1, s2)
  PROVE  IsPrefix(s1, s2 \o s3)
  <1> DEFINE w == s2 \o s3
             n == Len(s1)
             m == Len(s2)
             l == Len(s3)
  <1>1. n \in Nat /\ m \in Nat /\ l \in Nat /\ n = Len(s1) /\ m = Len(s2) /\ l = Len(s3)
    OBVIOUS
  <1>2. /\ w \in Seq(S) /\ Len(w) = Len(s2) + Len(s3)
        /\ \A i \in 1 .. Len(s2) + Len(s3) : w[i] = IF i <= Len(s2) THEN s2[i] ELSE s3[i - Len(s2)]
    BY ConcatProperties
  <1>3. n <= m /\ \A i \in 1 .. n : s1[i] = s2[i]
    BY PrefixIs
  <1> HIDE DEF w, n, m, l
  <1>4. \A i \in 1 .. n : i <= m /\ i \in 1 .. m + l
    BY <1>1, <1>3
  <1>5. n <= m + l /\ \A i \in 1 .. n : s1[i] = w[i]
    BY <1>1, <1>2, <1>3, <1>4
  <1>6. Len(s1) <= Len(w) /\ \A i \in 1 .. Len(s1) : s1[i] = w[i]
    BY <1>1, <1>2, <1>5
  <1> QED
    BY <1>2, <1>6, PrefixIs DEF w

(* A prefix that is as long is all of it. *)
LEMMA PrefixWhole ==
  ASSUME NEW S, NEW s1 \in Seq(S), NEW s2 \in Seq(S), IsPrefix(s1, s2), Len(s1) >= Len(s2)
  PROVE  s1 = s2
  <1> DEFINE n == Len(s1)
             m == Len(s2)
  <1>1. n \in Nat /\ m \in Nat /\ n >= m /\ n <= m /\ \A i \in 1 .. n : s1[i] = s2[i]
    BY PrefixIs
  <1>2. n = m
    <2> HIDE DEF n, m
    <2> QED
      BY <1>1
  <1> QED
    BY <1>1, <1>2, SeqEqual

(* It grows by what comes next. *)
LEMMA PrefixGrows ==
  ASSUME NEW S, NEW s1 \in Seq(S), NEW s2 \in Seq(S), IsPrefix(s1, s2),
         NEW e \in Nat, Len(s1) <= e, e <= Len(s2)
  PROVE  /\ SubSeq(s2, Len(s1) + 1, e) \in Seq(S)
         /\ IsPrefix(s1 \o SubSeq(s2, Len(s1) + 1, e), s2)
  <1> DEFINE n == Len(s1)
             m == Len(s2)
             p == n + 1
             x == SubSeq(s2, p, e)
             w == s1 \o x
  <1>1. /\ n \in Nat /\ m \in Nat /\ n <= m /\ n <= e /\ e <= m /\ p = n + 1
        /\ (\A i \in 1 .. n : s1[i] = s2[i]) /\ (\A i \in 1 .. m : s2[i] \in S)
        /\ n = Len(s1) /\ m = Len(s2)
    BY PrefixIs
  <1> HIDE DEF n, m, p
  <1>2. p \in Int /\ e \in Int /\ \A i \in p .. e : s2[i] \in S
    BY <1>1
  <1>3. /\ x \in Seq(S) /\ Len(x) = (IF p <= e THEN e - p + 1 ELSE 0)
        /\ \A i \in 1 .. e - p + 1 : x[i] = s2[p + i - 1]
    BY <1>2, SubSeqProperties
  <1> HIDE DEF x
  <1>4. Len(x) = e - n /\ \A i \in 1 .. e - n : x[i] = s2[n + i]
    <2>1. (IF p <= e THEN e - p + 1 ELSE 0) = e - n /\ e - p + 1 = e - n /\ \A i \in 1 .. e - n : p + i - 1 = n + i
      BY <1>1
    <2> QED
      BY <1>3, <2>1
  <1>5. /\ w \in Seq(S) /\ Len(w) = Len(s1) + Len(x)
        /\ \A i \in 1 .. Len(s1) + Len(x) : w[i] = IF i <= Len(s1) THEN s1[i] ELSE x[i - Len(s1)]
    BY <1>3, ConcatProperties
  <1> HIDE DEF w
  <1>6. Len(w) = e /\ \A i \in 1 .. e : w[i] = IF i <= n THEN s1[i] ELSE x[i - n]
    <2>1. n + (e - n) = e
      BY <1>1
    <2> QED
      BY <1>1, <1>4, <1>5, <2>1
  <1>7. ASSUME NEW i \in 1 .. e PROVE w[i] = s2[i]
    <2>1. CASE i <= n
      <3>1. i \in 1 .. n
        BY <1>1, <2>1
      <3> QED
        BY <1>1, <1>6, <2>1, <3>1
    <2>2. CASE ~(i <= n)
      <3>1. i - n \in 1 .. e - n /\ n + (i - n) = i
        BY <1>1, <2>2
      <3> QED
        BY <1>4, <1>6, <2>2, <3>1
    <2> QED
      BY <2>1, <2>2
  <1>8. IsPrefix(w, s2)
    BY <1>1, <1>5, <1>6, <1>7, PrefixIs
  <1> QED
    BY <1>1, <1>3, <1>8 DEF w, x, p

(* The second part of a sequence is a suffix of it. *)
LEMMA SuffixIs ==
  ASSUME NEW S, NEW s1 \in Seq(S), NEW s2 \in Seq(S)
  PROVE  IsSuffix(s2, s1 \o s2)
  <1> DEFINE w == s1 \o s2
             n == Len(s1)
             m == Len(s2)
             a == Reverse(s2)
             b == Reverse(w)
  <1>1. n \in Nat /\ m \in Nat /\ n = Len(s1) /\ m = Len(s2) /\ \A i \in 1 .. m : s2[i] \in S
    OBVIOUS
  <1>2. /\ w \in Seq(S) /\ Len(w) = Len(s1) + Len(s2)
        /\ \A i \in 1 .. Len(s1) + Len(s2) : w[i] = IF i <= Len(s1) THEN s1[i] ELSE s2[i - Len(s1)]
    BY ConcatProperties
  <1>3. a = [i \in 1 .. m |-> s2[(m - i) + 1]]
    BY DEF Reverse
  <1>4. b = [i \in 1 .. Len(w) |-> w[(Len(w) - i) + 1]]
    BY DEF Reverse
  <1> HIDE DEF w, n, m, a, b
  <1> DEFINE l == n + m
  <1>5. /\ l \in Nat /\ l = n + m /\ Len(w) = l /\ (\A i \in 1 .. l : w[i] \in S)
        /\ \A i \in 1 .. l : w[i] = IF i <= n THEN s1[i] ELSE s2[i - n]
    BY <1>1, <1>2
  <1> HIDE DEF l
  <1>6. a \in Seq(S) /\ Len(a) = m
    <2>1. \A i \in 1 .. m : (m - i) + 1 \in 1 .. m
      BY <1>1
    <2>2. a \in [1 .. m -> S]
      BY <1>1, <1>3, <2>1
    <2> QED
      BY <1>1, <2>2
  <1>7. b \in Seq(S) /\ Len(b) = l
    <2>1. \A i \in 1 .. l : (l - i) + 1 \in 1 .. l
      BY <1>5
    <2>2. b \in [1 .. l -> S]
      BY <1>4, <1>5, <2>1
    <2> QED
      BY <1>5, <2>2
  <1>8. ASSUME NEW i \in 1 .. m PROVE a[i] = b[i]
    <2>1. /\ i \in 1 .. l /\ (l - i) + 1 \in 1 .. l /\ ~((l - i) + 1 <= n)
          /\ ((l - i) + 1) - n = (m - i) + 1
      BY <1>1, <1>5
    <2>2. a[i] = s2[(m - i) + 1] /\ b[i] = w[(l - i) + 1]
      BY <1>3, <1>4, <1>5, <2>1
    <2>3. w[(l - i) + 1] = s2[((l - i) + 1) - n]
      BY <1>5, <2>1
    <2> QED
      BY <2>1, <2>2, <2>3
  <1>9. m <= l
    BY <1>1, <1>5
  <1>10. IsPrefix(a, b)
    BY <1>6, <1>7, <1>8, <1>9, PrefixIs
  <1> QED
    BY <1>10 DEF IsSuffix, a, b, w

-----------------------------------------------------------------------------
(* What the workers write. *)

(* The bytes are told apart. *)
LEMMA BytesAre ==
  /\ \A c \in Conn : \A n \in 1 .. MaxPieces : <<c, n>> \in DataByte(c) /\ <<c, n>> \in Bytes
  /\ \A c, d \in Conn : \A n \in 1 .. MaxPieces : c # d => <<c, n>> \notin DataByte(d)
  /\ Plain \subseteq Bytes
  /\ \A x \in Plain : \A c \in Conn : x \notin DataByte(c)
  <1>1. \A c \in Conn : \A n \in 1 .. MaxPieces : <<c, n>> \in DataByte(c)
    BY DEF DataByte
  <1>2. \A c \in Conn : \A x \in DataByte(c) : x \in Bytes
    BY DEF Bytes
  <1>3. ASSUME NEW c \in Conn, NEW d \in Conn, NEW n \in 1 .. MaxPieces, <<c, n>> \in DataByte(d) PROVE c = d
    <2>1. PICK k \in 1 .. MaxPieces : <<c, n>> = <<d, k>>
      BY <1>3 DEF DataByte
    <2> QED
      BY <2>1
  <1>4. \A x \in Plain : x \in Bytes
    BY Zenon DEF Bytes
  <1>5. \A x \in Plain : \A c \in Conn : x \notin DataByte(c)
    BY DeviceAssumption DEF Plain
  <1> QED
    BY <1>1, <1>2, <1>3, <1>4, <1>5

(* Short sequences. *)
LEMMA ShortSeqs ==
  ASSUME NEW S, NEW x \in S, NEW y \in S, NEW z \in S
  PROVE  /\ <<x>> \in Seq(S) /\ Len(<<x>>) = 1 /\ <<x>>[1] = x
         /\ <<x, y>> \in Seq(S) /\ Len(<<x, y>>) = 2 /\ <<x, y>>[1] = x /\ <<x, y>>[2] = y
         /\ <<x, y, z>> \in Seq(S) /\ Len(<<x, y, z>>) = 3
         /\ <<x, y, z>>[1] = x /\ <<x, y, z>>[2] = y /\ <<x, y, z>>[3] = z
  OBVIOUS

(* And what they are together. *)
LEMMA ShortConcats ==
  ASSUME NEW x, NEW y, NEW z
  PROVE  <<x>> \o <<y>> = <<x, y>> /\ <<x, y>> \o <<z>> = <<x, y, z>> /\ <<x>> \o <<y, z>> = <<x, y, z>>
  <1> DEFINE S == {x, y, z}
             a == <<x>>
             b == <<y>>
             c == <<z>>
             p == <<x, y>>
             r == <<y, z>>
             t == <<x, y, z>>
  <1>1. x \in S /\ y \in S /\ z \in S
    OBVIOUS
  <1>2. /\ a \in Seq(S) /\ Len(a) = 1 /\ a[1] = x /\ b \in Seq(S) /\ Len(b) = 1 /\ b[1] = y
        /\ c \in Seq(S) /\ Len(c) = 1 /\ c[1] = z
        /\ p \in Seq(S) /\ Len(p) = 2 /\ p[1] = x /\ p[2] = y
        /\ r \in Seq(S) /\ Len(r) = 2 /\ r[1] = y /\ r[2] = z
        /\ t \in Seq(S) /\ Len(t) = 3 /\ t[1] = x /\ t[2] = y /\ t[3] = z
    BY <1>1, ShortSeqs
  <1> HIDE DEF S, a, b, c, p, r, t
  <1>3. a \o b = p
    <2> DEFINE w == a \o b
    <2>1. /\ w \in Seq(S) /\ Len(w) = Len(a) + Len(b)
          /\ \A i \in 1 .. Len(a) + Len(b) : w[i] = IF i <= Len(a) THEN a[i] ELSE b[i - Len(a)]
      BY <1>2, ConcatProperties
    <2> HIDE DEF w
    <2>2. Len(w) = 2 /\ w[1] = x /\ w[2] = y
      BY <1>2, <2>1
    <2>3. \A i \in 1 .. 2 : w[i] = p[i]
      BY <1>2, <2>2
    <2>4. w = p
      BY <1>2, <2>1, <2>2, <2>3, SeqEqual
    <2> QED
      BY <2>4 DEF w
  <1>4. p \o c = t
    <2> DEFINE w == p \o c
    <2>1. /\ w \in Seq(S) /\ Len(w) = Len(p) + Len(c)
          /\ \A i \in 1 .. Len(p) + Len(c) : w[i] = IF i <= Len(p) THEN p[i] ELSE c[i - Len(p)]
      BY <1>2, ConcatProperties
    <2> HIDE DEF w
    <2>2. Len(w) = 3 /\ w[1] = x /\ w[2] = y /\ w[3] = z
      BY <1>2, <2>1
    <2>3. \A i \in 1 .. 3 : w[i] = t[i]
      BY <1>2, <2>2
    <2>4. w = t
      BY <1>2, <2>1, <2>2, <2>3, SeqEqual
    <2> QED
      BY <2>4 DEF w
  <1>5. a \o r = t
    <2> DEFINE w == a \o r
    <2>1. /\ w \in Seq(S) /\ Len(w) = Len(a) + Len(r)
          /\ \A i \in 1 .. Len(a) + Len(r) : w[i] = IF i <= Len(a) THEN a[i] ELSE r[i - Len(a)]
      BY <1>2, ConcatProperties
    <2> HIDE DEF w
    <2>2. Len(w) = 3 /\ w[1] = x /\ w[2] = y /\ w[3] = z
      BY <1>2, <2>1
    <2>3. \A i \in 1 .. 3 : w[i] = t[i]
      BY <1>2, <2>2
    <2>4. w = t
      BY <1>2, <2>1, <2>2, <2>3, SeqEqual
    <2> QED
      BY <2>4 DEF w
  <1> QED
    BY <1>3, <1>4, <1>5 DEF a, b, c, p, r, t

(* What a client owns of two bytes. *)
LEMMA OwnTwo ==
  ASSUME NEW c, NEW x, NEW y
  PROVE  Own(c, <<x, y>>) = Own(c, <<x>>) \o Own(c, <<y>>)
  <1> DEFINE S == {x, y}
             a == <<x>>
             b == <<y>>
  <1>1. a \in Seq(S) /\ b \in Seq(S)
    BY ShortSeqs
  <1>2. <<x, y>> = a \o b
    BY ShortConcats
  <1> HIDE DEF S, a, b
  <1>3. Own(c, a \o b) = Own(c, a) \o Own(c, b)
    BY <1>1, OwnConcat
  <1> QED
    BY <1>2, <1>3, Zenon DEF a, b

(* Of three bytes. *)
LEMMA OwnThree ==
  ASSUME NEW c, NEW x, NEW y, NEW z
  PROVE  Own(c, <<x, y, z>>) = Own(c, <<x, y>>) \o Own(c, <<z>>)
  <1> DEFINE S == {x, y, z}
             p == <<x, y>>
             e == <<z>>
  <1>1. e \in Seq(S) /\ p \in Seq(S)
    BY ShortSeqs
  <1>2. <<x, y, z>> = p \o e
    BY ShortConcats
  <1> HIDE DEF S, e, p
  <1>3. Own(c, p \o e) = Own(c, p) \o Own(c, e)
    BY <1>1, OwnConcat
  <1> QED
    BY <1>2, <1>3, Zenon DEF e, p

(* A chunk of data holds one byte of its client and none of another. *)
LEMMA DataChunkIs ==
  ASSUME NEW c \in Conn, NEW n \in 1 .. MaxPieces, NEW b \in DataChunk(c, n)
  PROVE  /\ b \in Seq(Bytes) /\ Len(b) > 0
         /\ Own(c, b) = <<<<c, n>>>>
         /\ \A d \in Conn \ {c} : Own(d, b) = << >>
         /\ HasNewline(b) => b[Len(b)] \in Plain
  <1> DEFINE x == <<c, n>>
             u == <<x>>
             w == <<Newline>>
             v == <<x, Newline>>
  <1>1. x \in DataByte(c) /\ x \in Bytes /\ Newline \in Bytes /\ Newline \in Plain /\ x # Newline
    BY BytesAre DEF Plain
  <1>2. \A d \in Conn \ {c} : x \notin DataByte(d)
    BY BytesAre
  <1>3. \A d \in Conn : Newline \notin DataByte(d)
    BY BytesAre DEF Plain
  <1>4. b = u \/ b = v
    BY DEF DataChunk
  <1> HIDE DEF x
  <1>5. \A d : Own(d, v) = Own(d, u) \o Own(d, w)
    BY OwnTwo
  <1>6. /\ u \in Seq(Bytes) /\ Len(u) = 1 /\ u[1] = x
        /\ v \in Seq(Bytes) /\ Len(v) = 2 /\ v[2] = Newline
    BY <1>1, ShortSeqs
  <1>7. u \o << >> = u /\ << >> \o << >> = << >>
    BY <1>6
  <1>8. Own(c, u) = u /\ \A d \in Conn : Own(d, w) = << >>
    BY <1>1, <1>3, OwnSmall
  <1>9. \A d \in Conn \ {c} : Own(d, u) = << >>
    BY <1>2, OwnSmall
  <1> HIDE DEF u, v, w
  <1>10. b \in Seq(Bytes) /\ Len(b) > 0
    <2>1. b \in Seq(Bytes) /\ (Len(b) = 1 \/ Len(b) = 2)
      BY <1>4, <1>6, Zenon
    <2> DEFINE len == Len(b)
    <2>2. len = 1 \/ len = 2
      BY <2>1, Zenon
    <2> HIDE DEF len
    <2>3. len > 0
      BY <2>2
    <2> QED
      BY <2>1, <2>3, Zenon DEF len
  <1>11. HasNewline(b) => b[Len(b)] \in Plain
    BY <1>1, <1>4, <1>6 DEF HasNewline
  <1>12. Own(c, b) = u /\ \A d \in Conn \ {c} : Own(d, b) = << >>
    BY <1>4, <1>5, <1>7, <1>8, <1>9
  <1> QED
    BY <1>10, <1>11, <1>12 DEF u, x

(* The other chunks hold no data. *)
LEMMA PlainChunkIs ==
  ASSUME NEW b \in SeekChunk \cup EchoChunk
  PROVE  /\ b \in Seq(Bytes) /\ Len(b) > 0 /\ b[Len(b)] \in Plain
         /\ \A d \in Conn : Own(d, b) = << >>
  <1>1. Newline \in Plain /\ SeekText \in Plain /\ Plain \subseteq Bytes
    BY BytesAre DEF Plain
  <1>2. \A x \in Plain : \A d \in Conn : Own(d, <<x>>) = << >>
    <2>1. \A x \in Plain : \A d \in Conn : x \notin DataByte(d)
      BY BytesAre
    <2> QED
      BY <2>1, OwnSmall
  <1>3. << >> \o << >> = << >>
    OBVIOUS
  <1>4. \E x, y, z \in Plain : b = <<x>> \/ b = <<x, y>> \/ b = <<x, y, z>>
    <2>1. CASE b \in SeekChunk
      BY <1>1, <2>1 DEF SeekChunk
    <2>2. CASE b \in EchoChunk
      <3>3. PICK x \in Plain : b = <<x, SeekText>> \/ b = <<x, SeekText, Newline>>
        BY <2>2, Zenon DEF EchoChunk
      <3> QED
        BY <1>1, <3>3
    <2> QED
      BY <2>1, <2>2
  <1>5. PICK x \in Plain, y \in Plain, z \in Plain : b = <<x>> \/ b = <<x, y>> \/ b = <<x, y, z>>
    BY <1>4, Zenon
  <1> DEFINE u == <<x>>
             v == <<x, y>>
             w == <<x, y, z>>
  <1>6. \A d : Own(d, v) = Own(d, u) \o Own(d, <<y>>)
    BY OwnTwo
  <1>7. \A d : Own(d, w) = Own(d, v) \o Own(d, <<z>>)
    BY OwnThree
  <1>8. x \in Bytes /\ y \in Bytes /\ z \in Bytes
    BY <1>1
  <1>9. /\ u \in Seq(Bytes) /\ Len(u) = 1 /\ u[1] = x
        /\ v \in Seq(Bytes) /\ Len(v) = 2 /\ v[2] = y
        /\ w \in Seq(Bytes) /\ Len(w) = 3 /\ w[3] = z
    BY <1>8, ShortSeqs
  <1>10. \A d \in Conn : Own(d, u) = << >> /\ Own(d, <<y>>) = << >> /\ Own(d, <<z>>) = << >>
    BY <1>2
  <1>11. b = u \/ b = v \/ b = w
    BY <1>5
  <1> HIDE DEF u, v, w
  <1>12. \A d \in Conn : Own(d, v) = << >>
    BY <1>3, <1>6, <1>10
  <1>13. \A d \in Conn : Own(d, w) = << >>
    BY <1>3, <1>7, <1>10, <1>12
  <1>14. \A d \in Conn : Own(d, b) = << >>
    BY <1>10, <1>11, <1>12, <1>13
  <1>15. b \in Seq(Bytes) /\ Len(b) > 0 /\ b[Len(b)] \in Plain
    <2>1. b \in Seq(Bytes)
      BY <1>9, <1>11, Zenon
    <2>2. (Len(b) = 1 /\ b[1] = x) \/ (Len(b) = 2 /\ b[2] = y) \/ (Len(b) = 3 /\ b[3] = z)
      BY <1>9, <1>11, Zenon
    <2> QED
      BY <2>1, <2>2
  <1> QED
    BY <1>14, <1>15

(* s is empty or ends with a byte that is not data. *)
EndsPlain(s) == Len(s) > 0 => s[Len(s)] \in Plain

(* The end of a concatenation. *)
LEMMA EndsConcat ==
  ASSUME NEW S, NEW s1 \in Seq(S), NEW s2 \in Seq(S), EndsPlain(s2), EndsPlain(s1) \/ Len(s2) > 0
  PROVE  EndsPlain(s1 \o s2)
  <1> DEFINE w == s1 \o s2
             n == Len(s1)
             m == Len(s2)
  <1>1. /\ n \in Nat /\ m \in Nat /\ ((n > 0 => s1[n] \in Plain) \/ m > 0)
        /\ m > 0 => s2[m] \in Plain
        /\ n = Len(s1) /\ m = Len(s2)
    BY DEF EndsPlain
  <1>2. /\ Len(w) = Len(s1) + Len(s2)
        /\ \A i \in 1 .. Len(s1) + Len(s2) : w[i] = IF i <= Len(s1) THEN s1[i] ELSE s2[i - Len(s1)]
    BY ConcatProperties
  <1> HIDE DEF w, n, m
  <1>3. Len(w) = n + m /\ \A i \in 1 .. n + m : w[i] = IF i <= n THEN s1[i] ELSE s2[i - n]
    BY <1>1, <1>2
  <1>4. n \in Nat /\ m \in Nat
    BY <1>1
  <1>5. CASE m > 0
    <2>1. n + m \in 1 .. n + m /\ ~(n + m <= n) /\ (n + m) - n = m
      BY <1>4, <1>5
    <2>2. w[n + m] = s2[m]
      BY <1>3, <2>1
    <2>3. w[n + m] \in Plain
      BY <1>1, <1>5, <2>2
    <2> QED
      BY <1>3, <2>3 DEF EndsPlain, w
  <1>6. CASE ~(m > 0)
    <2>1. n + m = n /\ (n > 0 => n \in 1 .. n + m)
      BY <1>4, <1>6
    <2>2. n > 0 => w[n] = s1[n]
      BY <1>3, <1>4, <2>1
    <2>3. n > 0 => w[n] \in Plain
      BY <1>1, <1>6, <2>2
    <2> QED
      BY <1>3, <2>1, <2>3 DEF EndsPlain, w
  <1> QED
    BY <1>5, <1>6


(* The end of a command from some byte on. *)
LEMMA EndsFrom ==
  ASSUME NEW S, NEW s \in Seq(S), EndsPlain(s), NEW p \in Nat \ {0}
  PROVE  SubSeq(s, p, Len(s)) \in Seq(S) /\ EndsPlain(SubSeq(s, p, Len(s)))
  <1> DEFINE n == Len(s)
             a == SubSeq(s, p, n)
  <1>1. n \in Nat /\ (\A i \in 1 .. n : s[i] \in S) /\ n = Len(s) /\ (n > 0 => s[n] \in Plain)
    BY DEF EndsPlain
  <1> HIDE DEF n
  <1>2. p \in Int /\ n \in Int /\ \A i \in p .. n : s[i] \in S
    BY <1>1
  <1>3. /\ a \in Seq(S) /\ Len(a) = (IF p <= n THEN n - p + 1 ELSE 0)
        /\ \A i \in 1 .. n - p + 1 : a[i] = s[p + i - 1]
    BY <1>2, SubSeqProperties
  <1> HIDE DEF a
  <1>4. CASE p <= n
    <2>1. n - p + 1 \in 1 .. n - p + 1 /\ p + (n - p + 1) - 1 = n /\ n > 0
      BY <1>1, <1>4
    <2>2. a[n - p + 1] = s[n]
      BY <1>3, <2>1
    <2>3. Len(a) = n - p + 1
      BY <1>3, <1>4
    <2>4. a[Len(a)] \in Plain
      BY <1>1, <2>1, <2>2, <2>3
    <2> QED
      BY <1>1, <1>3, <2>4 DEF EndsPlain, a
  <1>5. CASE ~(p <= n)
    <2>1. Len(a) = 0
      BY <1>3, <1>5
    <2> QED
      BY <1>1, <1>3, <2>1 DEF EndsPlain, a
  <1> QED
    BY <1>4, <1>5

(* An answer ends as some command does, so a single byte is not data. *)
LEMMA AnswerEnds ==
  ASSUME log \in Pieces(Bytes), Ended, NEW s \in [write_cmd : Nat, write_cmd_offset : Nat]
  PROVE  Answer(s) \in Seq(Bytes) /\ EndsPlain(Answer(s))
  <1> DEFINE n == Len(log)
             lim == Len(Content) - s.write_cmd_offset
             first == IF s.write_cmd = Bound THEN 0 ELSE s.write_cmd
             sent[k \in 0 .. n] ==
               CASE k <= first -> << >>
                 [] k > first /\ Len(sent[k - 1]) >= lim -> sent[k - 1]
                 [] OTHER -> sent[k - 1] \o SubSeq(log[k], IF k = first + 1 THEN s.write_cmd_offset + 1 ELSE 1,
                                                   Len(log[k]))
             part(k) == SubSeq(log[k], IF k = first + 1 THEN s.write_cmd_offset + 1 ELSE 1, Len(log[k]))
             V == {v \in Seq(Bytes) : EndsPlain(v)}
             move(k, v) == CASE k <= first -> << >>
                             [] k > first /\ Len(v) >= lim -> v
                             [] OTHER -> v \o part(k)
             step == [k \in 1 .. n |-> [v \in V |-> move(k, v)]]
  <1>1. Answer(s) = sent[n]
    BY DEF Answer
  <1>2. n \in Nat /\ first \in Nat /\ s.write_cmd_offset + 1 \in Nat \ {0}
    BY DeviceAssumption DEF Pieces
  <1>3. << >> \in V
    BY DEF EndsPlain
  <1>4. \A k \in 1 .. n : log[k] \in Seq(Bytes) /\ EndsPlain(log[k])
    BY DEF Pieces, Ended, EndsPlain
  <1> HIDE DEF lim, first, n
  <1>5. ASSUME NEW k \in 1 .. n PROVE part(k) \in V
    <2> DEFINE p == IF k = first + 1 THEN s.write_cmd_offset + 1 ELSE 1
    <2>1. p \in Nat \ {0}
      BY <1>2
    <2> HIDE DEF p
    <2>2. SubSeq(log[k], p, Len(log[k])) \in V
      BY <1>4, <2>1, EndsFrom
    <2> QED
      BY <2>2 DEF p
  <1> HIDE DEF part
  <1>0. ASSUME NEW v PROVE move(0, v) = << >>
    <2>1. 0 <= first /\ ~(0 > first)
      BY <1>2
    <2> DEFINE w == v \o part(0)
               l == Len(v)
    <2> HIDE DEF w, l
    <2>2. (CASE 0 <= first -> << >> [] 0 > first /\ l >= lim -> v [] OTHER -> w) = << >>
      BY <2>1
    <2> QED
      BY <2>2 DEF w, l
  <1>6. ASSUME NEW k \in 1 .. n, NEW v \in V PROVE move(k, v) \in V
    <2>1. v \o part(k) \in V
      <3> DEFINE u == part(k)
      <3>1. u \in Seq(Bytes) /\ EndsPlain(u) /\ v \in Seq(Bytes) /\ EndsPlain(v)
        BY <1>5
      <3> HIDE DEF u
      <3>2. EndsPlain(v \o u) /\ v \o u \in Seq(Bytes)
        BY <3>1, EndsConcat
      <3> QED
        BY <3>2 DEF u
    <2> DEFINE w == v \o part(k)
    <2> HIDE DEF V, w
    <2>2. move(k, v) \in {<< >>, v, w}
      BY DEF w
    <2> QED
      BY <1>3, <2>1, <2>2 DEF w
  <1> HIDE DEF V
  <1>7. step \in Steps(n, V)
    <2> HIDE DEF move
    <2> QED
      BY <1>6 DEF Steps
  <1>8. PICK f \in [0 .. n -> V] : Follows(f, n, << >>, step)
    BY <1>2, <1>3, <1>7, RecursionExists
  <1>9. f[0] = << >> /\ \A k \in 1 .. n : f[k] = move(k, f[k - 1])
    <2> HIDE DEF move
    <2>1. \A k \in 1 .. n : k - 1 \in 0 .. n
      BY <1>2
    <2>2. \A k \in 1 .. n : f[k - 1] \in V
      BY <2>1
    <2>3. \A k \in 1 .. n : step[k][f[k - 1]] = move(k, f[k - 1])
      BY <2>2
    <2> QED
      BY <1>8, <2>3 DEF Follows
  <1> HIDE DEF step
  <1>10. f = [k \in 0 .. n |-> move(k, f[k - 1])]
    <2>1. f = [k \in 0 .. n |-> f[k]]
      OBVIOUS
    <2>2. ASSUME NEW k \in 0 .. n PROVE f[k] = move(k, f[k - 1])
      <3>1. CASE k = 0
        <4> HIDE DEF move
        <4> QED
          BY <1>0, <1>9, <3>1
      <3>2. CASE k # 0
        <4>1. k \in 1 .. n
          BY <1>2, <3>2
        <4> HIDE DEF move
        <4> QED
          BY <1>9, <4>1
      <3> QED
        BY <3>1, <3>2
    <2> HIDE DEF move
    <2> QED
      BY <2>1, <2>2
  <1>11. sent = [k \in 0 .. n |-> move(k, sent[k - 1])]
    <2> DEFINE P(g) == g = [k \in 0 .. n |-> move(k, g[k - 1])]
    <2>1. sent = CHOOSE g : P(g)
      BY DEF part
    <2>2. P(f)
      BY <1>10
    <2> HIDE DEF P, sent
    <2>3. P(sent)
      BY <2>1, <2>2
    <2> QED
      BY <2>3 DEF P
  <1> HIDE DEF sent
  <1>12. \A k \in 0 .. n : sent[k] = move(k, sent[k - 1])
    <2> HIDE DEF move
    <2> QED
      BY <1>11
  <1>13. sent[0] = << >>
    <2>1. 0 \in 0 .. n
      BY <1>2
    <2> HIDE DEF move
    <2> QED
      BY <1>0, <1>12, <2>1
  <1> HIDE DEF move
  <1>14. sent[n] \in V
    <2> DEFINE T == {k \in Nat : k <= n => sent[k] \in V}
    <2>1. 0 \in T
      BY <1>3, <1>13
    <2>2. ASSUME NEW k \in Nat, k \in T PROVE k + 1 \in T
      <3> SUFFICES ASSUME k + 1 <= n PROVE sent[k + 1] \in V
        OBVIOUS
      <3>1. k + 1 \in 1 .. n /\ k + 1 \in 0 .. n /\ (k + 1) - 1 = k /\ k <= n
        BY <1>2
      <3>2. sent[k] \in V
        BY <2>2, <3>1
      <3>3. sent[k + 1] = move(k + 1, sent[k])
        BY <1>12, <3>1
      <3> QED
        BY <1>6, <3>1, <3>2, <3>3
    <2> HIDE DEF T
    <2>3. n \in T
      BY <1>2, <2>1, <2>2, SetInduction
    <2> QED
      BY <1>2, <2>3 DEF T
  <1> QED
    BY <1>1, <1>14 DEF V


(* One byte of an answer is not data. *)
LEMMA AnswerSingle ==
  ASSUME log \in Pieces(Bytes), Ended, NEW s \in [write_cmd : Nat, write_cmd_offset : Nat], Len(Answer(s)) = 1
  PROVE  \E x \in Plain : Answer(s) = <<x>>
  <1> DEFINE a == Answer(s)
  <1>1. a \in Seq(Bytes) /\ EndsPlain(a) /\ Len(a) = 1
    BY AnswerEnds
  <1> HIDE DEF a
  <1>2. a[1] \in Plain /\ a = <<a[1]>>
    BY <1>1 DEF EndsPlain
  <1> QED
    BY <1>2 DEF a

-----------------------------------------------------------------------------
(* What the device keeps and what is read from it. *)

(* A read ends inside the content. *)
LEMMA ReadEnds ==
  ASSUME log \in Pieces(Bytes), NEW o \in Nat, o < Len(Content)
  PROVE  \E e \in Nat : o <= e /\ e <= Len(Content) /\ ReadAt(o) = SubSeq(Content, o + 1, e)
  <1> DEFINE n == Len(log)
             upto(i) == Len(FlattenSeq(SubSeq(log, 1, i)))
             ends == {upto(i) : i \in 1 .. n}
             end == CHOOSE e \in ends : e > o /\ \A x \in ends : x > o => e <= x
             l == Len(Content)
             later == {e \in ends : e > o}
             stop == IF o + ReadSize < end THEN o + ReadSize ELSE end
  <1>1. n \in Nat /\ l \in Nat /\ o < l /\ Content \in Seq(Bytes) /\ \A i \in 1 .. n : log[i] \in Seq(Bytes)
    <2>1. Content \in Seq(Bytes)
      BY FlattenType DEF Content
    <2> QED
      BY <2>1 DEF Pieces
  <1>2. ReadAt(o) = SubSeq(Content, o + 1, stop)
    BY DEF ReadAt
  <1> HIDE DEF l
  <1>3. \A i \in 1 .. n : upto(i) \in Nat
    <2> SUFFICES ASSUME NEW i \in 1 .. n PROVE upto(i) \in Nat
      OBVIOUS
    <2> DEFINE one == 1
               a == SubSeq(log, one, i)
    <2>1. one \in Int /\ i \in Int /\ \A k \in one .. i : log[k] \in Seq(Bytes)
      BY <1>1
    <2> HIDE DEF one
    <2>2. a \in Seq(Seq(Bytes))
      BY <2>1, SubSeqProperties
    <2> HIDE DEF a
    <2>3. FlattenSeq(a) \in Seq(Bytes)
      BY <2>2, FlattenType DEF Pieces
    <2>4. Len(FlattenSeq(a)) \in Nat
      BY <2>3
    <2> QED
      BY <2>4 DEF a, one
  <1>4. n > 0 /\ upto(n) = l
    <2>1. log = << >> => Content = << >>
      BY DEF Content, FlattenSeq
    <2>2. n = 0 => log = << >>
      BY DEF Pieces
    <2>3. n > 0
      <3>1. Content = << >> => l = 0
        BY DEF l
      <3> HIDE DEF n
      <3> QED
        BY <1>1, <2>1, <2>2, <3>1
    <2>4. SubSeq(log, 1, n) = log
      BY SubSeqFull DEF Pieces
    <2> QED
      BY <2>3, <2>4 DEF l, Content
  <1> HIDE DEF n, upto
  <1>5. ends \subseteq Nat /\ l \in ends
    BY <1>1, <1>3, <1>4
  <1> HIDE DEF ends
  <1>6. later \subseteq Nat /\ later # {}
    BY <1>1, <1>5
  <1>7. PICK e \in later : \A y \in later : e <= y
    BY <1>6, LeastExists
  <1>8. e \in ends /\ e > o /\ \A x \in ends : x > o => e <= x
    BY <1>7
  <1>9. end \in ends /\ end > o /\ \A x \in ends : x > o => end <= x
    BY <1>8
  <1> HIDE DEF end
  <1>10. end \in Nat /\ end > o /\ end <= l
    BY <1>1, <1>5, <1>9
  <1>11. stop \in Nat /\ o <= stop /\ stop <= l
    <2>1. ReadSize \in Nat
      BY DeviceAssumption
    <2> QED
      BY <1>1, <1>10, <2>1
  <1> HIDE DEF stop
  <1> QED
    BY <1>2, <1>11 DEF l

(* Adding a command adds its bytes. *)
LEMMA AppendContent ==
  ASSUME NEW S, NEW s \in Pieces(S), NEW x \in Seq(S)
  PROVE  Append(s, x) \in Pieces(S) /\ FlattenSeq(Append(s, x)) = FlattenSeq(s) \o x
  <1> DEFINE t == <<x>>
  <1>1. t \in Pieces(S) /\ FlattenSeq(t) = x /\ Append(s, x) = s \o t /\ s \o t \in Pieces(S)
    <2>1. FlattenSeq(t) = x
      BY FlattenSmall
    <2> QED
      BY <2>1 DEF Pieces
  <1> HIDE DEF t
  <1>2. FlattenSeq(s \o t) = FlattenSeq(s) \o FlattenSeq(t)
    BY <1>1, FlattenConcat
  <1> QED
    BY <1>1, <1>2

(* Dropping the oldest command drops its bytes. *)
LEMMA TailContent ==
  ASSUME NEW S, NEW s \in Pieces(S), Len(s) > 0
  PROVE  /\ Tail(s) \in Pieces(S) /\ Len(Tail(s)) = Len(s) - 1
         /\ \A i \in 1 .. Len(s) - 1 : Tail(s)[i] = s[i + 1]
         /\ s[1] \in Seq(S) /\ FlattenSeq(s) = s[1] \o FlattenSeq(Tail(s))
  <1> DEFINE h == <<s[1]>>
             t == Tail(s)
             n == Len(s)
  <1>1. n \in Nat /\ n > 0 /\ n = Len(s) /\ \A i \in 1 .. n : s[i] \in Seq(S)
    BY DEF Pieces
  <1>2. s \in Seq(Seq(S)) /\ s # << >>
    BY DEF Pieces
  <1>3. t \in Seq(Seq(S)) /\ Len(t) = Len(s) - 1 /\ \A i \in 1 .. Len(s) - 1 : t[i] = s[i + 1]
    BY <1>2, HeadTailProperties
  <1> HIDE DEF t, n
  <1>4. 1 \in 1 .. n
    BY <1>1
  <1>5. s[1] \in Seq(S)
    BY <1>1, <1>4
  <1>6. h \in Seq(Seq(S)) /\ Len(h) = 1 /\ h[1] = s[1] /\ FlattenSeq(h) = s[1]
    <2>1. FlattenSeq(h) = s[1]
      BY <1>5, FlattenSmall
    <2> QED
      BY <1>5, <2>1
  <1> HIDE DEF h
  <1>7. h \o t = s
    <2> DEFINE w == h \o t
               Z == Seq(S)
    <2>0. h \in Seq(Z) /\ t \in Seq(Z) /\ s \in Seq(Z)
      BY <1>2, <1>3, <1>6
    <2> HIDE DEF Z
    <2>1. /\ w \in Seq(Z) /\ Len(w) = Len(h) + Len(t)
          /\ \A i \in 1 .. Len(h) + Len(t) : w[i] = IF i <= Len(h) THEN h[i] ELSE t[i - Len(h)]
      BY <2>0, ConcatProperties
    <2> HIDE DEF w
    <2>2. Len(w) = n /\ \A i \in 1 .. n : w[i] = IF i <= 1 THEN h[i] ELSE t[i - 1]
      <3>1. 1 + (n - 1) = n
        BY <1>1
      <3> QED
        BY <1>1, <1>3, <1>6, <2>1, <3>1
    <2>3. ASSUME NEW i \in 1 .. n PROVE w[i] = s[i]
      <3>1. CASE i <= 1
        <4>1. i = 1
          BY <3>1
        <4> QED
          BY <1>6, <2>2, <3>1, <4>1
      <3>2. CASE ~(i <= 1)
        <4>1. i - 1 \in 1 .. n - 1 /\ (i - 1) + 1 = i
          BY <1>1, <3>2
        <4>2. t[i - 1] = s[i]
          BY <1>1, <1>3, <4>1
        <4> QED
          BY <2>2, <3>2, <4>2
      <3> QED
        BY <3>1, <3>2
    <2>4. w = s
      BY <1>1, <2>0, <2>1, <2>2, <2>3, SeqEqual
    <2> QED
      BY <2>4 DEF w
  <1>8. FlattenSeq(h \o t) = FlattenSeq(h) \o FlattenSeq(t)
    BY <1>3, <1>6, FlattenConcat DEF Pieces
  <1> QED
    BY <1>3, <1>5, <1>6, <1>7, <1>8 DEF t, Pieces

(* The same end can be taken off. *)
LEMMA ConcatCancel ==
  ASSUME NEW S, NEW s1 \in Seq(S), NEW s2 \in Seq(S), NEW x \in Seq(S), s1 \o x = s2 \o x
  PROVE  s1 = s2
  <1> DEFINE a == s1 \o x
             b == s2 \o x
             n == Len(s1)
             m == Len(s2)
             l == Len(x)
  <1>1. n \in Nat /\ m \in Nat /\ l \in Nat /\ n = Len(s1) /\ m = Len(s2) /\ l = Len(x) /\ a = b
    OBVIOUS
  <1>2. /\ a \in Seq(S) /\ Len(a) = Len(s1) + Len(x)
        /\ \A i \in 1 .. Len(s1) + Len(x) : a[i] = IF i <= Len(s1) THEN s1[i] ELSE x[i - Len(s1)]
    BY ConcatProperties
  <1>3. /\ b \in Seq(S) /\ Len(b) = Len(s2) + Len(x)
        /\ \A i \in 1 .. Len(s2) + Len(x) : b[i] = IF i <= Len(s2) THEN s2[i] ELSE x[i - Len(s2)]
    BY ConcatProperties
  <1> HIDE DEF a, b, n, m, l
  <1>4. Len(a) = n + l /\ \A i \in 1 .. n + l : a[i] = IF i <= n THEN s1[i] ELSE x[i - n]
    BY <1>1, <1>2
  <1>5. Len(b) = m + l /\ \A i \in 1 .. m + l : b[i] = IF i <= m THEN s2[i] ELSE x[i - m]
    BY <1>1, <1>3
  <1>6. n = m
    BY <1>1, <1>4, <1>5
  <1>7. \A i \in 1 .. n : i \in 1 .. n + l /\ i <= n
    BY <1>1
  <1>8. \A i \in 1 .. n : s1[i] = s2[i]
    BY <1>1, <1>4, <1>5, <1>6, <1>7
  <1> QED
    BY <1>1, <1>6, <1>8, SeqEqual


(* Sequences of bytes one after the other. *)
LEMMA BytesConcat ==
  /\ \A s, t \in Seq(Bytes) : s \o t \in Seq(Bytes) /\ Len(s \o t) = Len(s) + Len(t)
  /\ \A s, t, u \in Seq(Bytes) : (s \o t) \o u = s \o (t \o u)
  /\ \A c : \A s, t \in Seq(Bytes) : Own(c, s \o t) = Own(c, s) \o Own(c, t)
  <1>1. \A s, t \in Seq(Bytes) : s \o t \in Seq(Bytes) /\ Len(s \o t) = Len(s) + Len(t)
    BY ConcatProperties
  <1>2. \A s, t, u \in Seq(Bytes) : (s \o t) \o u = s \o (t \o u)
    BY ConcatThree
  <1>3. ASSUME NEW c, NEW s \in Seq(Bytes), NEW t \in Seq(Bytes) PROVE Own(c, s \o t) = Own(c, s) \o Own(c, t)
    BY OwnConcat
  <1> QED
    BY <1>1, <1>2, <1>3

-----------------------------------------------------------------------------
(* Each action keeps the invariant. *)

(* What the invariant says of one connection, and what a step leaves alone *)
(* when it is another connection's.                                        *)
Held(c) == ChunkOK(c) /\ WholeOK(c) /\ ReadOK(c) /\ AnswerOK(c)

Same(c) ==
  /\ at'[c] = at[c] /\ text'[c] = text[c] /\ buffer'[c] = buffer[c] /\ seek'[c] = seek[c]
  /\ off'[c] = off[c] /\ reply'[c] = reply[c] /\ data'[c] = data[c]
  /\ c \in torn => c \in torn'

(* A step that leaves the device alone disturbs only its own connection. *)
LEMMA OwnStep ==
  ASSUME DeviceInv, NEW c \in Conn, UNCHANGED <<pending, log, published>>,
         \A d \in Conn \ {c} : Same(d), DeviceTypes', Held(c)'
  PROVE  DeviceInv'
  <1>1. Content' = Content
    BY DEF Content
  <1>2. Ended' /\ Remains'
    BY <1>1 DEF DeviceInv, Ended, Remains
  <1>3. ASSUME NEW d \in Conn \ {c} PROVE Held(d)'
    <2>1. Same(d) /\ ChunkOK(d) /\ WholeOK(d) /\ ReadOK(d) /\ AnswerOK(d)
      BY DEF DeviceInv
    <2>2. ChunkOK(d)'
      BY <2>1 DEF Same, ChunkOK
    <2>3. WholeOK(d)'
      BY <2>1 DEF Same, WholeOK, Waiting
    <2>4. ReadOK(d)'
      BY <2>1 DEF Same, ReadOK
    <2>5. AnswerOK(d)'
      BY <1>1, <2>1 DEF Same, AnswerOK
    <2> QED
      BY <2>2, <2>3, <2>4, <2>5 DEF Held
  <1>4. \A d \in Conn : Held(d)'
    BY <1>3
  <1> QED
    BY <1>2, <1>4 DEF DeviceInv, Held

(* A worker goes on, and all else that changes is which answers are torn:  *)
(* a call begins, a torn read returns or the client hangs up.              *)
LEMMA MoveStep ==
  ASSUME DeviceInv, NEW c \in Conn, NEW w, at' = [at EXCEPT ![c] = w],
         \/ at[c] = "write" /\ w = "writing"
         \/ at[c] = "read" /\ w = "reading"
         \/ at[c] = "reading" /\ c \in torn /\ w \in {"read", "recv", "done"}
         \/ at[c] = "recv" /\ w = "done",
         torn \subseteq torn', torn' \subseteq Conn,
         UNCHANGED <<pending, log, published>>,
         UNCHANGED <<text, buffer, seek, off, reply, pieces, data>>
  PROVE  DeviceInv'
  <1>1. DeviceTypes /\ at \in [Conn -> Labels] /\ ChunkOK(c) /\ WholeOK(c) /\ ReadOK(c) /\ AnswerOK(c)
    BY DEF DeviceInv, DeviceTypes
  <1>2. at' \in [Conn -> Labels] /\ at'[c] = w /\ \A d \in Conn \ {c} : at'[d] = at[d]
    BY <1>1 DEF Labels
  <1>3. DeviceTypes'
    BY <1>1, <1>2 DEF DeviceTypes
  <1>4. \A d \in Conn \ {c} : Same(d)
    BY <1>2 DEF Same
  <1>5. Held(c)'
    <2>1. ChunkOK(c)'
      BY <1>1, <1>2 DEF ChunkOK, Writing
    <2>2. WholeOK(c)'
      <3>1. Waiting(c)' = Waiting(c)
        BY <1>2 DEF Waiting, Writing
      <3> QED
        BY <1>1, <3>1 DEF WholeOK
    <2>3. ReadOK(c)'
      BY <1>1, <1>2 DEF ReadOK
    <2>4. AnswerOK(c)'
      BY <1>1, <1>2 DEF AnswerOK, Content
    <2> QED
      BY <2>1, <2>2, <2>3, <2>4 DEF Held
  <1> QED
    BY <1>3, <1>4, <1>5, OwnStep

(* The client hangs up. *)
LEMMA HangupStep ==
  ASSUME DeviceInv, NEW c \in Conn, Hangup(c)
  PROVE  DeviceInv'
  <1>1. torn \subseteq torn' /\ torn' \subseteq Conn
    BY DEF Hangup, DeviceInv, DeviceTypes
  <1>2. at[c] = "recv" /\ at' = [at EXCEPT ![c] = "done"]
    BY DEF Hangup
  <1> QED
    BY <1>1, <1>2, MoveStep DEF Hangup, device

(* A worker calls write() or read(). *)
LEMMA CallStep ==
  ASSUME DeviceInv, NEW c \in Conn, WriteCall(c) \/ ReadCall(c)
  PROVE  DeviceInv'
  <1>1. torn \subseteq torn' /\ torn' \subseteq Conn
    BY DEF WriteCall, ReadCall, DeviceInv, DeviceTypes
  <1>2. \/ at[c] = "write" /\ at' = [at EXCEPT ![c] = "writing"]
        \/ at[c] = "read" /\ at' = [at EXCEPT ![c] = "reading"]
    BY DEF WriteCall, ReadCall
  <1>3. UNCHANGED <<pending, log, published>> /\ UNCHANGED <<text, buffer, seek, off, reply, pieces, data>>
    BY DEF WriteCall, ReadCall, device
  <1> QED
    BY <1>1, <1>2, <1>3, MoveStep

(* A torn read returns. *)
LEMMA TornStep ==
  ASSUME DeviceInv, NEW c \in Conn, ReadTorn(c)
  PROVE  DeviceInv'
  <1>1. torn \subseteq torn' /\ torn' \subseteq Conn
    BY DEF ReadTorn, DeviceInv, DeviceTypes
  <1>2. PICK w \in {"read", "recv", "done"} : at' = [at EXCEPT ![c] = w]
    BY DEF ReadTorn
  <1>3. at[c] = "reading" /\ c \in torn
        /\ UNCHANGED <<pending, log, published>> /\ UNCHANGED <<text, buffer, seek, off, reply, pieces, data>>
    BY DEF ReadTorn, device
  <1> QED
    BY <1>1, <1>2, <1>3, MoveStep

(* One more number. *)
LEMMA NumberedGrows ==
  ASSUME NEW c, NEW n \in Nat
  PROVE  Numbered(c, n) \o <<<<c, n + 1>>>> = Numbered(c, n + 1)
  <1> DEFINE S == {<<c, k>> : k \in Nat}
             a == Numbered(c, n)
             b == Numbered(c, n + 1)
             x == <<c, n + 1>>
             w == Append(a, x)
  <1>1. \A k \in Nat : <<c, k>> \in S
    OBVIOUS
  <1>2. /\ a \in [1 .. n -> S] /\ \A k \in 1 .. n : a[k] = <<c, k>>
    BY <1>1 DEF Numbered
  <1>3. /\ b \in [1 .. n + 1 -> S] /\ \A k \in 1 .. n + 1 : b[k] = <<c, k>>
    BY <1>1 DEF Numbered
  <1>4. x \in S /\ x = <<c, n + 1>>
    BY <1>1
  <1> HIDE DEF S, a, b, x
  <1>5. a \in Seq(S) /\ Len(a) = n /\ b \in Seq(S) /\ Len(b) = n + 1
    BY <1>2, <1>3
  <1>6. w \in Seq(S) /\ Len(w) = n + 1 /\ w[n + 1] = x /\ \A k \in 1 .. n : w[k] = a[k]
    BY <1>4, <1>5
  <1> HIDE DEF w
  <1>7. ASSUME NEW k \in 1 .. n + 1 PROVE w[k] = b[k]
    <2>1. CASE k = n + 1
      BY <1>3, <1>4, <1>6, <2>1
    <2>2. CASE k # n + 1
      <3>1. k \in 1 .. n
        BY <2>2
      <3> QED
        BY <1>2, <1>3, <1>6, <3>1
    <2> QED
      BY <2>1, <2>2
  <1>8. w = b
    BY <1>5, <1>6, <1>7, SeqEqual
  <1>9. w = a \o <<x>>
    BY <1>4, <1>5, AppendIsConcat DEF w
  <1> QED
    BY <1>8, <1>9 DEF a, b, x

(* Data arrives. *)
LEMMA RecvStep ==
  ASSUME DeviceInv, NEW c \in Conn, NEW m \in Message, recv(c, m)
  PROVE  DeviceInv'
  <1> DEFINE n == data[c] + 1
             x == <<c, n>>
             b == <<x>> \o (IF EndsLine(m) THEN <<Newline>> ELSE << >>)
  <1>1. /\ at[c] = "recv" /\ at' = [at EXCEPT ![c] = "write"] /\ pieces[c] < MaxPieces
        /\ pieces' = [pieces EXCEPT ![c] = @ + 1] /\ text' = [text EXCEPT ![c] = m] /\ ~IsCommand(m)
        /\ data' = [data EXCEPT ![c] = @ + 1]
        /\ UNCHANGED <<pending, log, published>> /\ UNCHANGED <<seek, off, reply, torn>>
    BY DEF recv, Receive, device
  <1>2. /\ DeviceTypes /\ at \in [Conn -> Labels] /\ data \in [Conn -> Nat] /\ buffer \in [Conn -> Seq(Bytes)]
        /\ text \in [Conn -> Message \cup {NoText}] /\ pieces \in [Conn -> Nat]
        /\ \A d \in Conn : data[d] <= pieces[d] /\ pieces[d] <= MaxPieces
    BY DEF DeviceInv, DeviceTypes
  <1>3. data'[c] = n /\ n \in Nat /\ \A d \in Conn \ {c} : data'[d] = data[d]
    BY <1>1, <1>2
  <1>4. buffer' = [buffer EXCEPT ![c] = b]
    BY <1>3 DEF recv
  <1>5. n \in 1 .. MaxPieces
    BY <1>1, <1>2, DeviceAssumption
  <1>6. b \in DataChunk(c, n)
    <2>1. <<x>> \o <<Newline>> = <<x, Newline>>
      BY ShortConcats
    <2>2. <<x>> \o << >> = <<x>>
      OBVIOUS
    <2> HIDE DEF x
    <2>3. b = <<x>> \/ b = <<x, Newline>>
      BY <2>1, <2>2
    <2> QED
      BY <2>3 DEF DataChunk, x
  <1> HIDE DEF b, n
  <1>7. /\ b \in Seq(Bytes) /\ Own(c, b) = <<x>>
    BY <1>5, <1>6, DataChunkIs
  <1>8. /\ at' \in [Conn -> Labels] /\ at'[c] = "write" /\ (\A d \in Conn \ {c} : at'[d] = at[d])
        /\ text' \in [Conn -> Message \cup {NoText}] /\ text'[c] = m /\ (\A d \in Conn \ {c} : text'[d] = text[d])
        /\ buffer' \in [Conn -> Seq(Bytes)] /\ buffer'[c] = b /\ (\A d \in Conn \ {c} : buffer'[d] = buffer[d])
    BY <1>1, <1>2, <1>4, <1>7 DEF Labels
  <1>9. DeviceTypes'
    <2>1. /\ data' \in [Conn -> Nat] /\ pieces' \in [Conn -> Nat]
          /\ \A d \in Conn : data'[d] <= pieces'[d] /\ pieces'[d] <= MaxPieces
      BY <1>1, <1>2, DeviceAssumption
    <2> QED
      BY <1>1, <1>2, <1>8, <2>1 DEF DeviceTypes
  <1>10. \A d \in Conn \ {c} : Same(d)
    BY <1>1, <1>3, <1>8 DEF Same
  <1>11. Held(c)'
    <2>1. ChunkOK(c)'
      BY <1>1, <1>3, <1>5, <1>6, <1>8 DEF ChunkOK, Writing
    <2>2. WholeOK(c)'
      <3> DEFINE o == Own(c, published \o pending)
      <3>1. Waiting(c) = << >> /\ Waiting(c)' = b
        BY <1>1, <1>8 DEF Waiting, Writing
      <3>2. o \o Own(c, << >>) = Numbered(c, data[c])
        BY <3>1 DEF DeviceInv, WholeOK
      <3>3. o \in Seq(Bytes) /\ Own(c, << >>) = << >>
        <4>1. published \o pending \in Seq(Bytes)
          BY <1>2 DEF DeviceTypes
        <4> QED
          BY <4>1, OwnType, OwnSmall
      <3>4. o = Numbered(c, data[c])
        BY <3>2, <3>3
      <3>5. o \o <<x>> = Numbered(c, n)
        BY <1>2, <3>4, NumberedGrows DEF n
      <3> QED
        BY <1>1, <1>3, <1>7, <3>1, <3>5 DEF WholeOK
    <2>3. ReadOK(c)'
      BY <1>8 DEF ReadOK
    <2>4. AnswerOK(c)'
      BY <1>1, <1>8 DEF DeviceInv, AnswerOK, Content
    <2> QED
      BY <2>1, <2>2, <2>3, <2>4 DEF Held
  <1> QED
    BY <1>1, <1>9, <1>10, <1>11, OwnStep


(* A seek command arrives. *)
LEMMA RecvSeekStep ==
  ASSUME DeviceInv, NEW c \in Conn, NEW m \in Message, recv_seek(c, m)
  PROVE  DeviceInv'
  <1> DEFINE b == <<SeekText>> \o (IF EndsLine(m) THEN <<Newline>> ELSE << >>)
  <1>1. /\ at[c] = "recv" /\ at' = [at EXCEPT ![c] = "ioctl"] /\ pieces[c] < MaxPieces
        /\ pieces' = [pieces EXCEPT ![c] = @ + 1] /\ text' = [text EXCEPT ![c] = m] /\ IsCommand(m)
        /\ buffer' = [buffer EXCEPT ![c] = b]
        /\ UNCHANGED <<pending, log, published>> /\ UNCHANGED <<data, off, reply, torn>>
    BY DEF recv_seek, Receive, device
  <1>2. PICK s \in Seeks(m) : seek' = [seek EXCEPT ![c] = s]
    BY DEF recv_seek
  <1>3. /\ DeviceTypes /\ at \in [Conn -> Labels] /\ data \in [Conn -> Nat] /\ buffer \in [Conn -> Seq(Bytes)]
        /\ text \in [Conn -> Message \cup {NoText}] /\ pieces \in [Conn -> Nat]
        /\ seek \in [Conn -> [write_cmd : Nat, write_cmd_offset : Nat]]
        /\ \A d \in Conn : data[d] <= pieces[d] /\ pieces[d] <= MaxPieces
    BY DEF DeviceInv, DeviceTypes
  <1>4. s \in [write_cmd : Nat, write_cmd_offset : Nat]
    BY DeviceAssumption, SeeksAreNumbers
  <1>5. b \in SeekChunk /\ (EndsLine(m) => b = <<SeekText, Newline>>)
    <2>1. <<SeekText>> \o <<Newline>> = <<SeekText, Newline>>
      BY ShortConcats
    <2>2. <<SeekText>> \o << >> = <<SeekText>>
      OBVIOUS
    <2> QED
      BY <2>1, <2>2 DEF SeekChunk
  <1> HIDE DEF b
  <1>6. b \in Seq(Bytes) /\ Own(c, b) = << >>
    BY <1>5, PlainChunkIs
  <1> DEFINE R == [write_cmd : Nat, write_cmd_offset : Nat]
  <1>7. /\ at' \in [Conn -> Labels] /\ at'[c] = "ioctl" /\ (\A d \in Conn \ {c} : at'[d] = at[d])
        /\ text' \in [Conn -> Message \cup {NoText}] /\ text'[c] = m /\ (\A d \in Conn \ {c} : text'[d] = text[d])
        /\ buffer' \in [Conn -> Seq(Bytes)] /\ buffer'[c] = b /\ (\A d \in Conn \ {c} : buffer'[d] = buffer[d])
    BY <1>1, <1>3, <1>6 DEF Labels
  <1>8. seek' \in [Conn -> R] /\ seek'[c] = s /\ (\A d \in Conn \ {c} : seek'[d] = seek[d])
    <2>1. seek \in [Conn -> R] /\ s \in R
      BY <1>3, <1>4
    <2> HIDE DEF R
    <2> QED
      BY <1>2, <2>1
  <1>9. DeviceTypes'
    <2>1. /\ pieces' \in [Conn -> Nat]
          /\ \A d \in Conn : data[d] <= pieces'[d] /\ pieces'[d] <= MaxPieces
      BY <1>1, <1>3, DeviceAssumption
    <2> QED
      BY <1>1, <1>3, <1>7, <1>8, <2>1 DEF DeviceTypes
  <1>10. \A d \in Conn \ {c} : Same(d)
    BY <1>1, <1>7, <1>8 DEF Same
  <1>11. Held(c)'
    <2>1. ChunkOK(c)'
      BY <1>1, <1>2, <1>5, <1>7, <1>8 DEF ChunkOK, Writing
    <2>2. WholeOK(c)'
      <3>1. Waiting(c) = << >> /\ Waiting(c)' = << >>
        BY <1>1, <1>7 DEF Waiting, Writing
      <3> QED
        BY <1>1, <3>1 DEF DeviceInv, WholeOK
    <2>3. ReadOK(c)'
      BY <1>7 DEF ReadOK
    <2>4. AnswerOK(c)'
      BY <1>1, <1>7 DEF DeviceInv, AnswerOK, Content
    <2> QED
      BY <2>1, <2>2, <2>3, <2>4 DEF Held
  <1> QED
    BY <1>1, <1>9, <1>10, <1>11, OwnStep

(* The device carries a seek command out. *)
LEMMA IoctlStep ==
  ASSUME DeviceInv, NEW c \in Conn, ioctl(c)
  PROVE  DeviceInv'
  <1>1. /\ at[c] = "ioctl"
        /\ UNCHANGED <<pending, log, published>> /\ UNCHANGED <<text, seek, off, reply, torn, pieces, data>>
    BY DEF ioctl, device
  <1>2. /\ DeviceTypes /\ at \in [Conn -> Labels] /\ buffer \in [Conn -> Seq(Bytes)]
        /\ seek[c] \in [write_cmd : Nat, write_cmd_offset : Nat]
        /\ log \in Pieces(Bytes) /\ Ended /\ ChunkOK(c) /\ WholeOK(c) /\ AnswerOK(c)
    BY DEF DeviceInv, DeviceTypes
  <1>3. /\ text[c] \in Message /\ IsCommand(text[c]) /\ buffer[c] \in SeekChunk
        /\ EndsLine(text[c]) => buffer[c] = <<SeekText, Newline>>
    BY <1>1, <1>2 DEF ChunkOK, Writing
  <1>4. Own(c, buffer[c]) = << >>
    BY <1>3, PlainChunkIs
  <1>5. Waiting(c) = << >>
    BY <1>1 DEF Waiting, Writing
  <1>6. CASE Len(Answer(seek[c])) # 1
    <2>1. at' = [at EXCEPT ![c] = "recv"] /\ UNCHANGED buffer
      BY <1>6 DEF ioctl
    <2>2. at' \in [Conn -> Labels] /\ at'[c] = "recv" /\ \A d \in Conn \ {c} : at'[d] = at[d]
      BY <1>2, <2>1 DEF Labels
    <2>3. DeviceTypes'
      BY <1>1, <1>2, <2>1, <2>2 DEF DeviceTypes
    <2>4. \A d \in Conn \ {c} : Same(d)
      BY <1>1, <2>1, <2>2 DEF Same
    <2>5. Held(c)'
      <3>1. ChunkOK(c)'
        BY <2>2 DEF ChunkOK, Writing
      <3>2. WholeOK(c)'
        <4>1. Waiting(c)' = << >>
          BY <2>2 DEF Waiting, Writing
        <4> QED
          BY <1>1, <1>2, <1>5, <4>1 DEF WholeOK
      <3>3. ReadOK(c)'
        BY <2>2 DEF ReadOK
      <3>4. AnswerOK(c)'
        BY <1>1, <1>2, <1>4, <2>1, <2>2 DEF AnswerOK, Content
      <3> QED
        BY <3>1, <3>2, <3>3, <3>4 DEF Held
    <2> QED
      BY <1>1, <2>3, <2>4, <2>5, OwnStep
  <1>7. CASE Len(Answer(seek[c])) = 1
    <2> DEFINE a == Answer(seek[c])
               b == a \o buffer[c]
    <2>1. at' = [at EXCEPT ![c] = "write"] /\ buffer' = [buffer EXCEPT ![c] = b]
      BY <1>7 DEF ioctl
    <2>2. PICK x \in Plain : a = <<x>>
      BY <1>2, <1>7, AnswerSingle
    <2>3. b \in EchoChunk /\ (EndsLine(text[c]) => b = <<x, SeekText, Newline>>)
      <3> DEFINE u == buffer[c]
      <3>1. u = <<SeekText>> \/ u = <<SeekText, Newline>>
        BY <1>3 DEF SeekChunk
      <3>2. b = <<x>> \o u /\ (EndsLine(text[c]) => u = <<SeekText, Newline>>)
        BY <1>3, <2>2
      <3>3. <<x>> \o <<SeekText>> = <<x, SeekText>> /\ <<x>> \o <<SeekText, Newline>> = <<x, SeekText, Newline>>
        BY ShortConcats
      <3> HIDE DEF u, b
      <3>4. EndsLine(text[c]) => b = <<x, SeekText, Newline>>
        BY <3>2, <3>3, Zenon
      <3>5. b = <<x, SeekText>> \/ b = <<x, SeekText, Newline>>
        BY <3>1, <3>2, <3>3, Zenon
      <3> QED
        BY <3>4, <3>5, Zenon DEF EchoChunk
    <2> HIDE DEF a, b
    <2>4. b \in Seq(Bytes) /\ Own(c, b) = << >>
      BY <2>3, PlainChunkIs
    <2>5. /\ at' \in [Conn -> Labels] /\ at'[c] = "write" /\ (\A d \in Conn \ {c} : at'[d] = at[d])
          /\ buffer' \in [Conn -> Seq(Bytes)] /\ buffer'[c] = b /\ (\A d \in Conn \ {c} : buffer'[d] = buffer[d])
      BY <1>2, <2>1, <2>4 DEF Labels
    <2>6. DeviceTypes'
      BY <1>1, <1>2, <2>5 DEF DeviceTypes
    <2>7. \A d \in Conn \ {c} : Same(d)
      BY <1>1, <2>5 DEF Same
    <2>8. Held(c)'
      <3>1. ChunkOK(c)'
        <4>1. text'[c] = text[c]
          BY <1>1
        <4> QED
          BY <1>3, <2>2, <2>3, <2>5, <4>1, Zenon DEF ChunkOK, Writing
      <3>2. WholeOK(c)'
        <4>1. Waiting(c)' = b /\ Own(c, << >>) = << >>
          BY <2>5, OwnSmall DEF Waiting, Writing
        <4> QED
          BY <1>1, <1>2, <1>5, <2>4, <4>1 DEF WholeOK
      <3>3. ReadOK(c)'
        BY <2>5 DEF ReadOK
      <3>4. AnswerOK(c)'
        BY <1>1, <1>2, <2>5 DEF AnswerOK, Content
      <3> QED
        BY <3>1, <3>2, <3>3, <3>4 DEF Held
    <2> QED
      BY <1>1, <2>6, <2>7, <2>8, OwnStep
  <1> QED
    BY <1>6, <1>7

(* A read that nothing overlapped returns, and what it gave is sent. *)
LEMMA ReadStep ==
  ASSUME DeviceInv, NEW c \in Conn, ReadReturn(c)
  PROVE  DeviceInv'
  <1>1. /\ at[c] = "reading"
        /\ UNCHANGED <<pending, log, published>> /\ UNCHANGED <<text, buffer, seek, torn, pieces, data>>
    BY DEF ReadReturn, device
  <1>2. /\ DeviceTypes /\ at \in [Conn -> Labels] /\ off \in [Conn -> Nat] /\ reply \in [Conn -> Seq(Bytes)]
        /\ pending \in Seq(Bytes) /\ log \in Pieces(Bytes) /\ published \in Seq(Bytes)
        /\ ChunkOK(c) /\ WholeOK(c) /\ ReadOK(c) /\ AnswerOK(c)
    BY DEF DeviceInv, DeviceTypes
  <1>3. off[c] = Len(reply[c]) /\ Own(c, pending) = << >> /\ Waiting(c) = << >>
    BY <1>1, <1>2 DEF ReadOK, Waiting, Writing
  <1>4. Content \in Seq(Bytes) /\ Content' = Content
    BY <1>1, <1>2, FlattenType DEF Content
  <1>5. CASE off[c] < Len(Content)
    <2> DEFINE r == ReadAt(off[c])
    <2>1. at' = [at EXCEPT ![c] = "read"] /\ reply' = [reply EXCEPT ![c] = @ \o r] /\ off' = [off EXCEPT ![c] = @ + Len(r)]
      BY <1>5 DEF ReadReturn
    <2>2. PICK e \in Nat : off[c] <= e /\ e <= Len(Content) /\ r = SubSeq(Content, off[c] + 1, e)
      BY <1>2, <1>5, ReadEnds
    <2>0. at' \in [Conn -> Labels] /\ at'[c] = "read" /\ \A d \in Conn \ {c} : at'[d] = at[d]
      BY <1>2, <2>1 DEF Labels
    <2> HIDE DEF r
    <2>3. r \in Seq(Bytes) /\ (Content = published => IsPrefix(reply[c] \o r, published))
      <3> DEFINE s == Content
                 n == Len(s)
                 p == reply[c]
                 o == Len(p)
      <3>1. s \in Seq(Bytes) /\ p \in Seq(Bytes) /\ o = off[c] /\ n \in Nat /\ o \in Nat /\ o <= e /\ e <= n
        BY <1>2, <1>3, <1>4, <2>2
      <3>2. r = SubSeq(s, o + 1, e)
        BY <1>3, <2>2
      <3> HIDE DEF s, p
      <3>3. r \in Seq(Bytes)
        <4> DEFINE q == o + 1
        <4>1. q \in Int /\ e \in Int /\ \A i \in q .. e : s[i] \in Bytes
          <5>1. \A i \in 1 .. n : s[i] \in Bytes
            BY <3>1
          <5> HIDE DEF n, o
          <5> QED
            BY <3>1, <5>1
        <4> HIDE DEF q
        <4>2. SubSeq(s, q, e) \in Seq(Bytes)
          BY <4>1, SubSeqProperties
        <4> QED
          BY <3>2, <4>2 DEF q
      <3>4. ASSUME s = published PROVE IsPrefix(p \o r, published)
        <4>1. IsPrefix(p, s)
          BY <1>2, <3>4 DEF AnswerOK, s, p
        <4>2. IsPrefix(p \o SubSeq(s, Len(p) + 1, e), s)
          BY <3>1, <4>1, PrefixGrows
        <4> QED
          BY <3>2, <3>4, <4>2
      <3> QED
        BY <3>3, <3>4 DEF s, p
    <2>4. /\ reply' \in [Conn -> Seq(Bytes)] /\ reply'[c] = reply[c] \o r
          /\ (\A d \in Conn \ {c} : reply'[d] = reply[d])
          /\ off' \in [Conn -> Nat] /\ off'[c] = Len(reply[c]) + Len(r)
          /\ (\A d \in Conn \ {c} : off'[d] = off[d])
      <3> DEFINE t == reply[c] \o r
                 k == Len(r)
      <3>1. t \in Seq(Bytes) /\ k \in Nat
        BY <1>2, <2>3
      <3>2. reply' = [reply EXCEPT ![c] = t] /\ off' = [off EXCEPT ![c] = off[c] + k]
        BY <2>1
      <3> HIDE DEF t, k
      <3>3. off' \in [Conn -> Nat] /\ off'[c] = off[c] + k /\ (\A d \in Conn \ {c} : off'[d] = off[d])
        BY <1>2, <3>1, <3>2
      <3>4. reply' \in [Conn -> Seq(Bytes)] /\ reply'[c] = t /\ (\A d \in Conn \ {c} : reply'[d] = reply[d])
        BY <1>2, <3>1, <3>2
      <3> QED
        BY <1>3, <3>3, <3>4 DEF t, k
    <2>5. DeviceTypes'
      BY <1>1, <1>2, <2>0, <2>4 DEF DeviceTypes
    <2>6. \A d \in Conn \ {c} : Same(d)
      BY <1>1, <2>0, <2>4 DEF Same
    <2>7. Held(c)'
      <3>1. ChunkOK(c)'
        BY <2>0 DEF ChunkOK, Writing
      <3>2. WholeOK(c)'
        BY <1>1, <1>2, <2>0 DEF WholeOK, Waiting, Writing
      <3>3. ReadOK(c)'
        <4> DEFINE p == reply[c]
        <4>1. p \in Seq(Bytes)
          BY <1>2
        <4> HIDE DEF p
        <4>2. Len(p \o r) = Len(p) + Len(r)
          BY <2>3, <4>1
        <4>3. off'[c] = Len(reply'[c]) /\ pending' = pending
          BY <1>1, <2>4, <4>2 DEF p
        <4> QED
          BY <1>3, <4>3 DEF ReadOK
      <3>4. AnswerOK(c)'
        BY <1>1, <1>4, <2>0, <2>3, <2>4 DEF AnswerOK
      <3> QED
        BY <3>1, <3>2, <3>3, <3>4 DEF Held
    <2> QED
      BY <1>1, <2>5, <2>6, <2>7, OwnStep
  <1>6. CASE ~(off[c] < Len(Content))
    <2>1. at' = [at EXCEPT ![c] = "recv"] /\ UNCHANGED <<off, reply>>
      BY <1>6 DEF ReadReturn
    <2>2. at' \in [Conn -> Labels] /\ at'[c] = "recv" /\ \A d \in Conn \ {c} : at'[d] = at[d]
      BY <1>2, <2>1 DEF Labels
    <2>3. DeviceTypes'
      BY <1>1, <1>2, <2>1, <2>2 DEF DeviceTypes
    <2>4. \A d \in Conn \ {c} : Same(d)
      BY <1>1, <2>1, <2>2 DEF Same
    <2>5. Held(c)'
      <3>1. ChunkOK(c)'
        BY <2>2 DEF ChunkOK, Writing
      <3>2. WholeOK(c)'
        <4>1. Waiting(c)' = << >>
          BY <2>2 DEF Waiting, Writing
        <4> QED
          BY <1>1, <1>2, <1>3, <4>1 DEF WholeOK
      <3>3. ReadOK(c)'
        BY <2>2 DEF ReadOK
      <3>4. AnswerOK(c)'
        <4> SUFFICES ASSUME Content = published
                     PROVE  IsPrefix(reply[c], published) /\ Own(c, reply[c]) = Numbered(c, data[c])
          BY <1>1, <1>4, <2>1, <2>2 DEF AnswerOK
        <4>1. IsPrefix(reply[c], published)
          BY <1>2 DEF AnswerOK
        <4>2. reply[c] = published
          <5> DEFINE p == reply[c]
                     n == Len(p)
                     l == Len(published)
          <5>1. n \in Nat /\ l \in Nat /\ p \in Seq(Bytes) /\ ~(n < l)
            BY <1>2, <1>3, <1>6
          <5>2. n >= l
            <6> HIDE DEF n, l
            <6> QED
              BY <5>1
          <5> HIDE DEF p
          <5>3. p = published
            BY <1>2, <4>1, <5>1, <5>2, PrefixWhole DEF p
          <5> QED
            BY <5>3 DEF p
        <4>3. Own(c, published \o pending) = Own(c, published) \o Own(c, pending)
          <5>1. published \in Seq(Bytes) /\ pending \in Seq(Bytes)
            BY <1>2
          <5> QED
            BY <5>1, BytesConcat, Zenon
        <4>4. Own(c, published) \in Seq(Bytes) /\ Own(c, << >>) = << >>
          BY <1>2, OwnType, OwnSmall
        <4>5. Own(c, published \o pending) = Own(c, published)
          BY <1>3, <4>3, <4>4
        <4>6. Own(c, published) \o << >> = Numbered(c, data[c])
          BY <1>2, <1>3, <4>4, <4>5 DEF WholeOK
        <4> QED
          BY <4>1, <4>2, <4>4, <4>6
      <3> QED
        BY <3>1, <3>2, <3>3, <3>4 DEF Held
    <2> QED
      BY <1>1, <2>3, <2>4, <2>5, OwnStep
  <1> QED
    BY <1>5, <1>6


(* What a new command makes of the log and of its content. *)
LEMMA NewCommand ==
  ASSUME DeviceInv, NEW y \in Seq(Bytes), Len(y) > 0, y[Len(y)] \in Plain,
         NEW l, l = (IF Len(log) < Bound THEN Append(log, y) ELSE Tail(Append(log, y)))
  PROVE  /\ l \in Pieces(Bytes)
         /\ \A i \in 1 .. Len(l) : Len(l[i]) > 0 /\ l[i][Len(l[i])] \in Plain
         /\ \E d \in Seq(Bytes) : published \o y = d \o FlattenSeq(l)
         /\ FlattenSeq(l) = published \o y => Content = published
  <1> DEFINE a == Append(log, y)
             n == Len(log)
             End(s) == Len(s) > 0 /\ s[Len(s)] \in Plain
  <1>1. /\ log \in Pieces(Bytes) /\ published \in Seq(Bytes) /\ (\A i \in 1 .. n : End(log[i]))
        /\ n \in Nat /\ n = Len(log) /\ End(y)
    BY DEF DeviceInv, DeviceTypes, Ended, Pieces
  <1>2. PICK d \in Seq(Bytes) : published = d \o Content
    BY DEF DeviceInv, Remains
  <1>3. a \in Pieces(Bytes) /\ FlattenSeq(a) = Content \o y /\ Content \in Seq(Bytes)
    BY <1>1, AppendContent, FlattenType DEF Content
  <1>4. published \o y = d \o (Content \o y)
    BY <1>2, <1>3, BytesConcat, Zenon
  <1>5. Len(a) = n + 1 /\ (\A i \in 1 .. n : a[i] = log[i]) /\ a[n + 1] = y
    BY <1>1 DEF Pieces
  <1> HIDE DEF End, a, n
  <1>6. \A i \in 1 .. n + 1 : End(a[i])
    <2> SUFFICES ASSUME NEW i \in 1 .. n + 1 PROVE End(a[i])
      OBVIOUS
    <2>1. CASE i = n + 1
      BY <1>1, <1>5, <2>1
    <2>2. CASE i # n + 1
      <3>1. i \in 1 .. n
        BY <1>1, <2>2
      <3> QED
        BY <1>1, <1>5, <3>1
    <2> QED
      BY <2>1, <2>2
  <1>7. CASE n < Bound
    <2>1. l = a
      BY <1>7 DEF a, n
    <2>2. \A i \in 1 .. Len(l) : End(l[i])
      BY <1>5, <1>6, <2>1
    <2>3. published \o y = d \o FlattenSeq(l)
      BY <1>3, <1>4, <2>1
    <2>4. ASSUME FlattenSeq(l) = published \o y PROVE Content = published
      <3>1. Content \o y = published \o y
        BY <1>3, <2>1, <2>4
      <3>2. Content \in Seq(Bytes) /\ published \in Seq(Bytes)
        BY <1>1, <1>3
      <3> QED
        BY <3>1, <3>2, ConcatCancel
    <2> QED
      BY <1>3, <2>1, <2>2, <2>3, <2>4 DEF End
  <1>8. CASE ~(n < Bound)
    <2> DEFINE h == a[1]
               f == FlattenSeq(l)
    <2>1. l = Tail(a)
      BY <1>8 DEF a, n
    <2>2. n > 0 /\ n + 1 > 0 /\ 1 \in 1 .. n + 1
      <3>1. Bound \in Nat \ {0}
        BY DeviceAssumption
      <3> QED
        BY <1>1, <1>8, <3>1
    <2>3. Len(a) > 0
      BY <1>5, <2>2
    <2>4. /\ l \in Pieces(Bytes) /\ Len(l) = Len(a) - 1 /\ (\A i \in 1 .. Len(a) - 1 : l[i] = a[i + 1])
          /\ h \in Seq(Bytes) /\ FlattenSeq(a) = h \o f
      BY <1>3, <2>1, <2>3, TailContent
    <2>5. Len(l) = n /\ \A i \in 1 .. n : l[i] = a[i + 1]
      <3>1. Len(a) - 1 = n
        BY <1>1, <1>5
      <3> QED
        BY <2>4, <3>1
    <2>6. \A i \in 1 .. Len(l) : End(l[i])
      <3>1. \A i \in 1 .. n : i + 1 \in 1 .. n + 1
        BY <1>1
      <3> QED
        BY <1>6, <2>5, <3>1
    <2>7. f \in Seq(Bytes) /\ Len(h) > 0
      BY <1>6, <2>2, <2>4, FlattenType DEF End
    <2> HIDE DEF h, f
    <2>8. published \o y = (d \o h) \o f /\ d \o h \in Seq(Bytes)
      <3>1. published \o y = d \o (h \o f)
        BY <1>3, <1>4, <2>4
      <3>2. (d \o h) \o f = d \o (h \o f)
        BY <2>4, <2>7, BytesConcat, Zenon
      <3> QED
        BY <2>4, <3>1, <3>2
    <2>9. f # published \o y
      <3> DEFINE g == d \o h
                 w == g \o f
      <3>1. Len(g) = Len(d) + Len(h) /\ g \in Seq(Bytes)
        BY <2>4
      <3> HIDE DEF g
      <3>2. Len(w) = Len(g) + Len(f)
        BY <2>7, <3>1, BytesConcat, Zenon
      <3>3. Len(d) \in Nat /\ Len(h) \in Nat /\ Len(f) \in Nat
        BY <2>4, <2>7
      <3> HIDE DEF w
      <3>4. Len(w) # Len(f)
        BY <2>7, <3>1, <3>2, <3>3
      <3>5. w # f
        BY <3>4
      <3> QED
        BY <2>8, <3>5 DEF w, g
    <2> QED
      BY <2>4, <2>6, <2>8, <2>9 DEF End, f
  <1> QED
    BY <1>7, <1>8

(* What a worker writes. *)
LEMMA ChunkIs ==
  ASSUME DeviceInv, NEW c \in Conn, at[c] \in Writing
  PROVE  /\ buffer[c] \in Seq(Bytes) /\ Len(buffer[c]) > 0
         /\ HasNewline(buffer[c]) => buffer[c][Len(buffer[c])] \in Plain
         /\ \A d \in Conn \ {c} : Own(d, buffer[c]) = << >>
  <1>1. ChunkOK(c) /\ data[c] \in Nat /\ data[c] <= pieces[c] /\ pieces[c] <= MaxPieces /\ pieces[c] \in Nat
    BY DEF DeviceInv, DeviceTypes
  <1>2. CASE IsCommand(text[c])
    <2>1. buffer[c] \in EchoChunk
      BY <1>1, <1>2 DEF ChunkOK, Writing
    <2> QED
      BY <2>1, PlainChunkIs
  <1>3. CASE ~IsCommand(text[c])
    <2>1. data[c] > 0 /\ buffer[c] \in DataChunk(c, data[c])
      BY <1>1, <1>3 DEF ChunkOK, Writing
    <2>2. data[c] \in 1 .. MaxPieces
      BY <1>1, <2>1, DeviceAssumption
    <2> QED
      BY <2>1, <2>2, DataChunkIs
  <1> QED
    BY <1>2, <1>3


(* A write returns: the device has what the worker received. *)
LEMMA WriteStep ==
  ASSUME DeviceInv, NEW c \in Conn, WriteReturn(c)
  PROVE  DeviceInv'
  <1> DEFINE b == buffer[c]
  <1>1. /\ at[c] = "writing" /\ Device!Take(b) /\ UNCHANGED <<text, buffer, seek, pieces, data>>
        /\ torn' \subseteq torn /\ \A d \in Conn \ {c} : d \in torn => d \in torn'
    BY DEF WriteReturn
  <1>2. /\ DeviceTypes /\ at \in [Conn -> Labels] /\ off \in [Conn -> Nat] /\ reply \in [Conn -> Seq(Bytes)]
        /\ pending \in Seq(Bytes) /\ log \in Pieces(Bytes) /\ published \in Seq(Bytes)
    BY DEF DeviceInv, DeviceTypes
  <1>3. \A d \in Conn : ChunkOK(d) /\ WholeOK(d) /\ ReadOK(d) /\ AnswerOK(d)
    BY DEF DeviceInv
  <1>4. /\ b \in Seq(Bytes) /\ Len(b) > 0 /\ (HasNewline(b) => b[Len(b)] \in Plain)
        /\ \A d \in Conn \ {c} : Own(d, b) = << >>
    BY <1>1, ChunkIs DEF Writing
  <1>5. /\ HasNewline(b) => /\ at' = [at EXCEPT ![c] = "read"]
                            /\ off' = [off EXCEPT ![c] = 0] /\ reply' = [reply EXCEPT ![c] = << >>]
                            /\ published' = published \o pending \o b
        /\ ~HasNewline(b) => at' = [at EXCEPT ![c] = "recv"] /\ UNCHANGED <<off, reply, published>>
    BY DEF WriteReturn
  <1>6. Waiting(c) = b
    BY <1>1 DEF Waiting, Writing
  <1> DEFINE y == pending \o b
             l == IF Len(log) < Bound THEN Append(log, y) ELSE Tail(Append(log, y))
  <1>7. /\ HasNewline(b) => pending' = << >> /\ log' = l
        /\ ~HasNewline(b) => pending' = y /\ log' = log
    BY <1>1 DEF Device!Take, Device!Kept, HasNewline
  <1> HIDE DEF b
  <1>8. /\ y \in Seq(Bytes) /\ Len(y) = Len(pending) + Len(b)
        /\ published \o pending \in Seq(Bytes) /\ (published \o pending) \o b = published \o y
    BY <1>2, <1>4, BytesConcat, Zenon
  <1>9. Len(y) > 0 /\ (HasNewline(b) => y[Len(y)] \in Plain)
    <2>1. Len(pending) \in Nat /\ Len(b) \in Nat
      BY <1>2, <1>4
    <2> DEFINE k == Len(y)
    <2>2. k > 0
      <3> HIDE DEF y
      <3> QED
        BY <1>4, <1>8, <2>1
    <2>3. ASSUME HasNewline(b) PROVE EndsPlain(y)
      <3>1. EndsPlain(b)
        BY <1>4, <2>3 DEF EndsPlain
      <3> QED
        BY <1>2, <1>4, <3>1, EndsConcat
    <2> QED
      BY <2>2, <2>3 DEF EndsPlain
  <1> HIDE DEF y
  <1>10. published' \o pending' = (published \o pending) \o b
         /\ published' \in Seq(Bytes) /\ pending' \in Seq(Bytes)
    <2>1. CASE HasNewline(b)
      <3> DEFINE w == (published \o pending) \o b
      <3>1. w \in Seq(Bytes)
        BY <1>4, <1>8, BytesConcat, Zenon
      <3>2. published' = w /\ pending' = << >>
        BY <1>5, <1>7, <2>1
      <3> HIDE DEF w
      <3>3. w \o << >> = w /\ << >> \in Seq(Bytes)
        BY <3>1
      <3>4. published' \o pending' = w
        BY <3>2, <3>3
      <3> QED
        BY <3>1, <3>2, <3>3, <3>4 DEF w
    <2>2. CASE ~HasNewline(b)
      BY <1>2, <1>5, <1>7, <1>8, <2>2
    <2> QED
      BY <2>1, <2>2
  <1>11. \A d \in Conn : Own(d, published' \o pending') = Own(d, published \o pending) \o Own(d, b)
    <2> DEFINE u == published \o pending
    <2>1. u \in Seq(Bytes) /\ published' \o pending' = u \o b
      BY <1>8, <1>10
    <2> HIDE DEF u
    <2>2. \A d : Own(d, u \o b) = Own(d, u) \o Own(d, b)
      BY <1>4, <2>1, BytesConcat, Zenon
    <2> QED
      BY <2>1, <2>2 DEF u
  <1>12. HasNewline(b) =>
           /\ l \in Pieces(Bytes)
           /\ \A i \in 1 .. Len(l) : Len(l[i]) > 0 /\ l[i][Len(l[i])] \in Plain
           /\ \E d \in Seq(Bytes) : published \o y = d \o FlattenSeq(l)
           /\ FlattenSeq(l) = published \o y => Content = published
    BY <1>8, <1>9, NewCommand
  <1> HIDE DEF l
  <1>13. Ended' /\ Remains' /\ log' \in Pieces(Bytes)
    <2>1. CASE HasNewline(b)
      <3>1. log' = l /\ Content' = FlattenSeq(l) /\ published' = published \o y
        BY <1>5, <1>7, <1>8, <2>1 DEF Content
      <3>2. Ended'
        BY <1>12, <2>1, <3>1 DEF Ended
      <3>3. Remains'
        BY <1>12, <2>1, <3>1 DEF Remains
      <3> QED
        BY <1>12, <2>1, <3>1, <3>2, <3>3
    <2>2. CASE ~HasNewline(b)
      <3>1. log' = log /\ published' = published /\ Content' = Content
        BY <1>5, <1>7, <2>2 DEF Content
      <3> QED
        BY <1>2, <3>1 DEF DeviceInv, Ended, Remains
    <2> QED
      BY <2>1, <2>2
  <1>14. /\ at' \in [Conn -> Labels] /\ (\A d \in Conn \ {c} : at'[d] = at[d])
         /\ HasNewline(b) => at'[c] = "read"
         /\ ~HasNewline(b) => at'[c] = "recv"
    BY <1>2, <1>5 DEF Labels
  <1>15. /\ off' \in [Conn -> Nat] /\ (\A d \in Conn \ {c} : off'[d] = off[d])
         /\ HasNewline(b) => off'[c] = 0
    <2>1. CASE HasNewline(b)
      BY <1>2, <1>5, <2>1
    <2>2. CASE ~HasNewline(b)
      BY <1>2, <1>5, <2>2
    <2> QED
      BY <2>1, <2>2
  <1>16. /\ reply' \in [Conn -> Seq(Bytes)] /\ (\A d \in Conn \ {c} : reply'[d] = reply[d])
         /\ HasNewline(b) => reply'[c] = << >>
         /\ ~HasNewline(b) => reply'[c] = reply[c]
    <2> DEFINE Z == Seq(Bytes)
    <2>1. << >> \in Z /\ reply \in [Conn -> Z]
      BY <1>2
    <2> HIDE DEF Z
    <2>2. /\ reply' \in [Conn -> Z] /\ (\A d \in Conn \ {c} : reply'[d] = reply[d])
          /\ HasNewline(b) => reply'[c] = << >>
          /\ ~HasNewline(b) => reply'[c] = reply[c]
      BY <1>5, <2>1
    <2> QED
      BY <2>2 DEF Z
  <1>17. DeviceTypes'
    BY <1>1, <1>2, <1>10, <1>13, <1>14, <1>15, <1>16 DEF DeviceTypes
  <1>18. \A d \in Conn \ {c} : Same(d)
    BY <1>1, <1>14, <1>15, <1>16 DEF Same
  <1>19. ASSUME Content' = published', NEW d \in Conn, IsPrefix(reply[d], published) \/ Content # published
         PROVE  IsPrefix(reply[d], published') /\ Content = published
    <2>1. CASE HasNewline(b)
      <3>1. Content' = FlattenSeq(l) /\ published' = published \o y
        BY <1>5, <1>7, <1>8, <2>1 DEF Content
      <3>2. Content = published
        BY <1>12, <1>19, <2>1, <3>1
      <3>3. reply[d] \in Seq(Bytes) /\ IsPrefix(reply[d], published)
        BY <1>2, <1>19, <3>2
      <3>4. IsPrefix(reply[d], published \o y)
        BY <1>2, <1>8, <3>3, PrefixExtends
      <3> QED
        BY <3>1, <3>2, <3>4
    <2>2. CASE ~HasNewline(b)
      <3>1. Content' = Content /\ published' = published
        BY <1>5, <1>7, <2>2 DEF Content
      <3> QED
        BY <1>19, <3>1
    <2> QED
      BY <2>1, <2>2
  <1>20. ASSUME NEW d \in Conn \ {c} PROVE Held(d)'
    <2>1. Same(d) /\ ChunkOK(d) /\ WholeOK(d) /\ ReadOK(d) /\ AnswerOK(d)
      BY <1>3, <1>18
    <2>2. ChunkOK(d)'
      BY <2>1 DEF Same, ChunkOK
    <2>3. WholeOK(d)'
      <3> DEFINE o == Own(d, published \o pending)
      <3>1. o \in Seq(Bytes)
        BY <1>8, OwnType
      <3>2. Own(d, published' \o pending') = o \o << >>
        BY <1>4, <1>11
      <3> HIDE DEF o
      <3>3. o \o << >> = o
        BY <3>1
      <3>4. Waiting(d)' = Waiting(d) /\ data'[d] = data[d]
        BY <2>1 DEF Same, Waiting
      <3> QED
        BY <2>1, <3>2, <3>3, <3>4 DEF WholeOK, o
    <2>4. ReadOK(d)'
      <3>1. at'[d] = at[d] /\ off'[d] = off[d] /\ reply'[d] = reply[d]
        BY <2>1 DEF Same
      <3>2. CASE HasNewline(b)
        <4>1. Own(d, pending') = << >>
          BY <1>7, <3>2, OwnSmall
        <4> QED
          BY <2>1, <3>1, <4>1 DEF ReadOK
      <3>3. CASE ~HasNewline(b)
        <4>1. Own(d, y) = Own(d, pending) \o Own(d, b)
          BY <1>2, <1>4, BytesConcat, Zenon DEF y
        <4>2. pending' = y /\ Own(d, b) = << >>
          BY <1>4, <1>7, <3>3
        <4>3. << >> \o << >> = << >>
          OBVIOUS
        <4> QED
          BY <2>1, <3>1, <4>1, <4>2, <4>3 DEF ReadOK
      <3> QED
        BY <3>2, <3>3
    <2>5. AnswerOK(d)'
      <3>1. /\ at'[d] = at[d] /\ buffer'[d] = buffer[d] /\ reply'[d] = reply[d] /\ data'[d] = data[d]
            /\ d \in torn => d \in torn'
        BY <2>1 DEF Same
      <3>2. IsPrefix(reply[d], published) \/ Content # published
        BY <2>1 DEF AnswerOK
      <3>3. Content' = published' => IsPrefix(reply[d], published') /\ Content = published
        BY <1>19, <3>2
      <3> QED
        BY <2>1, <3>1, <3>3 DEF AnswerOK
    <2> QED
      BY <2>2, <2>3, <2>4, <2>5 DEF Held
  <1>21. Held(c)'
    <2>1. ChunkOK(c)'
      BY <1>14 DEF ChunkOK, Writing
    <2>2. WholeOK(c)'
      <3> DEFINE o == Own(c, published \o pending) \o Own(c, b)
      <3>1. o \in Seq(Bytes)
        <4>1. Own(c, published \o pending) \in Seq(Bytes) /\ Own(c, b) \in Seq(Bytes)
          BY <1>4, <1>8, OwnType
        <4> QED
          BY <4>1, BytesConcat, Zenon
      <3>2. Own(c, published' \o pending') = o
        BY <1>11
      <3>3. o = Numbered(c, data[c])
        BY <1>3, <1>6 DEF WholeOK
      <3> HIDE DEF o
      <3>4. Waiting(c)' = << >> /\ Own(c, << >>) = << >> /\ data'[c] = data[c]
        BY <1>1, <1>14, OwnSmall DEF Waiting, Writing
      <3>5. o \o << >> = o
        BY <3>1
      <3> QED
        BY <3>2, <3>3, <3>4, <3>5 DEF WholeOK
    <2>3. ReadOK(c)'
      <3> SUFFICES ASSUME HasNewline(b) PROVE ReadOK(c)'
        BY <1>14 DEF ReadOK
      <3>1. Own(c, pending') = << >> /\ reply'[c] = << >> /\ off'[c] = 0
        BY <1>7, <1>15, <1>16, OwnSmall
      <3>2. Len(<< >>) = 0
        OBVIOUS
      <3> QED
        BY <3>1, <3>2 DEF ReadOK
    <2>4. AnswerOK(c)'
      <3>1. CASE HasNewline(b)
        <4>1. reply'[c] = << >> /\ at'[c] = "read"
          BY <1>14, <1>16, <3>1
        <4>2. IsPrefix(<< >>, published')
          <5> DEFINE e == << >>
          <5>1. e \in Seq(Bytes) /\ Len(e) = 0
            OBVIOUS
          <5> DEFINE p == published'
          <5>2. p \in Seq(Bytes) /\ Len(p) \in Nat
            BY <1>10
          <5> HIDE DEF e, p
          <5>3. Len(e) <= Len(p) /\ \A i \in 1 .. Len(e) : e[i] = p[i]
            BY <5>1, <5>2
          <5>4. IsPrefix(e, p)
            BY <5>1, <5>2, <5>3, PrefixIs
          <5> QED
            BY <5>4 DEF e, p
        <4> QED
          BY <4>1, <4>2 DEF AnswerOK
      <3>2. CASE ~HasNewline(b)
        <4>1. Content' = Content /\ published' = published /\ reply'[c] = reply[c] /\ buffer'[c] = b
          BY <1>1, <1>5, <1>7, <1>16, <3>2 DEF Content, b
        <4> QED
          BY <1>3, <3>2, <4>1 DEF AnswerOK
      <3> QED
        BY <3>1, <3>2
    <2> QED
      BY <2>1, <2>2, <2>3, <2>4 DEF Held
  <1>22. \A d \in Conn : Held(d)'
    BY <1>20, <1>21
  <1> QED
    BY <1>13, <1>17, <1>22 DEF DeviceInv, Held


-----------------------------------------------------------------------------
(* The invariant, and what follows from it. *)

(* It holds at the start. *)
LEMMA DeviceStarts == Init => DeviceInv
  <1> SUFFICES ASSUME Init PROVE DeviceInv
    OBVIOUS
  <1>1. /\ pending = << >> /\ log = << >> /\ published = << >>
        /\ at = [c \in Conn |-> "recv"] /\ text = [c \in Conn |-> NoText]
        /\ buffer = [c \in Conn |-> << >>] /\ seek = [c \in Conn |-> NoSeek]
        /\ off = [c \in Conn |-> 0] /\ reply = [c \in Conn |-> << >>]
        /\ pieces = [c \in Conn |-> 0] /\ data = [c \in Conn |-> 0] /\ torn = {}
    BY DEF Init, Device!Init
  <1> DEFINE e == << >>
             R == [write_cmd : Nat, write_cmd_offset : Nat]
             Z == Seq(Bytes)
  <1>2. e \in Z /\ e \in Pieces(Bytes) /\ Len(e) = 0 /\ e \o e = e
    BY DEF Pieces
  <1>3. NoSeek \in R
    BY DEF NoSeek
  <1>4. Content = e
    BY <1>1, FlattenSmall DEF Content, FlattenSeq
  <1>5. \A c \in Conn : Own(c, e) = e
    BY OwnSmall
  <1>6. MaxPieces \in Nat
    BY DeviceAssumption
  <1>7. /\ pending = e /\ log = e /\ published = e
        /\ buffer = [c \in Conn |-> e] /\ reply = [c \in Conn |-> e]
    BY <1>1
  <1>8. \A c \in Conn : Numbered(c, 0) = e
    BY DEF Numbered
  <1> HIDE DEF e
  <1>9. IsPrefix(e, e)
    BY <1>2 DEF IsPrefix
  <1> HIDE DEF R, Z
  <1>10. DeviceTypes
    <2>1. buffer \in [Conn -> Z] /\ reply \in [Conn -> Z] /\ seek \in [Conn -> R]
      BY <1>1, <1>2, <1>3, <1>7
    <2>2. at \in [Conn -> Labels] /\ text \in [Conn -> Message \cup {NoText}]
      BY <1>1 DEF Labels
    <2>3. /\ off \in [Conn -> Nat] /\ pieces \in [Conn -> Nat] /\ data \in [Conn -> Nat]
          /\ \A c \in Conn : data[c] <= pieces[c] /\ pieces[c] <= MaxPieces
      BY <1>1, <1>6
    <2> QED
      BY <1>1, <1>2, <1>7, <2>1, <2>2, <2>3 DEF DeviceTypes, Z, R
  <1>11. Ended
    BY <1>2, <1>7 DEF Ended
  <1>12. Remains
    BY <1>2, <1>4, <1>7 DEF Remains, Z
  <1>13. ASSUME NEW c \in Conn PROVE Held(c)
    <2>1. at[c] = "recv" /\ buffer[c] = e /\ reply[c] = e /\ data[c] = 0 /\ Waiting(c) = e
      BY <1>1, <1>7 DEF Waiting, Writing, e
    <2>2. ChunkOK(c)
      BY <2>1 DEF ChunkOK, Writing
    <2>3. WholeOK(c)
      BY <1>2, <1>5, <1>7, <1>8, <2>1 DEF WholeOK
    <2>4. ReadOK(c)
      BY <2>1 DEF ReadOK
    <2>5. AnswerOK(c)
      <3>1. ~HasNewline(e)
        BY <1>2 DEF HasNewline
      <3> QED
        BY <1>7, <1>9, <2>1, <3>1 DEF AnswerOK
    <2> QED
      BY <2>2, <2>3, <2>4, <2>5 DEF Held
  <1> QED
    BY <1>10, <1>11, <1>12, <1>13 DEF DeviceInv, Held

(* It always holds. *)
LEMMA DeviceInvariant == Spec => []DeviceInv
  <1>1. DeviceInv /\ [Next]_vars => DeviceInv'
    <2> SUFFICES ASSUME DeviceInv, [Next]_vars PROVE DeviceInv'
      OBVIOUS
    <2>1. CASE UNCHANGED vars
      <3>1. /\ UNCHANGED <<pending, log, published>>
            /\ UNCHANGED <<at, text, buffer, seek, off, reply, torn, pieces, data>>
        BY <2>1 DEF vars, device
      <3> QED
        BY <3>1 DEF DeviceInv, DeviceTypes, Ended, Remains, ChunkOK, WholeOK, ReadOK, AnswerOK, Waiting, Content
    <2>2. ASSUME NEW c \in Conn, NEW m \in Message, recv(c, m) PROVE DeviceInv'
      BY <2>2, RecvStep
    <2>3. ASSUME NEW c \in Conn, NEW m \in Message, recv_seek(c, m) PROVE DeviceInv'
      BY <2>3, RecvSeekStep
    <2>4. ASSUME NEW c \in Conn, ioctl(c) PROVE DeviceInv'
      BY <2>4, IoctlStep
    <2>5. ASSUME NEW c \in Conn, dump_buffer_to_file(c) PROVE DeviceInv'
      BY <2>5, CallStep, WriteStep DEF dump_buffer_to_file
    <2>6. ASSUME NEW c \in Conn, dump_file_to_socket(c) PROVE DeviceInv'
      BY <2>6, CallStep, ReadStep, TornStep DEF dump_file_to_socket
    <2>7. ASSUME NEW c \in Conn, Hangup(c) PROVE DeviceInv'
      BY <2>7, HangupStep
    <2> QED
      BY <2>1, <2>2, <2>3, <2>4, <2>5, <2>6, <2>7 DEF Next
  <1> QED
    BY <1>1, DeviceStarts, PTL DEF Spec

(* Though the server of this build holds no lock, no piece of a client is  *)
(* lost, doubled or moved before an earlier one on its way to the device,  *)
(* however the clients' pieces mix in one command, and the device keeps    *)
(* the latest of it.                                                       *)
THEOREM DevicePiecesAreKept == Spec => []PiecesAreKept
  <1>1. DeviceInv => PiecesAreKept
    <2> SUFFICES ASSUME DeviceInv PROVE PiecesAreKept
      OBVIOUS
    <2>1. \A c \in Conn : Own(c, published \o pending) \o Own(c, Waiting(c)) = Numbered(c, data[c])
      BY DEF DeviceInv, WholeOK
    <2>2. IsSuffix(Content, published)
      <3>1. Content \in Seq(Bytes)
        BY FlattenType DEF DeviceInv, DeviceTypes, Content
      <3>2. PICK d \in Seq(Bytes) : published = d \o Content
        BY DEF DeviceInv, Remains
      <3>3. IsSuffix(Content, d \o Content)
        BY <3>1, SuffixIs
      <3> QED
        BY <3>2, <3>3
    <2> QED
      BY <2>1, <2>2, Zenon DEF PiecesAreKept, Waiting, Writing, Numbered
  <1> QED
    BY <1>1, DeviceInvariant, PTL

(* While the device has had no more commands than it keeps, what a client  *)
(* is sent back is all there was, from the first command on, and holds     *)
(* what it answers, although other clients write between the reads; unless *)
(* one of the reads ran beside a write that ended a command.  It assumes   *)
(* of the device what DriverRefinesDevice and DriverQuietReadIsExact show. *)
THEOREM DeviceAnswerIsWhole == Spec => []AnswerIsWhole
  <1>1. DeviceInv => AnswerIsWhole
    BY DEF DeviceInv, AnswerOK, AnswerIsWhole, Answered, Numbered
  <1> QED
    BY <1>1, DeviceInvariant, PTL

(* What a worker asks the device for is what its client's text says, and a *)
(* well-formed seek command gets written to the device only when the       *)
(* answer to it is a single byte; whatever memory never written is read    *)
(* as.                                                                     *)
THEOREM DeviceSeeksAreOwn == Spec => []SeeksAreOwn
  <1>1. DeviceInv => SeeksAreOwn
    <2> SUFFICES ASSUME DeviceInv, NEW c \in Conn, WellFormed(text[c])
                 PROVE  /\ at[c] = "ioctl" => seek[c] = Numbers(text[c])
                        /\ at[c] \in {"write", "writing"} => Len(buffer[c]) = 3 /\ buffer[c][2] = SeekText
      BY DEF SeeksAreOwn
    <2>1. text[c] \in Message \cup {NoText} /\ ChunkOK(c)
      BY DEF DeviceInv, DeviceTypes
    <2>2. text[c].rest \in Seq(Nat)
      <3>1. NoText.rest \in Seq(Nat)
        BY DEF NoText
      <3>2. \A m \in Message : m.rest \in Seq(Nat)
        BY DeviceAssumption
      <3> QED
        BY <2>1, <3>1, <3>2
    <2>3. IsCommand(text[c]) /\ EndsLine(text[c]) /\ \A x \in Seeks(text[c]) : x = Numbers(text[c])
      BY <2>2, CommandIsRead
    <2>4. at[c] = "ioctl" => seek[c] = Numbers(text[c])
      BY <2>1, <2>3 DEF ChunkOK, Writing
    <2>5. ASSUME at[c] \in {"write", "writing"} PROVE Len(buffer[c]) = 3 /\ buffer[c][2] = SeekText
      <3>1. PICK x \in Plain : buffer[c] = <<x, SeekText, Newline>>
        BY <2>1, <2>3, <2>5 DEF ChunkOK, Writing
      <3> QED
        BY <3>1
    <2> QED
      BY <2>4, <2>5
  <1> QED
    BY <1>1, DeviceInvariant, PTL
=============================================================================

-------------------------- MODULE ServerPartsProofs --------------------------
(***************************************************************************)
(* Proofs about the sequential parts of the server: the tail queues, for   *)
(* any number of heads and elements; the receive buffer, for any size and  *)
(* any number of bytes; and the parser of the seek command, for any digits *)
(* and whatever memory never written is read as.                           *)
(***************************************************************************)
EXTENDS MCServerParts, SequenceTheorems, FiniteSetTheorems, TLAPS

-----------------------------------------------------------------------------
(* The tail queues: the invariant, of a memory m and the sequences ls. *)

(* No element is in two places. *)
Apart(ls) ==
  \A h, g \in QHead : \A i \in 1 .. Len(ls[h]), j \in 1 .. Len(ls[g]) :
    ls[h][i] = ls[g][j] => h = g /\ i = j

(* Linked, with one implication for each case. *)
Ends(m, h, s) ==
  /\ Len(s) = 0 => m.first[h] = NULL /\ m.last[h] = h
  /\ Len(s) > 0 => m.first[h] = s[1] /\ m.last[h] = s[Len(s)]

Forward(m, s) ==
  \A i \in 1 .. Len(s) : /\ i = Len(s) => m.next[s[i]] = NULL
                         /\ i < Len(s) => m.next[s[i]] = s[i + 1]

Backward(m, h, s) ==
  \A i \in 1 .. Len(s) : /\ i = 1 => m.prev[s[i]] = h
                         /\ i > 1 => m.prev[s[i]] = s[i - 1]

LinkedAs(m, h, s) == Ends(m, h, s) /\ Forward(m, s) /\ Backward(m, h, s)

ListInv(m, ls) ==
  /\ m \in Queue
  /\ ls \in [QHead -> Seq(Node)]
  /\ Apart(ls)
  /\ \A h \in QHead : LinkedAs(m, h, ls[h])

(* The invariant is what the runs check. *)
LEMMA ListInvIs ==
  List!TypeOK /\ List!ListsAreLinked <=> ListInv(q, lists)
  <1>1. List!TypeOK <=> q \in Queue /\ lists \in [QHead -> Seq(Node)] /\ Apart(lists)
    BY DEF List!TypeOK, List!Queue, List!Pointer, List!Address, Queue, Pointer, Address, Apart
  <1>2. ASSUME NEW h \in QHead, NEW s \in Seq(Node)
        PROVE  List!Linked(h, s) <=> LinkedAs(q, h, s)
    <2>1. Len(s) \in Nat /\ (s = << >> <=> Len(s) = 0)
      OBVIOUS
    <2> DEFINE n == Len(s)
    <2> HIDE DEF n
    <2>2. n \in Nat /\ (s = << >> <=> n = 0)
      BY <2>1 DEF n
    <2>3. List!Linked(h, s) <=>
            /\ q.first[h] = IF n = 0 THEN NULL ELSE s[1]
            /\ q.last[h] = IF n = 0 THEN h ELSE s[n]
            /\ \A i \in 1 .. n : /\ q.next[s[i]] = IF i = n THEN NULL ELSE s[i + 1]
                                 /\ q.prev[s[i]] = IF i = 1 THEN h ELSE s[i - 1]
      BY <2>2 DEF n, List!Linked
    <2>4. LinkedAs(q, h, s) <=>
            /\ n = 0 => q.first[h] = NULL /\ q.last[h] = h
            /\ n > 0 => q.first[h] = s[1] /\ q.last[h] = s[n]
            /\ \A i \in 1 .. n : /\ i = n => q.next[s[i]] = NULL
                                 /\ i < n => q.next[s[i]] = s[i + 1]
                                 /\ i = 1 => q.prev[s[i]] = h
                                 /\ i > 1 => q.prev[s[i]] = s[i - 1]
      BY DEF n, LinkedAs, Ends, Forward, Backward
    <2>5. \A i \in 1 .. n : (i # n <=> i < n) /\ (i # 1 <=> i > 1)
      BY <2>2
    <2>6. n # 0 <=> n > 0
      BY <2>2
    <2> QED
      BY <2>3, <2>4, <2>5, <2>6, Zenon
  <1>3. ASSUME lists \in [QHead -> Seq(Node)]
        PROVE  List!ListsAreLinked <=> \A h \in QHead : LinkedAs(q, h, lists[h])
    BY <1>2, <1>3 DEF List!ListsAreLinked
  <1> QED
    BY <1>1, <1>3 DEF ListInv


-----------------------------------------------------------------------------
(* Inserting: the four macros do the same, each from what it is given. *)

Absent(ls, e) == \A g \in QHead : \A i \in 1 .. Len(ls[g]) : ls[g][i] # e

Positions(s) == 1 .. Len(s) + 1

(* t is s with e as its p-th element. *)
Insertion(s, p, e, t) ==
  /\ Len(t) = Len(s) + 1
  /\ \A i \in 1 .. Len(t) : /\ i < p => t[i] = s[i]
                            /\ i = p => t[i] = e
                            /\ i > p => t[i] = s[i - 1]

(* The address that leads to the p-th element of list h, and that element. *)
Before(h, s, p) == IF p = 1 THEN h ELSE s[p - 1]
Behind(s, p) == IF p = Len(s) + 1 THEN NULL ELSE s[p]

(* In m2 the link at pred leads to e, and e to succ, and back. *)
LinkedIn(m, m2, h, pred, succ, e) ==
  /\ m2 \in Queue
  /\ \A g \in QHead : /\ g = pred => m2.first[g] = e
                      /\ g # pred => m2.first[g] = m.first[g]
                      /\ g = h /\ succ = NULL => m2.last[g] = e
                      /\ ~ (g = h /\ succ = NULL) => m2.last[g] = m.last[g]
  /\ m2.next[e] = succ /\ m2.prev[e] = pred
  /\ \A x \in Node \ {e} : /\ x = pred => m2.next[x] = e
                           /\ x # pred => m2.next[x] = m.next[x]
                           /\ x = succ => m2.prev[x] = e
                           /\ x # succ => m2.prev[x] = m.prev[x]

(* An element linked in at its place in the sequence keeps the invariant. *)
LEMMA LinkedInKeeps ==
  ASSUME NEW m, NEW ls, ListInv(m, ls), NEW h \in QHead, NEW e \in Node,
         Absent(ls, e), NEW p \in Positions(ls[h]), NEW t \in Seq(Node), Insertion(ls[h], p, e, t),
         NEW m2, LinkedIn(m, m2, h, Before(h, ls[h], p), Behind(ls[h], p), e)
  PROVE  ListInv(m2, [ls EXCEPT ![h] = t])
  <1> DEFINE s == ls[h]
             n == Len(s)
             pred == Before(h, s, p)
             succ == Behind(s, p)
             ls2 == [ls EXCEPT ![h] = t]
  <1>1. ls \in [QHead -> Seq(Node)] /\ s \in Seq(Node)
    BY DEF ListInv
  <1>2. n \in Nat /\ p \in 1 .. n + 1 /\ Len(t) = n + 1 /\ \A i \in 1 .. n : s[i] \in Node
    BY <1>1 DEF Insertion, Positions
  <1>3. ls2 \in [QHead -> Seq(Node)] /\ ls2[h] = t /\ \A g \in QHead \ {h} : ls2[g] = ls[g]
    BY <1>1
  <1>4. \A i \in 1 .. n + 1 : /\ i < p => t[i] = s[i]
                              /\ i = p => t[i] = e
                              /\ i > p => t[i] = s[i - 1]
    BY <1>2 DEF Insertion
  <1>5. /\ p = 1 => pred = h
        /\ p > 1 => p - 1 \in 1 .. n /\ pred = s[p - 1]
        /\ p = n + 1 => succ = NULL
        /\ p < n + 1 => p \in 1 .. n /\ succ = s[p]
    BY <1>2 DEF Before, Behind
  <1>6. \A i, j \in 1 .. n : s[i] = s[j] => i = j
    BY DEF ListInv, Apart
  <1>7. \A i \in 1 .. n : s[i] # e /\ s[i] # NULL /\ s[i] \notin QHead
    BY <1>2, QueueAssumption DEF Absent
  <1>8. /\ n = 0 => m.first[h] = NULL /\ m.last[h] = h
        /\ n > 0 => m.first[h] = s[1] /\ m.last[h] = s[n]
        /\ \A i \in 1 .. n : /\ i = n => m.next[s[i]] = NULL
                             /\ i < n => m.next[s[i]] = s[i + 1]
                             /\ i = 1 => m.prev[s[i]] = h
                             /\ i > 1 => m.prev[s[i]] = s[i - 1]
    BY DEF ListInv, LinkedAs, Ends, Forward, Backward
  <1>9. LinkedIn(m, m2, h, pred, succ, e)
    OBVIOUS
  <1>10. \A g \in QHead \ {h} : \A i \in 1 .. Len(ls[g]) :
           ls[g][i] \in Node \ {e} /\ ls[g][i] # pred /\ ls[g][i] # succ
    <2> SUFFICES ASSUME NEW g \in QHead \ {h}, NEW i \in 1 .. Len(ls[g])
                 PROVE  ls[g][i] \in Node \ {e} /\ ls[g][i] # pred /\ ls[g][i] # succ
      OBVIOUS
    <2>1. ls[g] \in Seq(Node) /\ ls[g][i] \in Node \ {e}
      BY <1>1 DEF Absent
    <2>2. \A j \in 1 .. n : ls[g][i] # s[j]
      BY DEF ListInv, Apart
    <2> HIDE DEF s, n, pred, succ
    <2>3. ls[g][i] # pred
      BY <1>2, <1>5, <2>1, <2>2, QueueAssumption
    <2>4. ls[g][i] # succ
      BY <1>2, <1>5, <2>1, <2>2, QueueAssumption
    <2> QED
      BY <2>1, <2>3, <2>4
  <1>11. Apart(ls2)
    <2>1. ASSUME NEW i \in 1 .. n + 1, NEW j \in 1 .. n + 1, t[i] = t[j] PROVE i = j
      <3> HIDE DEF s, n, pred, succ
      <3>1. (i < p => i \in 1 .. n) /\ (i > p => i - 1 \in 1 .. n)
        BY <1>2
      <3>2. (j < p => j \in 1 .. n) /\ (j > p => j - 1 \in 1 .. n)
        BY <1>2
      <3> QED
        BY <1>2, <1>4, <1>6, <1>7, <2>1, <3>1, <3>2
    <2>2. ASSUME NEW g \in QHead \ {h}, NEW i \in 1 .. Len(ls[g]), NEW j \in 1 .. n + 1
          PROVE  ls[g][i] # t[j]
      <3>1. \A k \in 1 .. n : ls[g][i] # s[k]
        BY DEF ListInv, Apart
      <3>2. ls[g][i] # e
        BY DEF Absent
      <3> HIDE DEF s, n, pred, succ
      <3>3. (j < p => j \in 1 .. n) /\ (j > p => j - 1 \in 1 .. n) /\ (j < p \/ j = p \/ j > p)
        BY <1>2
      <3> QED
        BY <1>4, <3>1, <3>2, <3>3
    <2>3. Apart(ls)
      BY DEF ListInv
    <2> SUFFICES ASSUME NEW g \in QHead, NEW k \in QHead,
                        NEW i \in 1 .. Len(ls2[g]), NEW j \in 1 .. Len(ls2[k]), ls2[g][i] = ls2[k][j]
                 PROVE  g = k /\ i = j
      BY DEF Apart
    <2> HIDE DEF s, n, pred, succ, ls2
    <2>4. CASE g = h /\ k = h
      BY <1>2, <1>3, <2>1, <2>4
    <2>5. CASE g = h /\ k # h
      BY <1>2, <1>3, <2>2, <2>5
    <2>6. CASE g # h /\ k = h
      BY <1>2, <1>3, <2>2, <2>6
    <2>7. CASE g # h /\ k # h
      <3>1. ls2[g] = ls[g] /\ ls2[k] = ls[k]
        BY <1>3, <2>7
      <3>2. i \in 1 .. Len(ls[g]) /\ j \in 1 .. Len(ls[k]) /\ ls[g][i] = ls[k][j]
        BY <3>1
      <3> QED
        BY <2>3, <3>2 DEF Apart
    <2> QED
      BY <2>4, <2>5, <2>6, <2>7
  <1>12. ASSUME NEW g \in QHead \ {h} PROVE LinkedAs(m2, g, ls2[g])
    <2>1. LinkedAs(m, g, ls[g]) /\ Len(ls[g]) \in Nat
      BY <1>1 DEF ListInv
    <2>2. g # pred
      <3> HIDE DEF s, n, pred, succ
      <3> QED
        BY <1>2, <1>5, <1>7
    <2>3. m2.first[g] = m.first[g] /\ m2.last[g] = m.last[g]
      BY <1>9, <2>2 DEF LinkedIn
    <2>4. \A i \in 1 .. Len(ls[g]) : /\ m2.next[ls[g][i]] = m.next[ls[g][i]]
                                     /\ m2.prev[ls[g][i]] = m.prev[ls[g][i]]
      BY <1>9, <1>10 DEF LinkedIn
    <2> QED
      BY <1>3, <2>1, <2>3, <2>4 DEF LinkedAs, Ends, Forward, Backward
  <1>13. LinkedAs(m2, h, t)
    <2> HIDE DEF s, n, pred, succ, ls2
    <2>1. m2.first[h] = t[1]
      <3>1. CASE p = 1
        BY <1>2, <1>4, <1>5, <1>9, <3>1 DEF LinkedIn
      <3>2. CASE p > 1
        BY <1>2, <1>4, <1>5, <1>7, <1>8, <1>9, <3>2 DEF LinkedIn
      <3> QED
        BY <1>2, <3>1, <3>2
    <2>2. m2.last[h] = t[n + 1]
      <3>1. CASE p = n + 1
        BY <1>2, <1>4, <1>5, <1>9, <3>1 DEF LinkedIn
      <3>2. CASE p < n + 1
        <4>1. n > 0 /\ n \in 1 .. n /\ succ # NULL /\ t[n + 1] = s[n]
          BY <1>2, <1>4, <1>5, <1>7, <3>2
        <4> QED
          BY <1>8, <1>9, <4>1 DEF LinkedIn
      <3> QED
        BY <1>2, <3>1, <3>2
    <2>3. ASSUME NEW i \in 1 .. n + 1
          PROVE  /\ i = n + 1 => m2.next[t[i]] = NULL
                 /\ i < n + 1 => m2.next[t[i]] = t[i + 1]
                 /\ i = 1 => m2.prev[t[i]] = h
                 /\ i > 1 => m2.prev[t[i]] = t[i - 1]
      <3>1. CASE i = p
        <4>1. t[i] = e /\ m2.next[e] = succ /\ m2.prev[e] = pred
          BY <1>4, <1>9, <3>1 DEF LinkedIn
        <4>2. i < n + 1 => i + 1 \in 1 .. n + 1 /\ i + 1 > p /\ (i + 1) - 1 = i
          BY <1>2, <3>1
        <4>3. i > 1 => i - 1 \in 1 .. n + 1 /\ i - 1 < p
          BY <1>2, <3>1
        <4> QED
          BY <1>4, <1>5, <3>1, <4>1, <4>2, <4>3
      <3>2. CASE i < p
        <4>1. i \in 1 .. n /\ t[i] = s[i] /\ s[i] \in Node \ {e} /\ i < n + 1
          BY <1>2, <1>4, <1>7, <3>2
        <4>2. s[i] # succ
          BY <1>2, <1>5, <1>6, <1>7, <3>2, <4>1
        <4>3. m2.prev[s[i]] = m.prev[s[i]]
          BY <1>9, <4>1, <4>2 DEF LinkedIn
        <4>4. i > 1 => i - 1 \in 1 .. n + 1 /\ t[i - 1] = s[i - 1]
          BY <1>2, <1>4, <3>2
        <4>5. CASE i = p - 1
          <5>1. s[i] = pred /\ t[i + 1] = e
            BY <1>2, <1>4, <1>5, <3>2, <4>5
          <5>2. m2.next[s[i]] = e
            BY <1>9, <4>1, <5>1 DEF LinkedIn
          <5> QED
            BY <1>8, <4>1, <4>3, <4>4, <5>1, <5>2
        <4>6. CASE i < p - 1
          <5>1. i < n /\ t[i + 1] = s[i + 1]
            BY <1>2, <1>4, <4>6
          <5>2. s[i] # pred
            BY <1>2, <1>5, <1>6, <1>7, <4>1, <4>6
          <5>3. m2.next[s[i]] = m.next[s[i]]
            BY <1>9, <4>1, <5>2 DEF LinkedIn
          <5> QED
            BY <1>8, <4>1, <4>3, <4>4, <5>1, <5>3
        <4> QED
          BY <1>2, <3>2, <4>5, <4>6
      <3>3. CASE i > p
        <4> DEFINE j == i - 1
        <4>1. j \in 1 .. n /\ t[i] = s[j] /\ s[j] \in Node \ {e} /\ i > 1 /\ j >= p
          BY <1>2, <1>4, <1>7, <3>3
        <4>2. s[j] # pred
          BY <1>2, <1>5, <1>6, <1>7, <3>3, <4>1
        <4>3. m2.next[s[j]] = m.next[s[j]]
          BY <1>9, <4>1, <4>2 DEF LinkedIn
        <4>4. i < n + 1 => t[i + 1] = s[j + 1] /\ j < n
          <5>1. i < n + 1 => i + 1 \in 1 .. n + 1 /\ i + 1 > p /\ (i + 1) - 1 = j + 1
            BY <1>2, <3>3
          <5> QED
            BY <1>2, <1>4, <5>1
        <4>5. i = n + 1 => j = n
          BY <1>2
        <4>6. m2.prev[s[j]] = t[j]
          <5>1. CASE j = p
            <6>1. s[j] = succ /\ t[j] = e
              BY <1>2, <1>4, <1>5, <4>1, <5>1
            <6> QED
              BY <1>9, <4>1, <6>1 DEF LinkedIn
          <5>2. CASE j > p
            <6>1. s[j] # succ
              BY <1>2, <1>5, <1>6, <1>7, <4>1, <5>2
            <6>2. m2.prev[s[j]] = m.prev[s[j]]
              BY <1>9, <4>1, <6>1 DEF LinkedIn
            <6>3. j > 1 /\ j \in 1 .. n + 1 /\ t[j] = s[j - 1]
              BY <1>2, <1>4, <4>1, <5>2
            <6> QED
              BY <1>8, <4>1, <6>2, <6>3
          <5> QED
            BY <1>2, <4>1, <5>1, <5>2
        <4> QED
          BY <1>2, <1>8, <4>1, <4>3, <4>4, <4>5, <4>6
      <3> QED
        BY <1>2, <3>1, <3>2, <3>3
    <2> DEFINE k == Len(t)
    <2>4. k \in Nat /\ k = n + 1 /\ k > 0 /\ k # 0
      BY <1>2
    <2> HIDE DEF k
    <2>5. m2.last[h] = t[k]
      BY <2>2, <2>4
    <2>6. Ends(m2, h, t)
      BY <2>1, <2>4, <2>5 DEF k, Ends
    <2>7. 1 .. Len(t) = 1 .. n + 1 /\ Len(t) = n + 1
      BY <2>4 DEF k
    <2>8. Forward(m2, t)
      <3> SUFFICES ASSUME NEW i \in 1 .. Len(t)
                   PROVE  /\ i = Len(t) => m2.next[t[i]] = NULL
                          /\ i < Len(t) => m2.next[t[i]] = t[i + 1]
        BY DEF Forward
      <3> QED
        BY <2>3, <2>7
    <2>9. Backward(m2, h, t)
      <3> SUFFICES ASSUME NEW i \in 1 .. Len(t)
                   PROVE  /\ i = 1 => m2.prev[t[i]] = h
                          /\ i > 1 => m2.prev[t[i]] = t[i - 1]
        BY DEF Backward
      <3> QED
        BY <2>3, <2>7
    <2> QED
      BY <2>6, <2>8, <2>9 DEF LinkedAs
  <1>14. m2 \in Queue
    BY <1>9 DEF LinkedIn
  <1> HIDE DEF ls2, s, n, pred, succ
  <1>15. ListInv(m2, ls2)
    BY <1>3, <1>11, <1>12, <1>13, <1>14 DEF ListInv
  <1> QED
    BY <1>15 DEF ls2


-----------------------------------------------------------------------------
(* What an assignment to one link field does to the memory. *)

(* m2 is m but for the given fields. *)
Fields(m2, first, last, next, prev) ==
  /\ m2 \in Queue
  /\ m2.first = first /\ m2.last = last /\ m2.next = next /\ m2.prev = prev

(* A memory of queues is its four fields. *)
LEMMA QueueFields ==
  ASSUME NEW m \in Queue
  PROVE  /\ m.first \in [QHead -> Pointer] /\ m.last \in [QHead -> Address]
         /\ m.next \in [Node -> Pointer] /\ m.prev \in [Node -> Address]
         /\ Fields(m, m.first, m.last, m.next, m.prev)
  BY DEF Queue, Fields

(* An assignment to tqh_first changes that field alone. *)
LEMMA SetFirst ==
  ASSUME NEW m \in Queue, NEW h \in QHead, NEW v \in Pointer
  PROVE  Fields([m EXCEPT !.first[h] = v], [m.first EXCEPT ![h] = v], m.last, m.next, m.prev)
  BY DEF Queue, Fields

(* An assignment to tqh_last changes that field alone. *)
LEMMA SetLast ==
  ASSUME NEW m \in Queue, NEW h \in QHead, NEW v \in Address
  PROVE  Fields([m EXCEPT !.last[h] = v], m.first, [m.last EXCEPT ![h] = v], m.next, m.prev)
  BY DEF Queue, Fields

(* An assignment to tqe_next changes that field alone. *)
LEMMA SetNext ==
  ASSUME NEW m \in Queue, NEW e \in Node, NEW v \in Pointer
  PROVE  Fields([m EXCEPT !.next[e] = v], m.first, m.last, [m.next EXCEPT ![e] = v], m.prev)
  BY DEF Queue, Fields

(* An assignment to tqe_prev changes that field alone. *)
LEMMA SetPrev ==
  ASSUME NEW m \in Queue, NEW e \in Node, NEW v \in Address
  PROVE  Fields([m EXCEPT !.prev[e] = v], m.first, m.last, m.next, [m.prev EXCEPT ![e] = v])
  BY DEF Queue, Fields

(* m2 is m with v in the link at a. *)
Stored(m, m2, a, v) ==
  /\ m2 \in Queue
  /\ m2.last = m.last /\ m2.prev = m.prev
  /\ \A g \in QHead : /\ g = a => m2.first[g] = v
                      /\ g # a => m2.first[g] = m.first[g]
  /\ \A x \in Node : /\ x = a => m2.next[x] = v
                     /\ x # a => m2.next[x] = m.next[x]

(* Store writes the head's or the element's link, as the address says. *)
LEMMA StoreFields ==
  ASSUME NEW m \in Queue, NEW a \in Address, NEW v \in Pointer
  PROVE  Stored(m, List!Store(m, a, v), a, v)
  <1>1. CASE a \in QHead
    <2>1. List!Store(m, a, v) = [m EXCEPT !.first[a] = v]
      BY <1>1 DEF List!Store
    <2> QED
      BY <1>1, <2>1, SetFirst, QueueFields, QueueAssumption DEF Fields, Stored
  <1>2. CASE a \in Node
    <2>1. List!Store(m, a, v) = [m EXCEPT !.next[a] = v]
      BY <1>2, QueueAssumption DEF List!Store
    <2> QED
      BY <1>2, <2>1, SetNext, QueueFields, QueueAssumption DEF Fields, Stored
  <1> QED
    BY <1>1, <1>2 DEF Address

-----------------------------------------------------------------------------
(* Each macro that inserts links the element in between its neighbours. *)

(* TAILQ_INSERT_TAIL links the element in after the last one. *)
LEMMA InsertTailLinks ==
  ASSUME NEW m \in Queue, NEW h \in QHead, NEW e \in Node, m.last[h] # e
  PROVE  LinkedIn(m, List!TAILQ_INSERT_TAIL(m, h, e), h, m.last[h], NULL, e)
  <1> DEFINE m1 == [m EXCEPT !.next[e] = NULL]
             m2 == [m1 EXCEPT !.prev[e] = m.last[h]]
             m3 == List!Store(m2, m.last[h], e)
             m4 == [m3 EXCEPT !.last[h] = e]
  <1>1. m.last[h] \in Address /\ e \in Pointer /\ e \in Address /\ NULL \in Pointer
    BY QueueFields DEF Pointer, Address
  <1>2. Fields(m1, m.first, m.last, [m.next EXCEPT ![e] = NULL], m.prev)
    BY <1>1, SetNext
  <1>3. Fields(m2, m.first, m.last, [m.next EXCEPT ![e] = NULL], [m.prev EXCEPT ![e] = m.last[h]])
    <2> HIDE DEF m1
    <2> QED
      BY <1>1, <1>2, SetPrev DEF Fields
  <1>4. m2 = [m EXCEPT !.next[e] = NULL, !.prev[e] = m.last[h]]
    OBVIOUS
  <1>5. List!TAILQ_INSERT_TAIL(m, h, e) = m4
    BY <1>4 DEF List!TAILQ_INSERT_TAIL
  <1> HIDE DEF m1, m2
  <1>6. /\ m3 \in Queue /\ m3.last = m.last /\ m3.prev = [m.prev EXCEPT ![e] = m.last[h]]
        /\ \A g \in QHead : /\ g = m.last[h] => m3.first[g] = e
                            /\ g # m.last[h] => m3.first[g] = m.first[g]
        /\ \A x \in Node : /\ x = m.last[h] => m3.next[x] = e
                           /\ x # m.last[h] => m3.next[x] = [m.next EXCEPT ![e] = NULL][x]
    <2>1. Stored(m2, m3, m.last[h], e)
      BY <1>1, <1>3, StoreFields DEF Fields
    <2> HIDE DEF m3
    <2> QED
      BY <1>3, <2>1 DEF Fields, Stored
  <1> HIDE DEF m3
  <1>7. Fields(m4, m3.first, [m.last EXCEPT ![h] = e], m3.next, m3.prev)
    BY <1>1, <1>6, SetLast
  <1> HIDE DEF m4
  <1>8. m4 \in Queue /\ m4.first = m3.first /\ m4.next = m3.next /\ m4.prev = m3.prev
        /\ m4.last = [m.last EXCEPT ![h] = e]
    BY <1>7 DEF Fields
  <1>9. LinkedIn(m, m4, h, m.last[h], NULL, e)
    <2>1. \A g \in QHead : /\ g = m.last[h] => m4.first[g] = e
                           /\ g # m.last[h] => m4.first[g] = m.first[g]
                           /\ g = h => m4.last[g] = e
                           /\ g # h => m4.last[g] = m.last[g]
      BY <1>6, <1>8, QueueFields
    <2>2. m4.next[e] = NULL /\ m4.prev[e] = m.last[h]
      BY <1>1, <1>6, <1>8, QueueFields
    <2>3. \A x \in Node \ {e} : /\ x = m.last[h] => m4.next[x] = e
                                /\ x # m.last[h] => m4.next[x] = m.next[x]
                                /\ x # NULL
                                /\ m4.prev[x] = m.prev[x]
      BY <1>6, <1>8, QueueFields, QueueAssumption
    <2> QED
      BY <1>8, <2>1, <2>2, <2>3 DEF LinkedIn
  <1> QED
    BY <1>5, <1>9


(* The link back from an element, or from the head when there is none. *)
Backed(m, m2, h, succ, a) ==
  /\ m2 \in Queue
  /\ m2.first = m.first /\ m2.next = m.next
  /\ \A g \in QHead : /\ g = h /\ succ = NULL => m2.last[g] = a
                      /\ ~ (g = h /\ succ = NULL) => m2.last[g] = m.last[g]
  /\ \A x \in Node : /\ x = succ => m2.prev[x] = a
                     /\ x # succ => m2.prev[x] = m.prev[x]

(* The test for NULL picks the element's tqe_prev or the head's tqh_last. *)
LEMMA BackFields ==
  ASSUME NEW m \in Queue, NEW h \in QHead, NEW succ \in Pointer, NEW a \in Address
  PROVE  Backed(m, IF succ # NULL THEN [m EXCEPT !.prev[succ] = a] ELSE [m EXCEPT !.last[h] = a],
                h, succ, a)
  <1> DEFINE r == IF succ # NULL THEN [m EXCEPT !.prev[succ] = a] ELSE [m EXCEPT !.last[h] = a]
  <1>1. CASE succ = NULL
    <2>1. Fields(r, m.first, [m.last EXCEPT ![h] = a], m.next, m.prev)
      BY <1>1, SetLast
    <2> HIDE DEF r
    <2>2. Backed(m, r, h, succ, a)
      BY <1>1, <2>1, QueueFields, QueueAssumption DEF Fields, Backed
    <2> QED
      BY <2>2 DEF r
  <1>2. CASE succ # NULL
    <2>1. succ \in Node
      BY <1>2 DEF Pointer
    <2>2. Fields(r, m.first, m.last, m.next, [m.prev EXCEPT ![succ] = a])
      BY <1>2, <2>1, SetPrev
    <2> HIDE DEF r
    <2>3. Backed(m, r, h, succ, a)
      BY <1>2, <2>1, <2>2, QueueFields, QueueAssumption DEF Fields, Backed
    <2> QED
      BY <2>3 DEF r
  <1> QED
    BY <1>1, <1>2

(* TAILQ_INSERT_HEAD links the element in between the head and the first   *)
(* one.                                                                    *)
LEMMA InsertHeadLinks ==
  ASSUME NEW m \in Queue, NEW h \in QHead, NEW e \in Node, m.first[h] # e
  PROVE  LinkedIn(m, List!TAILQ_INSERT_HEAD(m, h, e), h, h, m.first[h], e)
  <1> DEFINE old == m.first[h]
             m1 == [m EXCEPT !.next[e] = old]
             m2 == IF old # NULL THEN [m1 EXCEPT !.prev[old] = e] ELSE [m1 EXCEPT !.last[h] = e]
             m3 == [m2 EXCEPT !.first[h] = e]
             m4 == [m3 EXCEPT !.prev[e] = h]
  <1>1. old \in Pointer /\ e \in Pointer /\ e \in Address /\ h \in Address /\ h \notin Node
    BY QueueFields, QueueAssumption DEF Pointer, Address
  <1>2. m4 = [m2 EXCEPT !.first[h] = e, !.prev[e] = h]
    OBVIOUS
  <1>3. List!TAILQ_INSERT_HEAD(m, h, e) = m4
    BY <1>2 DEF List!TAILQ_INSERT_HEAD
  <1> HIDE DEF old
  <1>4. Fields(m1, m.first, m.last, [m.next EXCEPT ![e] = old], m.prev)
    BY <1>1, SetNext
  <1> HIDE DEF m1
  <1>5. Backed(m1, m2, h, old, e)
    BY <1>1, <1>4, BackFields DEF Fields
  <1> HIDE DEF m2
  <1>6. Fields(m3, [m2.first EXCEPT ![h] = e], m2.last, m2.next, m2.prev)
    BY <1>1, <1>5, SetFirst DEF Backed
  <1> HIDE DEF m3
  <1>7. Fields(m4, m3.first, m3.last, m3.next, [m3.prev EXCEPT ![e] = h])
    BY <1>1, <1>6, SetPrev DEF Fields
  <1> HIDE DEF m4
  <1>8. /\ m4 \in Queue /\ m4.first = [m.first EXCEPT ![h] = e] /\ m4.last = m2.last
        /\ m4.next = [m.next EXCEPT ![e] = old] /\ m4.prev = [m2.prev EXCEPT ![e] = h]
    BY <1>4, <1>5, <1>6, <1>7 DEF Fields, Backed
  <1>9. m2.prev \in [Node -> Address] /\ m.first \in [QHead -> Pointer] /\ m.next \in [Node -> Pointer]
    BY <1>5, QueueFields DEF Backed
  <1>10. LinkedIn(m, m4, h, h, old, e)
    BY <1>1, <1>4, <1>5, <1>8, <1>9 DEF LinkedIn, Fields, Backed
  <1> QED
    BY <1>3, <1>10 DEF old

(* TAILQ_INSERT_AFTER links the element in between a listed one and its    *)
(* successor.                                                              *)
LEMMA InsertAfterLinks ==
  ASSUME NEW m \in Queue, NEW h \in QHead, NEW l \in Node, NEW e \in Node, l # e, m.next[l] # e
  PROVE  LinkedIn(m, List!TAILQ_INSERT_AFTER(m, h, l, e), h, l, m.next[l], e)
  <1> DEFINE old == m.next[l]
             m1 == [m EXCEPT !.next[e] = old]
             m2 == IF old # NULL THEN [m1 EXCEPT !.prev[old] = e] ELSE [m1 EXCEPT !.last[h] = e]
             m3 == [m2 EXCEPT !.next[l] = e]
             m4 == [m3 EXCEPT !.prev[e] = l]
  <1>1. /\ old \in Pointer /\ e \in Pointer /\ e \in Address /\ l \in Address
        /\ l \notin QHead
    BY QueueFields, QueueAssumption DEF Pointer, Address
  <1>2. m4 = [m2 EXCEPT !.next[l] = e, !.prev[e] = l]
    OBVIOUS
  <1>3. List!TAILQ_INSERT_AFTER(m, h, l, e) = m4
    BY <1>2 DEF List!TAILQ_INSERT_AFTER
  <1> HIDE DEF old
  <1>4. Fields(m1, m.first, m.last, [m.next EXCEPT ![e] = old], m.prev)
    BY <1>1, SetNext
  <1> HIDE DEF m1
  <1>5. Backed(m1, m2, h, old, e)
    BY <1>1, <1>4, BackFields DEF Fields
  <1> HIDE DEF m2
  <1>6. Fields(m3, m2.first, m2.last, [m2.next EXCEPT ![l] = e], m2.prev)
    BY <1>1, <1>5, SetNext DEF Backed
  <1> HIDE DEF m3
  <1>7. Fields(m4, m3.first, m3.last, m3.next, [m3.prev EXCEPT ![e] = l])
    BY <1>1, <1>6, SetPrev DEF Fields
  <1> HIDE DEF m4
  <1>8. /\ m4 \in Queue /\ m4.first = m.first /\ m4.last = m2.last
        /\ m4.next = [[m.next EXCEPT ![e] = old] EXCEPT ![l] = e]
        /\ m4.prev = [m2.prev EXCEPT ![e] = l]
    BY <1>4, <1>5, <1>6, <1>7 DEF Fields, Backed
  <1>9. m2.prev \in [Node -> Address] /\ m.first \in [QHead -> Pointer] /\ m.next \in [Node -> Pointer]
    BY <1>5, QueueFields DEF Backed
  <1>10. LinkedIn(m, m4, h, l, old, e)
    <2>1. \A x \in Node : /\ x = l => m4.next[x] = e
                          /\ x = e => m4.next[x] = old /\ m4.prev[x] = l
                          /\ x # e => m4.prev[x] = m2.prev[x]
                          /\ x # e /\ x # l => m4.next[x] = m.next[x]
      BY <1>8, <1>9
    <2> QED
      BY <1>1, <1>4, <1>5, <1>8, <2>1 DEF LinkedIn, Fields, Backed
  <1> QED
    BY <1>3, <1>10 DEF old

(* TAILQ_INSERT_BEFORE links the element in between a listed one and what  *)
(* comes before it.                                                        *)
LEMMA InsertBeforeLinks ==
  ASSUME NEW m \in Queue, NEW h \in QHead, NEW l \in Node, NEW e \in Node, l # e, m.prev[l] # e
  PROVE  LinkedIn(m, List!TAILQ_INSERT_BEFORE(m, l, e), h, m.prev[l], l, e)
  <1> DEFINE a  == m.prev[l]
             m1 == [m EXCEPT !.prev[e] = a]
             m2 == [m1 EXCEPT !.next[e] = l]
             m3 == List!Store(m2, a, e)
             m4 == [m3 EXCEPT !.prev[l] = e]
  <1>1. a \in Address /\ e \in Pointer /\ e \in Address /\ l \in Pointer /\ l # NULL /\ a # e
    BY QueueFields, QueueAssumption DEF Pointer, Address
  <1>2. m2 = [m EXCEPT !.prev[e] = a, !.next[e] = l]
    OBVIOUS
  <1>3. List!TAILQ_INSERT_BEFORE(m, l, e) = m4
    BY <1>2 DEF List!TAILQ_INSERT_BEFORE
  <1> HIDE DEF a
  <1>4. Fields(m1, m.first, m.last, m.next, [m.prev EXCEPT ![e] = a])
    BY <1>1, SetPrev
  <1> HIDE DEF m1
  <1>5. Fields(m2, m.first, m.last, [m.next EXCEPT ![e] = l], [m.prev EXCEPT ![e] = a])
    BY <1>1, <1>4, SetNext DEF Fields
  <1> HIDE DEF m2
  <1>6. Stored(m2, m3, a, e)
    BY <1>1, <1>5, StoreFields DEF Fields
  <1> HIDE DEF m3
  <1>7. Fields(m4, m3.first, m3.last, m3.next, [m3.prev EXCEPT ![l] = e])
    BY <1>1, <1>6, SetPrev DEF Stored
  <1> HIDE DEF m4
  <1>8. /\ m4 \in Queue /\ m4.first = m3.first /\ m4.last = m.last
        /\ m4.next = m3.next
        /\ m4.prev = [[m.prev EXCEPT ![e] = a] EXCEPT ![l] = e]
    BY <1>5, <1>6, <1>7 DEF Fields, Stored
  <1>9. m.prev \in [Node -> Address] /\ m.next \in [Node -> Pointer]
    BY QueueFields
  <1>10. LinkedIn(m, m4, h, a, l, e)
    <2>1. \A x \in Node : /\ x = l => m4.prev[x] = e
                          /\ x = e => m4.prev[x] = a
                          /\ x # e /\ x # l => m4.prev[x] = m.prev[x]
      BY <1>8, <1>9
    <2>2. \A x \in Node : /\ x = e => m4.next[x] = l
                          /\ x # e /\ x = a => m4.next[x] = e
                          /\ x # e /\ x # a => m4.next[x] = m.next[x]
      BY <1>1, <1>5, <1>6, <1>8, <1>9 DEF Fields, Stored
    <2> QED
      BY <1>1, <1>5, <1>6, <1>8, <2>1, <2>2 DEF LinkedIn, Fields, Stored
  <1> QED
    BY <1>3, <1>10 DEF a


-----------------------------------------------------------------------------
(* Where the macros find the neighbours of a place in a list. *)

(* The fields of m that macros read, and the neighbours of place p of the  *)
(* list that h heads.                                                      *)
ReadsNeighbours(m, ls, h, p) ==
  /\ p = Len(ls[h]) + 1 => m.last[h] = Before(h, ls[h], p) /\ Behind(ls[h], p) = NULL
  /\ p = 1 => m.first[h] = Behind(ls[h], p) /\ Before(h, ls[h], p) = h
  /\ p # Len(ls[h]) + 1 => m.prev[ls[h][p]] = Before(h, ls[h], p) /\ Behind(ls[h], p) = ls[h][p]
  /\ p # 1 => m.next[ls[h][p - 1]] = Behind(ls[h], p) /\ Before(h, ls[h], p) = ls[h][p - 1]
  /\ \A e \in Node : Absent(ls, e) => Before(h, ls[h], p) # e /\ Behind(ls[h], p) # e

(* Whichever end or element a macro starts from, the fields it reads are   *)
(* the neighbours of the same place.                                       *)
LEMMA Neighbours ==
  ASSUME NEW m, NEW ls, ListInv(m, ls), NEW h \in QHead, NEW p \in Positions(ls[h])
  PROVE  ReadsNeighbours(m, ls, h, p)
  <1> DEFINE s == ls[h]
             n == Len(s)
             pred == Before(h, s, p)
             succ == Behind(s, p)
  <1>1. s \in Seq(Node) /\ LinkedAs(m, h, s)
    BY DEF ListInv
  <1>2. n \in Nat /\ p \in 1 .. n + 1 /\ \A i \in 1 .. n : s[i] \in Node
    BY <1>1 DEF Positions
  <1>3. /\ p = 1 => pred = h
        /\ p # 1 => pred = s[p - 1]
        /\ p = n + 1 => succ = NULL
        /\ p # n + 1 => succ = s[p]
    BY DEF Before, Behind
  <1>4. /\ n = 0 => m.first[h] = NULL /\ m.last[h] = h
        /\ n > 0 => m.first[h] = s[1] /\ m.last[h] = s[n]
    BY <1>1 DEF LinkedAs, Ends
  <1>5. \A i \in 1 .. n : /\ i = n => m.next[s[i]] = NULL
                          /\ i < n => m.next[s[i]] = s[i + 1]
    BY <1>1 DEF LinkedAs, Forward
  <1>6. \A i \in 1 .. n : /\ i = 1 => m.prev[s[i]] = h
                          /\ i > 1 => m.prev[s[i]] = s[i - 1]
    BY <1>1 DEF LinkedAs, Backward
  <1>7. ASSUME NEW e \in Node, Absent(ls, e) PROVE \A i \in 1 .. n : s[i] # e
    BY <1>7 DEF Absent
  <1> SUFFICES /\ p = n + 1 => m.last[h] = pred /\ succ = NULL
               /\ p = 1 => m.first[h] = succ /\ pred = h
               /\ p # n + 1 => m.prev[s[p]] = pred /\ succ = s[p]
               /\ p # 1 => m.next[s[p - 1]] = succ /\ pred = s[p - 1]
               /\ \A e \in Node : Absent(ls, e) => pred # e /\ succ # e
    BY DEF ReadsNeighbours
  <1> HIDE DEF s, n, pred, succ
  <1>8. CASE p = 1 /\ p = n + 1
    BY <1>2, <1>3, <1>4, <1>8, QueueAssumption
  <1>9. CASE p = 1 /\ p # n + 1
    <2>1. n > 0 /\ 1 \in 1 .. n
      BY <1>2, <1>9
    <2> QED
      BY <1>3, <1>4, <1>6, <1>7, <1>9, <2>1, QueueAssumption
  <1>10. CASE p # 1 /\ p = n + 1
    <2>1. n > 0 /\ n \in 1 .. n /\ p - 1 = n
      BY <1>2, <1>10
    <2> QED
      BY <1>3, <1>4, <1>5, <1>7, <1>10, <2>1, QueueAssumption
  <1>11. CASE p # 1 /\ p # n + 1
    <2>1. p \in 1 .. n /\ p > 1 /\ p - 1 \in 1 .. n /\ p - 1 < n /\ (p - 1) + 1 = p
      BY <1>2, <1>11
    <2> QED
      BY <1>3, <1>5, <1>6, <1>7, <1>11, <2>1
  <1> QED
    BY <1>8, <1>9, <1>10, <1>11

(* What the program does to its sequences when it inserts. *)
LEMMA InsertionIs ==
  ASSUME NEW s \in Seq(Node), NEW e \in Node, NEW p \in Positions(s)
  PROVE  List!InsertAt(s, p, e) \in Seq(Node) /\ Insertion(s, p, e, List!InsertAt(s, p, e))
  <1> DEFINE n == Len(s)
             a == SubSeq(s, 1, p - 1)
             b == SubSeq(s, p, n)
             c == a \o <<e>>
  <1>1. n \in Nat /\ p \in 1 .. n + 1 /\ \A i \in 1 .. n : s[i] \in Node
    BY DEF Positions
  <1>2. a \in Seq(Node) /\ Len(a) = p - 1 /\ \A i \in 1 .. p - 1 : a[i] = s[i]
    <2> HIDE DEF n
    <2>1. p - 1 \in Int /\ \A i \in 1 .. p - 1 : s[i] \in Node
      BY <1>1
    <2>2. /\ a \in Seq(Node) /\ Len(a) = IF 1 <= p - 1 THEN (p - 1) - 1 + 1 ELSE 0
          /\ \A i \in 1 .. (p - 1) - 1 + 1 : a[i] = s[1 + i - 1]
      BY <2>1, SubSeqProperties
    <2> HIDE DEF a
    <2> QED
      BY <1>1, <2>2
  <1>3. b \in Seq(Node) /\ Len(b) = n + 1 - p /\ \A i \in 1 .. n + 1 - p : b[i] = s[p + i - 1]
    <2> HIDE DEF n
    <2>1. p \in Int /\ n \in Int /\ \A i \in p .. n : s[i] \in Node
      BY <1>1
    <2>2. /\ b \in Seq(Node) /\ Len(b) = IF p <= n THEN n - p + 1 ELSE 0
          /\ \A i \in 1 .. n - p + 1 : b[i] = s[p + i - 1]
      BY <2>1, SubSeqProperties
    <2> HIDE DEF b
    <2> QED
      BY <1>1, <2>2
  <1>4. <<e>> \in Seq(Node) /\ Len(<<e>>) = 1 /\ <<e>>[1] = e
    OBVIOUS
  <1> HIDE DEF a, b
  <1>5. c \in Seq(Node) /\ Len(c) = p /\ c[p] = e /\ \A i \in 1 .. p - 1 : c[i] = s[i]
    <2>1. /\ c \in Seq(Node) /\ Len(c) = Len(a) + 1
          /\ \A i \in 1 .. Len(a) + 1 : c[i] = IF i <= Len(a) THEN a[i] ELSE <<e>>[i - Len(a)]
      BY <1>2, <1>4, ConcatProperties
    <2> HIDE DEF c, n
    <2>2. Len(c) = p
      BY <1>1, <1>2, <2>1
    <2>3. c[p] = e
      <3>1. p \in 1 .. Len(a) + 1 /\ ~ (p <= Len(a)) /\ p - Len(a) = 1
        BY <1>1, <1>2
      <3>2. c[p] = <<e>>[p - Len(a)]
        BY <2>1, <3>1
      <3> QED
        BY <3>1, <3>2
    <2>4. ASSUME NEW i \in 1 .. p - 1 PROVE c[i] = s[i]
      <3>1. i \in 1 .. Len(a) + 1 /\ i <= Len(a)
        BY <1>1, <1>2
      <3> QED
        BY <1>2, <2>1, <3>1
    <2> QED
      BY <2>1, <2>2, <2>3, <2>4
  <1> HIDE DEF c
  <1> DEFINE t == c \o b
  <1>6. /\ t \in Seq(Node) /\ Len(t) = Len(c) + Len(b)
        /\ \A i \in 1 .. Len(c) + Len(b) : t[i] = IF i <= Len(c) THEN c[i] ELSE b[i - Len(c)]
    BY <1>3, <1>5, ConcatProperties
  <1>7. t = List!InsertAt(s, p, e)
    BY DEF List!InsertAt, a, b, c
  <1> HIDE DEF t, n
  <1>8. Len(t) = n + 1
    BY <1>1, <1>3, <1>5, <1>6
  <1>9. ASSUME NEW i \in 1 .. n + 1
        PROVE  /\ i < p => t[i] = s[i]
               /\ i = p => t[i] = e
               /\ i > p => t[i] = s[i - 1]
    <2>1. /\ i \in 1 .. Len(c) + Len(b) /\ (i < p \/ i = p => i <= Len(c))
          /\ i > p => ~ (i <= Len(c)) /\ i - Len(c) \in 1 .. n + 1 - p /\ p + (i - Len(c)) - 1 = i - 1
      BY <1>1, <1>3, <1>5
    <2>2. i < p => i \in 1 .. p - 1
      BY <1>1
    <2> QED
      BY <1>3, <1>5, <1>6, <2>1, <2>2
  <1>10. Insertion(s, p, e, t)
    BY <1>8, <1>9 DEF Insertion, n
  <1> QED
    BY <1>6, <1>7, <1>10


(* Append inserts at the end. *)
LEMMA AppendIs ==
  ASSUME NEW s \in Seq(Node), NEW e \in Node
  PROVE  Append(s, e) \in Seq(Node) /\ Insertion(s, Len(s) + 1, e, Append(s, e))
  <1> DEFINE n == Len(s)
             t == Append(s, e)
  <1>1. n \in Nat /\ t \in Seq(Node) /\ Len(t) = n + 1 /\ t[n + 1] = e /\ \A i \in 1 .. n : t[i] = s[i]
    OBVIOUS
  <1> HIDE DEF n, t
  <1>2. \A i \in 1 .. n + 1 : /\ i < n + 1 => t[i] = s[i]
                              /\ i = n + 1 => t[i] = e
                              /\ i > n + 1 => t[i] = s[i - 1]
    BY <1>1
  <1>3. Insertion(s, n + 1, e, t)
    BY <1>1, <1>2 DEF Insertion, n
  <1> QED
    BY <1>1, <1>3 DEF n, t

(* Putting an element in front inserts at the first position. *)
LEMMA PrependIs ==
  ASSUME NEW s \in Seq(Node), NEW e \in Node
  PROVE  <<e>> \o s \in Seq(Node) /\ Insertion(s, 1, e, <<e>> \o s)
  <1> DEFINE n == Len(s)
             t == <<e>> \o s
  <1>1. <<e>> \in Seq(Node) /\ Len(<<e>>) = 1 /\ <<e>>[1] = e /\ n \in Nat
    OBVIOUS
  <1>2. /\ t \in Seq(Node) /\ Len(t) = 1 + n
        /\ \A i \in 1 .. 1 + n : t[i] = IF i <= 1 THEN <<e>>[i] ELSE s[i - 1]
    BY <1>1, ConcatProperties
  <1> HIDE DEF n, t
  <1>3. \A i \in 1 .. n + 1 : /\ i < 1 => t[i] = s[i]
                              /\ i = 1 => t[i] = e
                              /\ i > 1 => t[i] = s[i - 1]
    BY <1>1, <1>2
  <1>4. Len(t) = n + 1
    BY <1>1, <1>2
  <1>5. Insertion(s, 1, e, t)
    BY <1>3, <1>4 DEF Insertion, n
  <1> QED
    BY <1>2, <1>5 DEF t

(* An element of a list has its place there, and is no loose one. *)
LEMMA PlaceIs ==
  ASSUME ListInv(q, lists), NEW h \in QHead, NEW l \in List!Listed(h)
  PROVE  /\ List!Place(h, l) \in 1 .. Len(lists[h]) /\ lists[h][List!Place(h, l)] = l
         /\ \A e \in Node : List!Loose(e) => e # l
  <1>1. lists[h] \in Seq(Node)
    BY DEF ListInv
  <1>2. \E i \in 1 .. Len(lists[h]) : lists[h][i] = l
    BY <1>1 DEF List!Listed, List!Range
  <1> QED
    BY <1>2 DEF List!Place, List!Loose

(* A loose element is in no list. *)
LEMMA LooseIs ==
  ASSUME ListInv(q, lists), NEW e \in Node, List!Loose(e)
  PROVE  Absent(lists, e)
  <1>1. ASSUME NEW g \in QHead, NEW i \in 1 .. Len(lists[g]) PROVE lists[g][i] # e
    <2>1. lists[g] \in Seq(Node)
      BY DEF ListInv
    <2>2. lists[g][i] \in List!Listed(g)
      BY <2>1 DEF List!Listed, List!Range
    <2> QED
      BY <2>2 DEF List!Loose
  <1> QED
    BY <1>1 DEF Absent

(* An insertion at the tail keeps the invariant. *)
LEMMA InsertTailStep ==
  ASSUME ListInv(q, lists), NEW h \in QHead, NEW e \in Node, List!InsertTail(h, e)
  PROVE  ListInv(q', lists')
  <1> DEFINE s == lists[h]
             p == Len(s) + 1
             t == Append(s, e)
  <1>1. q \in Queue /\ s \in Seq(Node) /\ Absent(lists, e) /\ p \in Positions(s) /\ p = Len(s) + 1
    BY LooseIs DEF ListInv, List!InsertTail, Positions
  <1>2. t \in Seq(Node) /\ Insertion(s, p, e, t)
    BY <1>1, AppendIs
  <1>3. lists' = [lists EXCEPT ![h] = t]
    BY DEF List!InsertTail
  <1> HIDE DEF p, t
  <1>4. q.last[h] = Before(h, s, p) /\ Behind(s, p) = NULL /\ Before(h, s, p) # e
    <2>1. ReadsNeighbours(q, lists, h, p)
      BY <1>1, Neighbours
    <2> QED
      BY <1>1, <2>1 DEF ReadsNeighbours
  <1>5. LinkedIn(q, q', h, Before(h, s, p), Behind(s, p), e)
    BY <1>1, <1>4, InsertTailLinks DEF List!InsertTail
  <1> QED
    BY <1>1, <1>2, <1>3, <1>5, LinkedInKeeps

(* An insertion at the head keeps the invariant. *)
LEMMA InsertHeadStep ==
  ASSUME ListInv(q, lists), NEW h \in QHead, NEW e \in Node, List!InsertHead(h, e)
  PROVE  ListInv(q', lists')
  <1> DEFINE s == lists[h]
             p == 1
             t == <<e>> \o s
  <1>1. q \in Queue /\ s \in Seq(Node) /\ Absent(lists, e) /\ p \in Positions(s) /\ p = 1
    BY LooseIs DEF ListInv, List!InsertHead, Positions
  <1>2. t \in Seq(Node) /\ Insertion(s, p, e, t)
    BY <1>1, PrependIs
  <1>3. lists' = [lists EXCEPT ![h] = t]
    BY DEF List!InsertHead
  <1> HIDE DEF p, t
  <1>4. q.first[h] = Behind(s, p) /\ Before(h, s, p) = h /\ Behind(s, p) # e
    <2>1. ReadsNeighbours(q, lists, h, p)
      BY <1>1, Neighbours
    <2> QED
      BY <1>1, <2>1 DEF ReadsNeighbours
  <1>5. LinkedIn(q, q', h, Before(h, s, p), Behind(s, p), e)
    BY <1>1, <1>4, InsertHeadLinks DEF List!InsertHead
  <1> QED
    BY <1>1, <1>2, <1>3, <1>5, LinkedInKeeps

(* An insertion after a listed element keeps the invariant. *)
LEMMA InsertAfterStep ==
  ASSUME ListInv(q, lists), NEW h \in QHead, NEW l \in Node, NEW e \in Node, List!InsertAfter(h, l, e)
  PROVE  ListInv(q', lists')
  <1> DEFINE s == lists[h]
             i == List!Place(h, l)
             p == i + 1
             t == List!InsertAt(s, p, e)
  <1>1. q \in Queue /\ s \in Seq(Node) /\ Absent(lists, e) /\ l \in List!Listed(h) /\ List!Loose(e)
    BY LooseIs DEF ListInv, List!InsertAfter
  <1>2. i \in 1 .. Len(s) /\ s[i] = l /\ l # e
    BY <1>1, PlaceIs
  <1>3. p \in Positions(s) /\ p # 1 /\ p - 1 = i
    <2> DEFINE n == Len(s)
    <2>1. n \in Nat /\ i \in 1 .. n
      BY <1>1, <1>2
    <2> HIDE DEF n, i, s
    <2>2. p \in 1 .. n + 1 /\ p # 1 /\ p - 1 = i
      BY <2>1
    <2> QED
      BY <2>2 DEF Positions, n
  <1> HIDE DEF i, p
  <1>4. q.next[l] = Behind(s, p) /\ Before(h, s, p) = l /\ Behind(s, p) # e
    <2>1. ReadsNeighbours(q, lists, h, p)
      BY <1>3, Neighbours
    <2> QED
      BY <1>1, <1>2, <1>3, <2>1 DEF ReadsNeighbours
  <1>5. LinkedIn(q, q', h, Before(h, s, p), Behind(s, p), e)
    BY <1>1, <1>2, <1>4, InsertAfterLinks DEF List!InsertAfter
  <1>6. t \in Seq(Node) /\ Insertion(s, p, e, t)
    BY <1>1, <1>3, InsertionIs
  <1>7. lists' = [lists EXCEPT ![h] = t]
    BY DEF List!InsertAfter, i, p
  <1> HIDE DEF t
  <1> QED
    BY <1>1, <1>3, <1>5, <1>6, <1>7, LinkedInKeeps

(* An insertion before a listed element keeps the invariant. *)
LEMMA InsertBeforeStep ==
  ASSUME ListInv(q, lists), NEW h \in QHead, NEW l \in Node, NEW e \in Node, List!InsertBefore(h, l, e)
  PROVE  ListInv(q', lists')
  <1> DEFINE s == lists[h]
             p == List!Place(h, l)
             t == List!InsertAt(s, p, e)
  <1>1. q \in Queue /\ s \in Seq(Node) /\ Absent(lists, e) /\ l \in List!Listed(h) /\ List!Loose(e)
    BY LooseIs DEF ListInv, List!InsertBefore
  <1>2. p \in 1 .. Len(s) /\ s[p] = l /\ l # e
    BY <1>1, PlaceIs
  <1>3. p \in Positions(s) /\ p # Len(s) + 1
    <2> DEFINE n == Len(s)
    <2>1. n \in Nat /\ p \in 1 .. n
      BY <1>1, <1>2
    <2> HIDE DEF n, p, s
    <2>2. p \in 1 .. n + 1 /\ p # n + 1
      BY <2>1
    <2> QED
      BY <2>2 DEF Positions, n
  <1> HIDE DEF p
  <1>4. q.prev[l] = Before(h, s, p) /\ Behind(s, p) = l /\ Before(h, s, p) # e
    <2>1. ReadsNeighbours(q, lists, h, p)
      BY <1>3, Neighbours
    <2> QED
      BY <1>1, <1>2, <1>3, <2>1 DEF ReadsNeighbours
  <1>5. LinkedIn(q, q', h, Before(h, s, p), Behind(s, p), e)
    BY <1>1, <1>2, <1>4, InsertBeforeLinks DEF List!InsertBefore
  <1>6. t \in Seq(Node) /\ Insertion(s, p, e, t)
    BY <1>1, <1>3, InsertionIs
  <1>7. lists' = [lists EXCEPT ![h] = t]
    BY DEF List!InsertBefore, p
  <1> HIDE DEF t
  <1> QED
    BY <1>1, <1>3, <1>5, <1>6, <1>7, LinkedInKeeps


-----------------------------------------------------------------------------
(* Removing. *)

(* t is s without its p-th element. *)
Removal(s, p, t) ==
  /\ Len(t) = Len(s) - 1
  /\ \A i \in 1 .. Len(t) : /\ i < p => t[i] = s[i]
                            /\ i >= p => t[i] = s[i + 1]

(* In m2 the link at pred leads to succ, and back. *)
LinkedPast(m, m2, h, pred, succ) ==
  /\ m2 \in Queue
  /\ \A g \in QHead : /\ g = pred => m2.first[g] = succ
                      /\ g # pred => m2.first[g] = m.first[g]
                      /\ g = h /\ succ = NULL => m2.last[g] = pred
                      /\ ~ (g = h /\ succ = NULL) => m2.last[g] = m.last[g]
  /\ \A x \in Node : /\ x = pred => m2.next[x] = succ
                     /\ x # pred => m2.next[x] = m.next[x]
                     /\ x = succ => m2.prev[x] = pred
                     /\ x # succ => m2.prev[x] = m.prev[x]

(* TAILQ_REMOVE links the neighbours of the element past it. *)
LEMMA RemoveLinks ==
  ASSUME NEW m \in Queue, NEW h \in QHead, NEW e \in Node
  PROVE  LinkedPast(m, List!TAILQ_REMOVE(m, h, e), h, m.prev[e], m.next[e])
  <1> DEFINE after == m.next[e]
             a == m.prev[e]
             m1 == IF after # NULL THEN [m EXCEPT !.prev[after] = a] ELSE [m EXCEPT !.last[h] = a]
             m2 == List!Store(m1, a, after)
  <1>1. List!TAILQ_REMOVE(m, h, e) = m2
    BY DEF List!TAILQ_REMOVE
  <1>2. after \in Pointer /\ a \in Address
    BY QueueFields
  <1> HIDE DEF after, a
  <1>3. Backed(m, m1, h, after, a)
    BY <1>2, BackFields
  <1> HIDE DEF m1
  <1>4. Stored(m1, m2, a, after)
    BY <1>2, <1>3, StoreFields DEF Backed
  <1> HIDE DEF m2
  <1>5. LinkedPast(m, m2, h, a, after)
    BY <1>3, <1>4 DEF Backed, Stored, LinkedPast
  <1> QED
    BY <1>1, <1>5 DEF after, a

(* An element linked past, and out of its sequence, keeps the invariant. *)
LEMMA LinkedPastKeeps ==
  ASSUME NEW m, NEW ls, ListInv(m, ls), NEW h \in QHead, NEW p \in DOMAIN ls[h],
         NEW t \in Seq(Node), Removal(ls[h], p, t),
         NEW m2, LinkedPast(m, m2, h, m.prev[ls[h][p]], m.next[ls[h][p]])
  PROVE  ListInv(m2, [ls EXCEPT ![h] = t])
  <1> DEFINE s == ls[h]
             n == Len(s)
             pred == m.prev[s[p]]
             succ == m.next[s[p]]
             ls2 == [ls EXCEPT ![h] = t]
  <1>1. ls \in [QHead -> Seq(Node)] /\ s \in Seq(Node) /\ LinkedAs(m, h, s)
    BY DEF ListInv
  <1>2. n \in Nat /\ p \in 1 .. n /\ Len(t) = n - 1 /\ \A i \in 1 .. n : s[i] \in Node
    BY <1>1 DEF Removal
  <1>3. ls2 \in [QHead -> Seq(Node)] /\ ls2[h] = t /\ \A g \in QHead \ {h} : ls2[g] = ls[g]
    BY <1>1
  <1>4. \A i \in 1 .. n - 1 : /\ i < p => t[i] = s[i]
                              /\ i >= p => t[i] = s[i + 1]
    BY <1>2 DEF Removal
  <1>5. /\ n = 0 => m.first[h] = NULL /\ m.last[h] = h
        /\ n > 0 => m.first[h] = s[1] /\ m.last[h] = s[n]
    BY <1>1 DEF LinkedAs, Ends
  <1>6. \A i \in 1 .. n : /\ i = n => m.next[s[i]] = NULL
                          /\ i < n => m.next[s[i]] = s[i + 1]
    BY <1>1 DEF LinkedAs, Forward
  <1>7. \A i \in 1 .. n : /\ i = 1 => m.prev[s[i]] = h
                          /\ i > 1 => m.prev[s[i]] = s[i - 1]
    BY <1>1 DEF LinkedAs, Backward
  <1>8. \A i, j \in 1 .. n : s[i] = s[j] => i = j
    BY DEF ListInv, Apart
  <1>9. \A i \in 1 .. n : s[i] # NULL /\ s[i] \notin QHead
    BY <1>2, QueueAssumption
  <1>10. LinkedPast(m, m2, h, pred, succ)
    OBVIOUS
  <1>11. /\ p = 1 => pred = h
         /\ p > 1 => p - 1 \in 1 .. n /\ pred = s[p - 1]
         /\ p = n => succ = NULL
         /\ p < n => p + 1 \in 1 .. n /\ succ = s[p + 1]
    <2> HIDE DEF s, n
    <2> QED
      BY <1>2, <1>6, <1>7
  <1>12. \A g \in QHead \ {h} : \A i \in 1 .. Len(ls[g]) :
           ls[g][i] \in Node /\ ls[g][i] # pred /\ ls[g][i] # succ
    <2> SUFFICES ASSUME NEW g \in QHead \ {h}, NEW i \in 1 .. Len(ls[g])
                 PROVE  ls[g][i] \in Node /\ ls[g][i] # pred /\ ls[g][i] # succ
      OBVIOUS
    <2>1. ls[g] \in Seq(Node) /\ ls[g][i] \in Node
      BY <1>1
    <2>2. \A j \in 1 .. n : ls[g][i] # s[j]
      BY DEF ListInv, Apart
    <2> HIDE DEF s, n, pred, succ
    <2>3. ls[g][i] # pred
      BY <1>2, <1>11, <2>1, <2>2, QueueAssumption
    <2>4. ls[g][i] # succ
      BY <1>2, <1>11, <2>1, <2>2, QueueAssumption
    <2> QED
      BY <2>1, <2>3, <2>4
  <1>13. \A i \in 1 .. n - 1 : \E j \in 1 .. n : t[i] = s[j] /\ (i < p => j = i) /\ (i >= p => j = i + 1)
    <2> SUFFICES ASSUME NEW i \in 1 .. n - 1
                 PROVE  \E j \in 1 .. n : t[i] = s[j] /\ (i < p => j = i) /\ (i >= p => j = i + 1)
      OBVIOUS
    <2> HIDE DEF s, n
    <2>1. i \in 1 .. n /\ i + 1 \in 1 .. n
      BY <1>2
    <2> QED
      BY <1>2, <1>4, <2>1
  <1>14. Apart(ls2)
    <2>1. ASSUME NEW i \in 1 .. n - 1, NEW j \in 1 .. n - 1, t[i] = t[j] PROVE i = j
      <3> HIDE DEF s, n, pred, succ
      <3>1. PICK a \in 1 .. n : t[i] = s[a] /\ (i < p => a = i) /\ (i >= p => a = i + 1)
        BY <1>13
      <3>2. PICK b \in 1 .. n : t[j] = s[b] /\ (j < p => b = j) /\ (j >= p => b = j + 1)
        BY <1>13
      <3>3. a = b
        BY <1>8, <2>1, <3>1, <3>2
      <3> QED
        BY <1>2, <3>1, <3>2, <3>3
    <2>2. ASSUME NEW g \in QHead \ {h}, NEW i \in 1 .. Len(ls[g]), NEW j \in 1 .. n - 1
          PROVE  ls[g][i] # t[j]
      <3>1. \A k \in 1 .. n : ls[g][i] # s[k]
        BY DEF ListInv, Apart
      <3> HIDE DEF s, n, pred, succ
      <3> QED
        BY <1>13, <3>1
    <2>3. Apart(ls)
      BY DEF ListInv
    <2> SUFFICES ASSUME NEW g \in QHead, NEW k \in QHead,
                        NEW i \in 1 .. Len(ls2[g]), NEW j \in 1 .. Len(ls2[k]), ls2[g][i] = ls2[k][j]
                 PROVE  g = k /\ i = j
      BY DEF Apart
    <2> HIDE DEF s, n, pred, succ, ls2
    <2>4. CASE g = h /\ k = h
      BY <1>2, <1>3, <2>1, <2>4
    <2>5. CASE g = h /\ k # h
      BY <1>2, <1>3, <2>2, <2>5
    <2>6. CASE g # h /\ k = h
      BY <1>2, <1>3, <2>2, <2>6
    <2>7. CASE g # h /\ k # h
      <3>1. ls2[g] = ls[g] /\ ls2[k] = ls[k]
        BY <1>3, <2>7
      <3>2. i \in 1 .. Len(ls[g]) /\ j \in 1 .. Len(ls[k]) /\ ls[g][i] = ls[k][j]
        BY <3>1
      <3> QED
        BY <2>3, <3>2 DEF Apart
    <2> QED
      BY <2>4, <2>5, <2>6, <2>7
  <1>15. ASSUME NEW g \in QHead \ {h} PROVE LinkedAs(m2, g, ls2[g])
    <2>1. LinkedAs(m, g, ls[g]) /\ Len(ls[g]) \in Nat
      BY <1>1 DEF ListInv
    <2>2. g # pred
      <3> HIDE DEF s, n, pred, succ
      <3> QED
        BY <1>2, <1>9, <1>11
    <2>3. m2.first[g] = m.first[g] /\ m2.last[g] = m.last[g]
      BY <1>10, <2>2 DEF LinkedPast
    <2>4. \A i \in 1 .. Len(ls[g]) : /\ m2.next[ls[g][i]] = m.next[ls[g][i]]
                                     /\ m2.prev[ls[g][i]] = m.prev[ls[g][i]]
      BY <1>10, <1>12 DEF LinkedPast
    <2> QED
      BY <1>3, <2>1, <2>3, <2>4, SMTT(20) DEF LinkedAs, Ends, Forward, Backward
  <1>16. LinkedAs(m2, h, t)
    <2> HIDE DEF s, n, pred, succ, ls2
    <2>1. n - 1 = 0 => m2.first[h] = NULL /\ m2.last[h] = h
      BY <1>2, <1>10, <1>11 DEF LinkedPast
    <2>2. n - 1 > 0 => m2.first[h] = t[1]
      <3>1. CASE n - 1 > 0 /\ p = 1
        <4>1. t[1] = s[2] /\ succ = s[2]
          BY <1>2, <1>4, <1>11, <3>1
        <4> QED
          BY <1>10, <1>11, <3>1, <4>1 DEF LinkedPast
      <3>2. CASE n - 1 > 0 /\ p > 1
        <4>1. t[1] = s[1] /\ m.first[h] = s[1] /\ pred # h
          BY <1>2, <1>4, <1>5, <1>9, <1>11, <3>2
        <4> QED
          BY <1>10, <4>1 DEF LinkedPast
      <3> QED
        BY <1>2, <3>1, <3>2
    <2>3. n - 1 > 0 => m2.last[h] = t[n - 1]
      <3>1. CASE n - 1 > 0 /\ p = n
        <4>1. t[n - 1] = s[n - 1] /\ pred = s[n - 1] /\ succ = NULL
          BY <1>2, <1>4, <1>11, <3>1
        <4> QED
          BY <1>10, <4>1 DEF LinkedPast
      <3>2. CASE n - 1 > 0 /\ p < n
        <4>1. n - 1 \in 1 .. n - 1 /\ n - 1 >= p /\ (n - 1) + 1 = n /\ succ # NULL /\ m.last[h] = s[n]
          BY <1>2, <1>5, <1>9, <1>11, <3>2
        <4>2. t[n - 1] = s[n]
          BY <1>4, <4>1
        <4> QED
          BY <1>10, <4>1, <4>2 DEF LinkedPast
      <3> QED
        BY <1>2, <3>1, <3>2
    <2>4. ASSUME NEW i \in 1 .. n - 1
          PROVE  /\ i = n - 1 => m2.next[t[i]] = NULL
                 /\ i < n - 1 => m2.next[t[i]] = t[i + 1]
                 /\ i = 1 => m2.prev[t[i]] = h
                 /\ i > 1 => m2.prev[t[i]] = t[i - 1]
      <3>1. CASE i < p
        <4>1. i \in 1 .. n /\ i < n /\ t[i] = s[i] /\ s[i] \in Node /\ (i > 1 => t[i - 1] = s[i - 1])
          BY <1>2, <1>4, <3>1
        <4>2. s[i] # succ
          BY <1>2, <1>8, <1>9, <1>11, <3>1, <4>1
        <4>3. m2.prev[s[i]] = m.prev[s[i]]
          BY <1>10, <4>1, <4>2 DEF LinkedPast
        <4>4. CASE i = p - 1
          <5>1. s[i] = pred /\ p = i + 1
            BY <1>2, <1>11, <3>1, <4>4
          <5>2. m2.next[s[i]] = succ
            BY <1>10, <4>1, <5>1 DEF LinkedPast
          <5>3. i = n - 1 => succ = NULL
            BY <1>2, <1>11, <5>1
          <5>4. i < n - 1 => succ = t[i + 1]
            <6>1. i < n - 1 => i + 1 \in 1 .. n - 1 /\ i + 1 >= p /\ p < n
              BY <1>2, <5>1
            <6> QED
              BY <1>4, <1>11, <5>1, <6>1
          <5> QED
            BY <1>7, <4>1, <4>3, <5>2, <5>3, <5>4
        <4>5. CASE i < p - 1
          <5>1. i < n - 1 /\ t[i + 1] = s[i + 1]
            BY <1>2, <1>4, <4>5
          <5>2. s[i] # pred
            BY <1>2, <1>8, <1>9, <1>11, <4>1, <4>5
          <5>3. m2.next[s[i]] = m.next[s[i]]
            BY <1>10, <4>1, <5>2 DEF LinkedPast
          <5>4. m2.next[t[i]] = t[i + 1]
            BY <1>6, <4>1, <5>1, <5>3
          <5> QED
            BY <1>2, <1>7, <4>1, <4>3, <5>1, <5>4
        <4> QED
          BY <1>2, <3>1, <4>4, <4>5
      <3>2. CASE i >= p
        <4> DEFINE j == i + 1
        <4>1. j \in 1 .. n /\ t[i] = s[j] /\ s[j] \in Node /\ j > 1 /\ j > p
          BY <1>2, <1>4, <3>2
        <4>2. s[j] # pred
          BY <1>2, <1>8, <1>9, <1>11, <3>2, <4>1
        <4>3. m2.next[s[j]] = m.next[s[j]]
          BY <1>10, <4>1, <4>2 DEF LinkedPast
        <4>4. i < n - 1 => t[i + 1] = s[j + 1] /\ j < n
          <5>1. i < n - 1 => i + 1 \in 1 .. n - 1 /\ i + 1 >= p /\ (i + 1) + 1 = j + 1
            BY <1>2, <3>2
          <5> QED
            BY <1>2, <1>4, <5>1
        <4>5. i = n - 1 => j = n
          BY <1>2
        <4>6. /\ i = 1 => m2.prev[s[j]] = h
              /\ i > 1 => m2.prev[s[j]] = t[i - 1]
          <5>1. CASE j = p + 1
            <6>1. s[j] = succ /\ i = p
              BY <1>2, <1>11, <4>1, <5>1
            <6>2. m2.prev[s[j]] = pred
              BY <1>10, <4>1, <6>1 DEF LinkedPast
            <6>3. i > 1 => t[i - 1] = s[p - 1]
              BY <1>2, <1>4, <6>1
            <6> QED
              BY <1>2, <1>11, <6>1, <6>2, <6>3
          <5>2. CASE j > p + 1
            <6>1. s[j] # succ
              BY <1>2, <1>8, <1>9, <1>11, <4>1, <5>2
            <6>2. m2.prev[s[j]] = m.prev[s[j]]
              BY <1>10, <4>1, <6>1 DEF LinkedPast
            <6>3. i > 1 /\ i - 1 \in 1 .. n - 1 /\ i - 1 >= p /\ (i - 1) + 1 = j - 1
              BY <1>2, <4>1, <5>2
            <6>4. t[i - 1] = s[j - 1]
              BY <1>4, <6>3
            <6> QED
              BY <1>2, <1>7, <4>1, <6>2, <6>3, <6>4
          <5> QED
            BY <1>2, <4>1, <5>1, <5>2
        <4> QED
          BY <1>2, <1>6, <4>1, <4>3, <4>4, <4>5, <4>6
      <3> QED
        BY <1>2, <3>1, <3>2
    <2>5. 1 .. Len(t) = 1 .. n - 1 /\ Len(t) = n - 1
      BY <1>2
    <2>6. Ends(m2, h, t)
      BY <2>1, <2>2, <2>3, <2>5 DEF Ends
    <2>7. Forward(m2, t)
      <3> SUFFICES ASSUME NEW i \in 1 .. Len(t)
                   PROVE  /\ i = Len(t) => m2.next[t[i]] = NULL
                          /\ i < Len(t) => m2.next[t[i]] = t[i + 1]
        BY DEF Forward
      <3> QED
        BY <2>4, <2>5
    <2>8. Backward(m2, h, t)
      <3> SUFFICES ASSUME NEW i \in 1 .. Len(t)
                   PROVE  /\ i = 1 => m2.prev[t[i]] = h
                          /\ i > 1 => m2.prev[t[i]] = t[i - 1]
        BY DEF Backward
      <3> QED
        BY <2>4, <2>5
    <2> QED
      BY <2>6, <2>7, <2>8 DEF LinkedAs
  <1>17. m2 \in Queue
    BY <1>10 DEF LinkedPast
  <1> HIDE DEF ls2, s, n, pred, succ
  <1>18. ListInv(m2, ls2)
    BY <1>3, <1>14, <1>15, <1>16, <1>17 DEF ListInv
  <1> QED
    BY <1>18 DEF ls2


(* RemoveAt takes out one position and shifts those behind it. *)
LEMMA RemovalIs ==
  ASSUME NEW s \in Seq(Node), NEW p \in DOMAIN s
  PROVE  List!RemoveAt(s, p) \in Seq(Node) /\ Removal(s, p, List!RemoveAt(s, p))
  <1> DEFINE n == Len(s)
             a == SubSeq(s, 1, p - 1)
             b == SubSeq(s, p + 1, n)
  <1>1. n \in Nat /\ p \in 1 .. n /\ \A i \in 1 .. n : s[i] \in Node
    OBVIOUS
  <1>2. a \in Seq(Node) /\ Len(a) = p - 1 /\ \A i \in 1 .. p - 1 : a[i] = s[i]
    <2> HIDE DEF n
    <2>1. p - 1 \in Int /\ \A i \in 1 .. p - 1 : s[i] \in Node
      BY <1>1
    <2>2. /\ a \in Seq(Node) /\ Len(a) = IF 1 <= p - 1 THEN (p - 1) - 1 + 1 ELSE 0
          /\ \A i \in 1 .. (p - 1) - 1 + 1 : a[i] = s[1 + i - 1]
      BY <2>1, SubSeqProperties
    <2> HIDE DEF a
    <2> QED
      BY <1>1, <2>2
  <1>3. b \in Seq(Node) /\ Len(b) = n - p /\ \A i \in 1 .. n - p : b[i] = s[p + i]
    <2> HIDE DEF n
    <2>1. p + 1 \in Int /\ n \in Int /\ \A i \in p + 1 .. n : s[i] \in Node
      BY <1>1
    <2>2. /\ b \in Seq(Node) /\ Len(b) = IF p + 1 <= n THEN n - (p + 1) + 1 ELSE 0
          /\ \A i \in 1 .. n - (p + 1) + 1 : b[i] = s[p + 1 + i - 1]
      BY <2>1, SubSeqProperties
    <2> HIDE DEF b
    <2>3. ASSUME NEW i \in 1 .. n - p PROVE b[i] = s[p + i]
      <3>1. i \in 1 .. n - (p + 1) + 1 /\ p + 1 + i - 1 = p + i
        BY <1>1
      <3> QED
        BY <2>2, <3>1
    <2> QED
      BY <1>1, <2>2, <2>3
  <1> HIDE DEF a, b
  <1> DEFINE t == a \o b
  <1>4. /\ t \in Seq(Node) /\ Len(t) = Len(a) + Len(b)
        /\ \A i \in 1 .. Len(a) + Len(b) : t[i] = IF i <= Len(a) THEN a[i] ELSE b[i - Len(a)]
    BY <1>2, <1>3, ConcatProperties
  <1>5. t = List!RemoveAt(s, p)
    BY DEF List!RemoveAt, a, b
  <1> HIDE DEF t, n
  <1>6. Len(t) = n - 1
    BY <1>1, <1>2, <1>3, <1>4
  <1>7. ASSUME NEW i \in 1 .. n - 1
        PROVE  /\ i < p => t[i] = s[i]
               /\ i >= p => t[i] = s[i + 1]
    <2>1. /\ i \in 1 .. Len(a) + Len(b) /\ (i < p => i <= Len(a) /\ i \in 1 .. p - 1)
          /\ i >= p => ~ (i <= Len(a)) /\ i - Len(a) \in 1 .. n - p /\ p + (i - Len(a)) = i + 1
      BY <1>1, <1>2, <1>3, SMTT(20)
    <2> QED
      BY <1>2, <1>3, <1>4, <2>1
  <1>8. Removal(s, p, t)
    BY <1>6, <1>7 DEF Removal, n
  <1> QED
    BY <1>4, <1>5, <1>8

(* The removal of a listed element keeps the invariant. *)
LEMMA UnlinkStep ==
  ASSUME ListInv(q, lists), NEW h \in QHead, NEW e \in Node, List!Unlink(h, e)
  PROVE  ListInv(q', lists')
  <1> DEFINE s == lists[h]
             p == List!Place(h, e)
             t == List!RemoveAt(s, p)
  <1>1. q \in Queue /\ s \in Seq(Node) /\ e \in List!Listed(h)
    BY DEF ListInv, List!Unlink
  <1>2. p \in DOMAIN s /\ s[p] = e
    BY <1>1, PlaceIs
  <1> HIDE DEF p
  <1>3. LinkedPast(q, q', h, q.prev[s[p]], q.next[s[p]])
    BY <1>1, <1>2, RemoveLinks DEF List!Unlink
  <1>4. t \in Seq(Node) /\ Removal(s, p, t)
    BY <1>1, <1>2, RemovalIs
  <1>5. lists' = [lists EXCEPT ![h] = t]
    BY DEF List!Unlink, p
  <1> HIDE DEF t
  <1> QED
    BY <1>2, <1>3, <1>4, <1>5, LinkedPastKeeps

-----------------------------------------------------------------------------
(* Concatenating. *)

(* In m2 the last link of h1 leads to the first element of h2, and back,   *)
(* and h2 is empty.                                                        *)
Joined(m, m2, h1, h2) ==
  /\ m2 \in Queue
  /\ m2.first[h2] = NULL /\ m2.last[h2] = h2 /\ m2.last[h1] = m.last[h2]
  /\ m.last[h1] = h1 => m2.first[h1] = m.first[h2]
  /\ m.last[h1] # h1 => m2.first[h1] = m.first[h1]
  /\ \A g \in QHead \ {h1, h2} : m2.first[g] = m.first[g] /\ m2.last[g] = m.last[g]
  /\ \A x \in Node : /\ x = m.last[h1] => m2.next[x] = m.first[h2]
                     /\ x # m.last[h1] => m2.next[x] = m.next[x]
                     /\ x = m.first[h2] => m2.prev[x] = m.last[h1]
                     /\ x # m.first[h2] => m2.prev[x] = m.prev[x]

(* TAILQ_CONCAT joins the last element of one list to the first of the     *)
(* other and leaves the other empty.                                       *)
LEMMA ConcatLinks ==
  ASSUME NEW m \in Queue, NEW h1 \in QHead, NEW h2 \in QHead, h1 # h2, m.first[h2] # NULL,
         \A g \in QHead : g = m.last[h1] => g = h1
  PROVE  Joined(m, List!TAILQ_CONCAT(m, h1, h2), h1, h2)
  <1> DEFINE a == m.last[h1]
             f == m.first[h2]
             b == m.last[h2]
             m1 == List!Store(m, a, f)
             m2 == [m1 EXCEPT !.prev[f] = a]
             m3 == [m2 EXCEPT !.last[h1] = b]
             m4 == [m3 EXCEPT !.first[h2] = NULL]
             m5 == [m4 EXCEPT !.last[h2] = h2]
  <1>1. /\ a \in Address /\ b \in Address /\ f \in Node /\ f \in Pointer
        /\ NULL \in Pointer /\ h2 \in Address
    BY QueueFields DEF Pointer, Address
  <1>2. m3 = [m1 EXCEPT !.prev[f] = a, !.last[h1] = b]
    OBVIOUS
  <1>3. m5 = [m3 EXCEPT !.first[h2] = NULL, !.last[h2] = h2]
    OBVIOUS
  <1>4. List!TAILQ_CONCAT(m, h1, h2) = m5
    BY <1>2, <1>3 DEF List!TAILQ_CONCAT, List!TAILQ_EMPTY, List!TAILQ_INIT
  <1> HIDE DEF a, b, f
  <1>5. Stored(m, m1, a, f)
    BY <1>1, StoreFields
  <1> HIDE DEF m1
  <1>6. Fields(m2, m1.first, m1.last, m1.next, [m1.prev EXCEPT ![f] = a])
    BY <1>1, <1>5, SetPrev DEF Stored
  <1> HIDE DEF m2
  <1>7. Fields(m3, m2.first, [m2.last EXCEPT ![h1] = b], m2.next, m2.prev)
    BY <1>1, <1>6, SetLast DEF Fields
  <1> HIDE DEF m3
  <1>8. Fields(m4, [m3.first EXCEPT ![h2] = NULL], m3.last, m3.next, m3.prev)
    BY <1>1, <1>7, SetFirst DEF Fields
  <1> HIDE DEF m4
  <1>9. Fields(m5, m4.first, [m4.last EXCEPT ![h2] = h2], m4.next, m4.prev)
    BY <1>1, <1>8, SetLast DEF Fields
  <1> HIDE DEF m5
  <1>10. /\ m5 \in Queue
         /\ m5.first = [m1.first EXCEPT ![h2] = NULL]
         /\ m5.last = [[m.last EXCEPT ![h1] = b] EXCEPT ![h2] = h2]
         /\ m5.next = m1.next
         /\ m5.prev = [m.prev EXCEPT ![f] = a]
    BY <1>5, <1>6, <1>7, <1>8, <1>9 DEF Fields, Stored
  <1>11. m1.first \in [QHead -> Pointer] /\ m.last \in [QHead -> Address] /\ m.prev \in [Node -> Address]
    BY <1>5, QueueFields DEF Stored
  <1>12. /\ m5.first[h2] = NULL /\ m5.last[h2] = h2 /\ m5.last[h1] = b
         /\ m5.first[h1] = m1.first[h1]
         /\ \A g \in QHead \ {h1, h2} : m5.first[g] = m1.first[g] /\ m5.last[g] = m.last[g]
         /\ \A x \in Node : /\ x = f => m5.prev[x] = a
                            /\ x # f => m5.prev[x] = m.prev[x]
    BY <1>1, <1>10, <1>11
  <1>13. \A g \in QHead : g = a => g = h1
    BY DEF a
  <1>14. /\ a = h1 => m1.first[h1] = f
         /\ a # h1 => m1.first[h1] = m.first[h1]
         /\ \A g \in QHead \ {h1, h2} : m1.first[g] = m.first[g]
         /\ \A x \in Node : /\ x = a => m1.next[x] = f
                            /\ x # a => m1.next[x] = m.next[x]
    BY <1>5, <1>13 DEF Stored
  <1>15. Joined(m, m5, h1, h2)
    BY <1>10, <1>12, <1>14 DEF Joined, a, b, f
  <1> QED
    BY <1>4, <1>15


(* Lists joined in memory as their sequences are keep the invariant. *)
LEMMA JoinedKeeps ==
  ASSUME NEW m, NEW ls, ListInv(m, ls), NEW h1 \in QHead, NEW h2 \in QHead, h1 # h2,
         ls[h2] # << >>, NEW m2, Joined(m, m2, h1, h2)
  PROVE  ListInv(m2, [ls EXCEPT ![h1] = ls[h1] \o ls[h2], ![h2] = << >>])
  <1> DEFINE s1 == ls[h1]
             s2 == ls[h2]
             n1 == Len(s1)
             n2 == Len(s2)
             t == s1 \o s2
             n == n1 + n2
             ls2 == [ls EXCEPT ![h1] = t, ![h2] = << >>]
  <1>1. ls \in [QHead -> Seq(Node)] /\ s1 \in Seq(Node) /\ s2 \in Seq(Node) /\ Apart(ls)
    BY DEF ListInv
  <1>2. /\ n1 \in Nat /\ n2 \in Nat /\ n2 > 0 /\ n2 \in 1 .. n2 /\ 1 \in 1 .. n2
        /\ \A i \in 1 .. n1 : s1[i] \in Node
        /\ \A i \in 1 .. n2 : s2[i] \in Node
    BY <1>1
  <1>3. /\ t \in Seq(Node) /\ Len(t) = n
        /\ \A i \in 1 .. n : t[i] = IF i <= n1 THEN s1[i] ELSE s2[i - n1]
    BY <1>1, ConcatProperties
  <1>4. /\ ls2 \in [QHead -> Seq(Node)] /\ ls2[h1] = t /\ ls2[h2] = << >>
        /\ \A g \in QHead \ {h1, h2} : ls2[g] = ls[g]
    <2>1. << >> \in Seq(Node) /\ t \in Seq(Node)
      BY <1>3
    <2> HIDE DEF t
    <2> QED
      BY <1>1, <2>1
  <1>5. /\ n1 = 0 => m.first[h1] = NULL /\ m.last[h1] = h1
        /\ n1 > 0 => m.first[h1] = s1[1] /\ m.last[h1] = s1[n1]
        /\ m.first[h2] = s2[1] /\ m.last[h2] = s2[n2]
    BY <1>1, <1>2 DEF ListInv, LinkedAs, Ends
  <1>6. /\ \A i \in 1 .. n1 : /\ i = n1 => m.next[s1[i]] = NULL
                              /\ i < n1 => m.next[s1[i]] = s1[i + 1]
        /\ \A i \in 1 .. n2 : /\ i = n2 => m.next[s2[i]] = NULL
                              /\ i < n2 => m.next[s2[i]] = s2[i + 1]
    BY DEF ListInv, LinkedAs, Forward
  <1>7. /\ \A i \in 1 .. n1 : /\ i = 1 => m.prev[s1[i]] = h1
                              /\ i > 1 => m.prev[s1[i]] = s1[i - 1]
        /\ \A i \in 1 .. n2 : /\ i = 1 => m.prev[s2[i]] = h2
                              /\ i > 1 => m.prev[s2[i]] = s2[i - 1]
    BY DEF ListInv, LinkedAs, Backward
  <1>8. /\ \A i, j \in 1 .. n1 : s1[i] = s1[j] => i = j
        /\ \A i, j \in 1 .. n2 : s2[i] = s2[j] => i = j
        /\ \A i \in 1 .. n1 : \A j \in 1 .. n2 : s1[i] # s2[j]
    BY <1>1 DEF Apart
  <1>9. \A g \in QHead \ {h1, h2} : \A k \in 1 .. Len(ls[g]) :
          /\ ls[g][k] \in Node
          /\ \A i \in 1 .. n1 : ls[g][k] # s1[i]
          /\ \A i \in 1 .. n2 : ls[g][k] # s2[i]
    BY <1>1 DEF Apart
  <1>10. /\ \A i \in 1 .. n1 : s1[i] # NULL /\ s1[i] \notin QHead
         /\ \A i \in 1 .. n2 : s2[i] # NULL /\ s2[i] \notin QHead
    BY <1>2, QueueAssumption
  <1>11. \A i \in 1 .. n : /\ i <= n1 => i \in 1 .. n1 /\ t[i] = s1[i]
                           /\ i > n1 => i - n1 \in 1 .. n2 /\ t[i] = s2[i - n1]
    <2> HIDE DEF s1, s2, n1, n2, t
    <2> QED
      BY <1>2, <1>3
  <1>12. Apart(ls2)
    <2>1. ASSUME NEW i \in 1 .. n, NEW j \in 1 .. n, t[i] = t[j] PROVE i = j
      <3> HIDE DEF s1, s2, n1, n2, t
      <3>1. CASE i <= n1 /\ j <= n1
        BY <1>8, <1>11, <2>1, <3>1
      <3>2. CASE i > n1 /\ j > n1
        <4>1. i - n1 = j - n1
          BY <1>8, <1>11, <2>1, <3>2
        <4> QED
          BY <1>2, <4>1
      <3>3. CASE i <= n1 /\ j > n1
        BY <1>8, <1>11, <2>1, <3>3
      <3>4. CASE i > n1 /\ j <= n1
        BY <1>8, <1>11, <2>1, <3>4
      <3> QED
        BY <1>2, <3>1, <3>2, <3>3, <3>4
    <2>2. ASSUME NEW g \in QHead \ {h1, h2}, NEW i \in 1 .. Len(ls[g]), NEW j \in 1 .. n
          PROVE  ls[g][i] # t[j]
      <3> HIDE DEF s1, s2, n1, n2, t
      <3> QED
        BY <1>2, <1>9, <1>11
    <2> SUFFICES ASSUME NEW g \in QHead, NEW k \in QHead,
                        NEW i \in 1 .. Len(ls2[g]), NEW j \in 1 .. Len(ls2[k]), ls2[g][i] = ls2[k][j]
                 PROVE  g = k /\ i = j
      BY DEF Apart
    <2> HIDE DEF s1, s2, n1, n2, t, ls2, n
    <2>3. g # h2 /\ k # h2
      BY <1>4
    <2>4. CASE g = h1 /\ k = h1
      BY <1>3, <1>4, <2>1, <2>4
    <2>5. CASE g = h1 /\ k # h1
      BY <1>3, <1>4, <2>2, <2>3, <2>5
    <2>6. CASE g # h1 /\ k = h1
      BY <1>3, <1>4, <2>2, <2>3, <2>6
    <2>7. CASE g # h1 /\ k # h1
      <3>1. ls2[g] = ls[g] /\ ls2[k] = ls[k]
        BY <1>4, <2>3, <2>7
      <3>2. i \in 1 .. Len(ls[g]) /\ j \in 1 .. Len(ls[k]) /\ ls[g][i] = ls[k][j]
        BY <3>1
      <3> QED
        BY <1>1, <3>2 DEF Apart
    <2> QED
      BY <2>4, <2>5, <2>6, <2>7
  <1>13. ASSUME NEW g \in QHead \ {h1, h2} PROVE LinkedAs(m2, g, ls2[g])
    <2>1. LinkedAs(m, g, ls[g]) /\ Len(ls[g]) \in Nat
      BY <1>1 DEF ListInv
    <2>2. m2.first[g] = m.first[g] /\ m2.last[g] = m.last[g]
      BY DEF Joined
    <2>3. \A i \in 1 .. Len(ls[g]) : ls[g][i] \in Node /\ ls[g][i] # m.last[h1] /\ ls[g][i] # m.first[h2]
      <3> SUFFICES ASSUME NEW i \in 1 .. Len(ls[g])
                   PROVE  ls[g][i] \in Node /\ ls[g][i] # m.last[h1] /\ ls[g][i] # m.first[h2]
        OBVIOUS
      <3> HIDE DEF s1, s2, n1, n2, t, ls2, n
      <3>1. ls[g][i] \in Node /\ ls[g][i] # s2[1] /\ ls[g][i] # h1
        BY <1>2, <1>9, QueueAssumption
      <3>2. n1 > 0 => ls[g][i] # s1[n1]
        <4>1. n1 > 0 => n1 \in 1 .. n1
          BY <1>2
        <4> QED
          BY <1>9, <4>1
      <3>3. n1 = 0 \/ n1 > 0
        BY <1>2
      <3> QED
        BY <1>5, <3>1, <3>2, <3>3
    <2>4. \A i \in 1 .. Len(ls[g]) : /\ m2.next[ls[g][i]] = m.next[ls[g][i]]
                                     /\ m2.prev[ls[g][i]] = m.prev[ls[g][i]]
      BY <2>3 DEF Joined
    <2> QED
      <3>1. ls2[g] = ls[g]
        BY <1>4
      <3>2. LinkedAs(m2, g, ls[g])
        BY <2>1, <2>2, <2>4 DEF LinkedAs, Ends, Forward, Backward
      <3> QED
        BY <3>1, <3>2
  <1>14. LinkedAs(m2, h2, << >>)
    BY DEF Joined, LinkedAs, Ends, Forward, Backward
  <1>15. LinkedAs(m2, h1, t)
    <2> HIDE DEF s1, s2, n1, n2, t, ls2, n
    <2>1. n \in Nat /\ n > 0 /\ n = n1 + n2
      BY <1>2 DEF n
    <2>2. m2.first[h1] = t[1]
      <3>1. CASE n1 = 0
        <4>1. t[1] = s2[1]
          BY <1>2, <1>11, <2>1, <3>1
        <4> QED
          BY <1>5, <3>1, <4>1 DEF Joined
      <3>2. CASE n1 > 0
        <4>1. t[1] = s1[1] /\ n1 \in 1 .. n1
          BY <1>2, <1>11, <2>1, <3>2
        <4>2. m.last[h1] # h1
          BY <1>5, <1>10, <3>2, <4>1
        <4> QED
          BY <1>5, <3>2, <4>1, <4>2 DEF Joined
      <3> QED
        BY <1>2, <3>1, <3>2
    <2>3. m2.last[h1] = t[n]
      <3>1. n \in 1 .. n /\ n > n1 /\ n - n1 = n2
        BY <1>2, <2>1
      <3>2. t[n] = s2[n2]
        BY <1>11, <3>1
      <3> QED
        BY <1>5, <3>2 DEF Joined
    <2>4. ASSUME NEW i \in 1 .. n
          PROVE  /\ i = n => m2.next[t[i]] = NULL
                 /\ i < n => m2.next[t[i]] = t[i + 1]
                 /\ i = 1 => m2.prev[t[i]] = h1
                 /\ i > 1 => m2.prev[t[i]] = t[i - 1]
      <3>1. CASE i <= n1
        <4>1. i \in 1 .. n1 /\ t[i] = s1[i] /\ s1[i] \in Node /\ i < n
          BY <1>2, <1>11, <2>1, <3>1
        <4>2. s1[i] # m.first[h2]
          BY <1>2, <1>5, <1>8, <4>1
        <4>3. m2.prev[s1[i]] = m.prev[s1[i]]
          BY <4>1, <4>2 DEF Joined
        <4>4. i > 1 => t[i - 1] = s1[i - 1]
          BY <1>2, <1>11, <2>1, <3>1
        <4>5. m2.next[s1[i]] = t[i + 1]
          <5>1. CASE i = n1
            <6>1. i + 1 \in 1 .. n /\ i + 1 > n1 /\ (i + 1) - n1 = 1
              BY <1>2, <2>1, <5>1
            <6>2. t[i + 1] = s2[1]
              BY <1>11, <6>1
            <6>3. m.last[h1] = s1[i]
              BY <1>2, <1>5, <4>1, <5>1
            <6> QED
              BY <1>5, <4>1, <6>2, <6>3 DEF Joined
          <5>2. CASE i < n1
            <6>1. t[i + 1] = s1[i + 1]
              BY <1>2, <1>11, <2>1, <5>2
            <6>2. n1 \in 1 .. n1 /\ n1 > 0 /\ n1 # i
              BY <1>2, <5>2
            <6>3. m.last[h1] # s1[i]
              BY <1>5, <1>8, <4>1, <6>2
            <6> QED
              BY <1>6, <4>1, <5>2, <6>1, <6>3 DEF Joined
          <5> QED
            BY <1>2, <3>1, <5>1, <5>2
        <4>6. i # n
          BY <2>1, <4>1
        <4> QED
          BY <1>7, <4>1, <4>3, <4>4, <4>5, <4>6
      <3>2. CASE i > n1
        <4> DEFINE j == i - n1
        <4>1. j \in 1 .. n2 /\ t[i] = s2[j] /\ s2[j] \in Node
          BY <1>2, <1>11, <3>2
        <4>2. s2[j] # m.last[h1]
          <5>1. n1 > 0 => n1 \in 1 .. n1
            BY <1>2
          <5>2. n1 = 0 \/ n1 > 0
            BY <1>2
          <5> QED
            BY <1>5, <1>8, <1>10, <4>1, <5>1, <5>2
        <4>3. m2.next[s2[j]] = m.next[s2[j]]
          BY <4>1, <4>2 DEF Joined
        <4>4. i < n => j < n2 /\ t[i + 1] = s2[j + 1]
          <5>1. i < n => i + 1 \in 1 .. n /\ i + 1 > n1 /\ (i + 1) - n1 = j + 1 /\ j < n2
            BY <1>2, <2>1, <3>2
          <5> QED
            BY <1>11, <5>1
        <4>5. i = n => j = n2
          BY <1>2, <2>1
        <4>6. /\ i = 1 => m2.prev[s2[j]] = h1
              /\ i > 1 => m2.prev[s2[j]] = t[i - 1]
          <5>1. CASE j = 1
            <6>1. i = n1 + 1
              BY <1>2, <2>1, <5>1
            <6>2. m2.prev[s2[j]] = m.last[h1]
              BY <1>5, <4>1, <5>1 DEF Joined
            <6>3. i = 1 => n1 = 0
              BY <1>2, <6>1
            <6>4. i > 1 => n1 > 0 /\ i - 1 \in 1 .. n /\ i - 1 <= n1 /\ i - 1 = n1
              BY <1>2, <2>1, <6>1
            <6>5. i > 1 => t[i - 1] = s1[n1]
              BY <1>11, <6>4
            <6> QED
              BY <1>5, <6>2, <6>3, <6>4, <6>5
          <5>2. CASE j > 1
            <6>1. i > 1 /\ i # 1 /\ i - 1 \in 1 .. n /\ i - 1 > n1 /\ (i - 1) - n1 = j - 1
              BY <1>2, <2>1, <3>2, <5>2
            <6>2. t[i - 1] = s2[j - 1]
              BY <1>11, <6>1
            <6>3. s2[j] # m.first[h2]
              BY <1>2, <1>5, <1>8, <4>1, <5>2
            <6>4. m2.prev[s2[j]] = m.prev[s2[j]]
              BY <4>1, <6>3 DEF Joined
            <6>5. m.prev[s2[j]] = s2[j - 1]
              BY <1>7, <4>1, <5>2
            <6> QED
              BY <6>1, <6>2, <6>4, <6>5
          <5> QED
            BY <4>1, <5>1, <5>2
        <4> HIDE DEF j
        <4> QED
          BY <1>6, <4>1, <4>3, <4>4, <4>5, <4>6
      <3> QED
        BY <1>2, <3>1, <3>2
    <2>5. 1 .. Len(t) = 1 .. n /\ Len(t) = n
      BY <1>3 DEF n
    <2>6. Ends(m2, h1, t)
      BY <2>1, <2>2, <2>3, <2>5 DEF Ends
    <2>7. Forward(m2, t)
      <3> SUFFICES ASSUME NEW i \in 1 .. Len(t)
                   PROVE  /\ i = Len(t) => m2.next[t[i]] = NULL
                          /\ i < Len(t) => m2.next[t[i]] = t[i + 1]
        BY DEF Forward
      <3> QED
        BY <2>4, <2>5
    <2>8. Backward(m2, h1, t)
      <3> SUFFICES ASSUME NEW i \in 1 .. Len(t)
                   PROVE  /\ i = 1 => m2.prev[t[i]] = h1
                          /\ i > 1 => m2.prev[t[i]] = t[i - 1]
        BY DEF Backward
      <3> QED
        BY <2>4, <2>5
    <2> QED
      BY <2>6, <2>7, <2>8 DEF LinkedAs
  <1>16. m2 \in Queue
    BY DEF Joined
  <1> HIDE DEF ls2, s1, s2, n1, n2, n, t
  <1>17. ListInv(m2, ls2)
    <2>1. \A g \in QHead : LinkedAs(m2, g, ls2[g])
      BY <1>4, <1>13, <1>14, <1>15
    <2> QED
      BY <1>4, <1>12, <1>16, <2>1 DEF ListInv
  <1> QED
    BY <1>17 DEF ls2, t, s1, s2


(* A concatenation keeps the invariant, of an empty list too. *)
LEMMA ConcatStep ==
  ASSUME ListInv(q, lists), NEW h1 \in QHead, NEW h2 \in QHead, List!Concat(h1, h2)
  PROVE  ListInv(q', lists')
  <1>1. /\ h1 # h2 /\ q \in Queue /\ lists \in [QHead -> Seq(Node)]
        /\ lists[h1] \in Seq(Node) /\ lists[h2] \in Seq(Node)
    BY DEF ListInv, List!Concat
  <1>2. LinkedAs(q, h2, lists[h2]) /\ LinkedAs(q, h1, lists[h1])
    BY DEF ListInv
  <1>3. CASE lists[h2] = << >>
    <2>1. q.first[h2] = NULL
      BY <1>2, <1>3 DEF LinkedAs, Ends
    <2>2. q' = q
      BY <2>1 DEF List!Concat, List!TAILQ_CONCAT, List!TAILQ_EMPTY
    <2>3. lists[h1] \o lists[h2] = lists[h1]
      BY <1>1, <1>3, ConcatEmptySeq
    <2>4. lists' = [lists EXCEPT ![h1] = lists[h1] \o lists[h2], ![h2] = << >>]
      BY <1>1 DEF List!Concat
    <2>5. lists' = lists
      BY <1>1, <1>3, <2>3, <2>4
    <2> QED
      BY <2>2, <2>5
  <1>4. CASE lists[h2] # << >>
    <2>1. q.first[h2] # NULL
      <3>1. Len(lists[h2]) > 0 /\ lists[h2][1] \in Node
        BY <1>1, <1>4
      <3> QED
        BY <1>2, <3>1, QueueAssumption DEF LinkedAs, Ends
    <2>2. ASSUME NEW g \in QHead, g = q.last[h1] PROVE g = h1
      <3>1. CASE Len(lists[h1]) = 0
        BY <1>2, <2>2, <3>1 DEF LinkedAs, Ends
      <3>2. CASE Len(lists[h1]) > 0
        <4>1. lists[h1][Len(lists[h1])] \in Node
          BY <1>1, <3>2
        <4> QED
          BY <1>2, <2>2, <3>2, <4>1, QueueAssumption DEF LinkedAs, Ends
      <3>3. Len(lists[h1]) = 0 \/ Len(lists[h1]) > 0
        BY <1>1
      <3> QED
        BY <3>1, <3>2, <3>3
    <2>3. Joined(q, List!TAILQ_CONCAT(q, h1, h2), h1, h2)
      BY <1>1, <2>1, <2>2, ConcatLinks
    <2>4. Joined(q, q', h1, h2)
      BY <2>3 DEF List!Concat
    <2>5. lists' = [lists EXCEPT ![h1] = lists[h1] \o lists[h2], ![h2] = << >>]
      BY <1>1 DEF List!Concat
    <2> QED
      BY <1>1, <1>4, <2>4, <2>5, JoinedKeeps
  <1> QED
    BY <1>3, <1>4

-----------------------------------------------------------------------------
(* Exchanging. *)

(* In m2 the two heads have each other's lists, which lead back to them. *)
Exchanged(m, m2, h1, h2) ==
  /\ m2 \in Queue
  /\ m2.first[h1] = m.first[h2] /\ m2.first[h2] = m.first[h1]
  /\ m.first[h2] = NULL => m2.last[h1] = h1
  /\ m.first[h2] # NULL => m2.last[h1] = m.last[h2]
  /\ m.first[h1] = NULL => m2.last[h2] = h2
  /\ m.first[h1] # NULL => m2.last[h2] = m.last[h1]
  /\ \A g \in QHead \ {h1, h2} : m2.first[g] = m.first[g] /\ m2.last[g] = m.last[g]
  /\ m2.next = m.next
  /\ \A x \in Node : /\ x = m.first[h2] => m2.prev[x] = h1
                     /\ x = m.first[h1] => m2.prev[x] = h2
                     /\ x # m.first[h1] /\ x # m.first[h2] => m2.prev[x] = m.prev[x]

(* What a head points to points back to it. *)
LEMMA RepairedIs ==
  ASSUME NEW m \in Queue, NEW h \in QHead
  PROVE  Backed(m, List!Repaired(m, h), h, m.first[h], h)
  <1>1. m.first[h] \in Pointer /\ h \in Address
    BY QueueFields DEF Address
  <1> QED
    BY <1>1, BackFields DEF List!Repaired

(* TAILQ_SWAP exchanges the ends and turns the first back pointers over.   *)
LEMMA SwapLinks ==
  ASSUME NEW m \in Queue, NEW h1 \in QHead, NEW h2 \in QHead, h1 # h2,
         m.first[h1] = m.first[h2] => m.first[h1] = NULL
  PROVE  Exchanged(m, List!TAILQ_SWAP(m, h1, h2), h1, h2)
  <1> DEFINE f1 == m.first[h1]
             f2 == m.first[h2]
             l1 == m.last[h1]
             l2 == m.last[h2]
             m1 == [m EXCEPT !.first[h1] = f2]
             m2 == [m1 EXCEPT !.first[h2] = f1]
             m3 == [m2 EXCEPT !.last[h1] = l2]
             m4 == [m3 EXCEPT !.last[h2] = l1]
             m5 == List!Repaired(m4, h1)
             m6 == List!Repaired(m5, h2)
  <1>1. f1 \in Pointer /\ f2 \in Pointer /\ l1 \in Address /\ l2 \in Address
    BY QueueFields
  <1>2. m4 = [m EXCEPT !.first[h1] = f2, !.first[h2] = f1, !.last[h1] = l2, !.last[h2] = l1]
    OBVIOUS
  <1>3. List!TAILQ_SWAP(m, h1, h2) = m6
    BY <1>2 DEF List!TAILQ_SWAP
  <1>4. f1 = f2 => f1 = NULL
    OBVIOUS
  <1> HIDE DEF f1, f2, l1, l2
  <1>5. Fields(m1, [m.first EXCEPT ![h1] = f2], m.last, m.next, m.prev)
    BY <1>1, SetFirst
  <1> HIDE DEF m1
  <1>6. Fields(m2, [m1.first EXCEPT ![h2] = f1], m1.last, m1.next, m1.prev)
    BY <1>1, <1>5, SetFirst DEF Fields
  <1> HIDE DEF m2
  <1>7. Fields(m3, m2.first, [m2.last EXCEPT ![h1] = l2], m2.next, m2.prev)
    BY <1>1, <1>6, SetLast DEF Fields
  <1> HIDE DEF m3
  <1>8. Fields(m4, m3.first, [m3.last EXCEPT ![h2] = l1], m3.next, m3.prev)
    BY <1>1, <1>7, SetLast DEF Fields
  <1> HIDE DEF m4
  <1>9. Backed(m4, m5, h1, m4.first[h1], h1)
    BY <1>8, RepairedIs DEF Fields
  <1> HIDE DEF m5
  <1>10. Backed(m5, m6, h2, m5.first[h2], h2)
    <2>1. m5 \in Queue
      BY <1>9 DEF Backed
    <2> QED
      BY <2>1, RepairedIs
  <1> HIDE DEF m6
  <1>11. /\ m4.first = [[m.first EXCEPT ![h1] = f2] EXCEPT ![h2] = f1]
         /\ m4.last = [[m.last EXCEPT ![h1] = l2] EXCEPT ![h2] = l1]
         /\ m4.next = m.next /\ m4.prev = m.prev
    BY <1>5, <1>6, <1>7, <1>8 DEF Fields
  <1>12. /\ m4.first[h1] = f2 /\ m4.first[h2] = f1 /\ m4.last[h1] = l2 /\ m4.last[h2] = l1
         /\ \A g \in QHead \ {h1, h2} : m4.first[g] = m.first[g] /\ m4.last[g] = m.last[g]
    BY <1>11, QueueFields
  <1>13. /\ m6 \in Queue /\ m6.first = m4.first /\ m6.next = m.next /\ m5.first = m4.first
         /\ \A g \in QHead : /\ g = h2 /\ f1 = NULL => m6.last[g] = h2
                             /\ ~ (g = h2 /\ f1 = NULL) => m6.last[g] = m5.last[g]
                             /\ g = h1 /\ f2 = NULL => m5.last[g] = h1
                             /\ ~ (g = h1 /\ f2 = NULL) => m5.last[g] = m4.last[g]
         /\ \A x \in Node : /\ x = f1 => m6.prev[x] = h2
                            /\ x # f1 => m6.prev[x] = m5.prev[x]
                            /\ x = f2 => m5.prev[x] = h1
                            /\ x # f2 => m5.prev[x] = m.prev[x]
    BY <1>9, <1>10, <1>11, <1>12 DEF Backed
  <1>14. \A x \in Node : x = f2 => x # f1
    BY <1>4, QueueAssumption
  <1>15. /\ m6.first[h1] = f2 /\ m6.first[h2] = f1
         /\ f2 = NULL => m6.last[h1] = h1
         /\ f2 # NULL => m6.last[h1] = l2
         /\ f1 = NULL => m6.last[h2] = h2
         /\ f1 # NULL => m6.last[h2] = l1
         /\ \A g \in QHead \ {h1, h2} : m6.first[g] = m.first[g] /\ m6.last[g] = m.last[g]
    BY <1>12, <1>13
  <1>16. \A x \in Node : /\ x = f2 => m6.prev[x] = h1
                         /\ x = f1 => m6.prev[x] = h2
                         /\ x # f1 /\ x # f2 => m6.prev[x] = m.prev[x]
    BY <1>13, <1>14
  <1>17. Exchanged(m, m6, h1, h2)
    BY <1>13, <1>15, <1>16 DEF Exchanged, f1, f2, l1, l2
  <1> QED
    BY <1>3, <1>17

(* A list whose links are kept but for the head it hangs from. *)
LEMMA Rehung ==
  ASSUME NEW m, NEW m2, NEW h, NEW g, NEW s \in Seq(Node), LinkedAs(m, h, s),
         \A i, j \in 1 .. Len(s) : s[i] = s[j] => i = j,
         m2.next = m.next, m2.first[g] = m.first[h],
         m.first[h] = NULL => m2.last[g] = g,
         m.first[h] # NULL => m2.last[g] = m.last[h],
         \A x \in Node : x = m.first[h] => m2.prev[x] = g,
         \A i \in 1 .. Len(s) : i > 1 => m2.prev[s[i]] = m.prev[s[i]]
  PROVE  LinkedAs(m2, g, s)
  <1> DEFINE n == Len(s)
  <1>1. n \in Nat /\ \A i \in 1 .. n : s[i] \in Node /\ s[i] # NULL
    BY QueueAssumption
  <1>2. Ends(m, h, s) /\ Forward(m, s) /\ Backward(m, h, s)
    BY DEF LinkedAs
  <1>3. CASE n = 0
    BY <1>2, <1>3 DEF LinkedAs, Ends, Forward, Backward
  <1>4. CASE n > 0
    <2>1. m.first[h] = s[1] /\ m.last[h] = s[n] /\ 1 \in 1 .. n /\ s[1] \in Node /\ s[1] # NULL
      BY <1>1, <1>2, <1>4 DEF Ends
    <2>2. Ends(m2, g, s)
      BY <1>4, <2>1 DEF Ends
    <2>3. Forward(m2, s)
      BY <1>2 DEF Forward
    <2>4. Backward(m2, g, s)
      <3> SUFFICES ASSUME NEW i \in 1 .. Len(s)
                   PROVE  /\ i = 1 => m2.prev[s[i]] = g
                          /\ i > 1 => m2.prev[s[i]] = s[i - 1]
        BY DEF Backward
      <3>1. i = 1 => m2.prev[s[i]] = g
        BY <2>1
      <3>2. i > 1 => m2.prev[s[i]] = s[i - 1]
        BY <1>2 DEF Backward
      <3> QED
        BY <3>1, <3>2
    <2> QED
      BY <2>2, <2>3, <2>4 DEF LinkedAs
  <1> QED
    BY <1>1, <1>3, <1>4


(* The first element of a list is in no other one. *)
LEMMA FirstIs ==
  ASSUME NEW m, NEW ls, ListInv(m, ls), NEW h \in QHead
  PROVE  /\ \A g \in QHead : \A i \in DOMAIN ls[g] : ls[g][i] = m.first[h] => g = h /\ i = 1
         /\ \A g \in QHead : m.first[h] = m.first[g] /\ m.first[g] # NULL => g = h
  <1>1. ls \in [QHead -> Seq(Node)] /\ Apart(ls) /\ \A g \in QHead : Ends(m, g, ls[g])
    BY DEF ListInv, LinkedAs
  <1>2. \A g \in QHead : \/ Len(ls[g]) = 0 /\ m.first[g] = NULL
                         \/ 1 \in DOMAIN ls[g] /\ m.first[g] = ls[g][1]
    BY <1>1 DEF Ends
  <1>3. \A g \in QHead : \A i \in DOMAIN ls[g] : i \in 1 .. Len(ls[g]) /\ ls[g][i] \in Node
    BY <1>1
  <1>4. ASSUME NEW g \in QHead, NEW i \in DOMAIN ls[g], ls[g][i] = m.first[h] PROVE g = h /\ i = 1
    <2>1. ls[g][i] # NULL
      BY <1>3, QueueAssumption
    <2>2. 1 \in DOMAIN ls[h] /\ ls[g][i] = ls[h][1]
      BY <1>2, <1>4, <2>1
    <2>3. i \in 1 .. Len(ls[g]) /\ 1 \in 1 .. Len(ls[h])
      BY <1>3, <2>2
    <2> QED
      BY <1>1, <2>2, <2>3 DEF Apart
  <1>5. ASSUME NEW g \in QHead, m.first[h] = m.first[g], m.first[g] # NULL PROVE g = h
    BY <1>2, <1>4, <1>5
  <1> QED
    BY <1>4, <1>5

(* A swap keeps the invariant, also where a list is empty. *)
LEMMA SwapStep ==
  ASSUME ListInv(q, lists), NEW h1 \in QHead, NEW h2 \in QHead, List!Swap(h1, h2)
  PROVE  ListInv(q', lists')
  <1>1. /\ h1 # h2 /\ q \in Queue /\ lists \in [QHead -> Seq(Node)] /\ Apart(lists)
        /\ \A h \in QHead : LinkedAs(q, h, lists[h]) /\ lists[h] \in Seq(Node)
    BY DEF ListInv, List!Swap
  <1>2. lists' = [lists EXCEPT ![h1] = lists[h2], ![h2] = lists[h1]]
    BY <1>1 DEF List!Swap
  <1>3. /\ lists' \in [QHead -> Seq(Node)] /\ lists'[h1] = lists[h2] /\ lists'[h2] = lists[h1]
        /\ \A g \in QHead \ {h1, h2} : lists'[g] = lists[g]
    BY <1>1, <1>2
  <1>4. q.first[h1] = q.first[h2] => q.first[h1] = NULL
    BY <1>1, FirstIs
  <1>5. Exchanged(q, List!TAILQ_SWAP(q, h1, h2), h1, h2)
    BY <1>1, <1>4, SwapLinks
  <1>6. Exchanged(q, q', h1, h2)
    BY <1>5 DEF List!Swap
  <1> DEFINE other == [g \in QHead |-> IF g = h1 THEN h2 ELSE IF g = h2 THEN h1 ELSE g]
  <1>7. /\ \A g \in QHead : other[g] \in QHead /\ lists'[g] = lists[other[g]]
        /\ \A g, k \in QHead : other[g] = other[k] => g = k
        /\ other[h1] = h2 /\ other[h2] = h1 /\ \A g \in QHead \ {h1, h2} : other[g] = g
    BY <1>1, <1>3
  <1> HIDE DEF other
  <1>8. Apart(lists')
    <2> SUFFICES ASSUME NEW g \in QHead, NEW k \in QHead, NEW i \in 1 .. Len(lists'[g]),
                        NEW j \in 1 .. Len(lists'[k]), lists'[g][i] = lists'[k][j]
                 PROVE  g = k /\ i = j
      BY DEF Apart
    <2>1. /\ other[g] \in QHead /\ other[k] \in QHead
          /\ i \in 1 .. Len(lists[other[g]]) /\ j \in 1 .. Len(lists[other[k]])
          /\ lists[other[g]][i] = lists[other[k]][j]
      BY <1>7
    <2>2. other[g] = other[k] /\ i = j
      BY <1>1, <2>1, SMTT(20) DEF Apart
    <2> QED
      BY <1>7, <2>2
  <1>9. ASSUME NEW h \in QHead, NEW i \in 1 .. Len(lists[h]), i > 1 \/ h \notin {h1, h2}
        PROVE  q'.prev[lists[h][i]] = q.prev[lists[h][i]]
    <2>1. lists[h][i] \in Node /\ i \in DOMAIN lists[h]
      BY <1>1
    <2>2. lists[h][i] # q.first[h1] /\ lists[h][i] # q.first[h2]
      BY <1>9, <2>1, FirstIs
    <2> QED
      BY <1>6, <2>1, <2>2 DEF Exchanged
  <1>10. \A h \in QHead : \A i, j \in 1 .. Len(lists[h]) : lists[h][i] = lists[h][j] => i = j
    BY <1>1 DEF Apart
  <1>11. LinkedAs(q', h1, lists[h2])
    <2>1. /\ q'.next = q.next /\ q'.first[h1] = q.first[h2]
          /\ q.first[h2] = NULL => q'.last[h1] = h1
          /\ q.first[h2] # NULL => q'.last[h1] = q.last[h2]
          /\ \A x \in Node : x = q.first[h2] => q'.prev[x] = h1
      BY <1>6 DEF Exchanged
    <2>2. \A i \in 1 .. Len(lists[h2]) : i > 1 => q'.prev[lists[h2][i]] = q.prev[lists[h2][i]]
      BY <1>9
    <2>3. LinkedAs(q, h2, lists[h2]) /\ lists[h2] \in Seq(Node)
      BY <1>1
    <2>4. \A i, j \in 1 .. Len(lists[h2]) : lists[h2][i] = lists[h2][j] => i = j
      BY <1>10
    <2> QED
      BY <2>1, <2>2, <2>3, <2>4, Rehung
  <1>12. LinkedAs(q', h2, lists[h1])
    <2>1. /\ q'.next = q.next /\ q'.first[h2] = q.first[h1]
          /\ q.first[h1] = NULL => q'.last[h2] = h2
          /\ q.first[h1] # NULL => q'.last[h2] = q.last[h1]
          /\ \A x \in Node : x = q.first[h1] => q'.prev[x] = h2
      BY <1>6 DEF Exchanged
    <2>2. \A i \in 1 .. Len(lists[h1]) : i > 1 => q'.prev[lists[h1][i]] = q.prev[lists[h1][i]]
      BY <1>9
    <2>3. LinkedAs(q, h1, lists[h1]) /\ lists[h1] \in Seq(Node)
      BY <1>1
    <2>4. \A i, j \in 1 .. Len(lists[h1]) : lists[h1][i] = lists[h1][j] => i = j
      BY <1>10
    <2> QED
      BY <2>1, <2>2, <2>3, <2>4, Rehung
  <1>13. ASSUME NEW g \in QHead \ {h1, h2} PROVE LinkedAs(q', g, lists[g])
    <2>1. LinkedAs(q, g, lists[g]) /\ q'.first[g] = q.first[g] /\ q'.last[g] = q.last[g] /\ q'.next = q.next
      BY <1>1, <1>6 DEF Exchanged
    <2>2. \A i \in 1 .. Len(lists[g]) : q'.prev[lists[g][i]] = q.prev[lists[g][i]]
      BY <1>9
    <2> QED
      BY <2>1, <2>2 DEF LinkedAs, Ends, Forward, Backward
  <1>14. \A g \in QHead : LinkedAs(q', g, lists'[g])
    BY <1>3, <1>11, <1>12, <1>13
  <1> QED
    BY <1>3, <1>6, <1>8, <1>14 DEF ListInv, Exchanged

-----------------------------------------------------------------------------
(* Every macro keeps the invariant. *)

(* One case for each macro. *)
LEMMA ListStep ==
  ASSUME ListInv(q, lists), List!Next
  PROVE  ListInv(q', lists')
  <1>1. PICK h \in QHead :
          \/ \E e \in Node :
               \/ List!InsertTail(h, e) \/ List!InsertHead(h, e) \/ List!Unlink(h, e)
               \/ \E l \in Node : List!InsertAfter(h, l, e) \/ List!InsertBefore(h, l, e)
          \/ \E g \in QHead : List!Concat(h, g) \/ List!Swap(h, g)
    BY DEF List!Next
  <1>2. CASE \E e \in Node : List!InsertTail(h, e)
    BY <1>2, InsertTailStep
  <1>3. CASE \E e \in Node : List!InsertHead(h, e)
    BY <1>3, InsertHeadStep
  <1>4. CASE \E e \in Node : List!Unlink(h, e)
    BY <1>4, UnlinkStep
  <1>5. CASE \E e, l \in Node : List!InsertAfter(h, l, e)
    BY <1>5, InsertAfterStep
  <1>6. CASE \E e, l \in Node : List!InsertBefore(h, l, e)
    BY <1>6, InsertBeforeStep
  <1>7. CASE \E g \in QHead : List!Concat(h, g)
    BY <1>7, ConcatStep
  <1>8. CASE \E g \in QHead : List!Swap(h, g)
    BY <1>8, SwapStep
  <1> QED
    BY <1>1, <1>2, <1>3, <1>4, <1>5, <1>6, <1>7, <1>8

(* The heads of TAILQ_HEAD_INITIALIZER are empty lists, whatever malloc    *)
(* left in the elements.                                                   *)
LEMMA ListInit ==
  ASSUME List!Init
  PROVE  ListInv(q, lists)
  <1>1. PICK next \in [Node -> Pointer], prev \in [Node -> Address] :
          q = [first |-> [h \in QHead |-> NULL], last |-> [h \in QHead |-> h], next |-> next, prev |-> prev]
    BY DEF List!Init, List!Pointer, List!Address, Pointer, Address
  <1>2. q \in Queue /\ \A h \in QHead : q.first[h] = NULL /\ q.last[h] = h
    BY <1>1 DEF Queue, Pointer, Address
  <1>3. lists \in [QHead -> Seq(Node)] /\ \A h \in QHead : lists[h] = << >>
    BY DEF List!Init
  <1>4. Apart(lists)
    BY <1>3 DEF Apart
  <1>5. \A h \in QHead : LinkedAs(q, h, << >>)
    BY <1>2 DEF LinkedAs, Ends, Forward, Backward
  <1> QED
    BY <1>2, <1>3, <1>4, <1>5 DEF ListInv

PartInv == part = "list" => ListInv(q, lists)

(* The invariant of the tail queues, in the composition of the parts. *)
LEMMA PartInvariant == Spec => []PartInv
  <1>1. Init => PartInv
    BY ListInit DEF Init, PartInv
  <1>2. PartInv /\ [Next]_vars => PartInv'
    <2> SUFFICES ASSUME PartInv, [Next]_vars, part' = "list" PROVE ListInv(q', lists')
      BY DEF PartInv
    <2>1. CASE part = "list" /\ List!Next /\ UNCHANGED <<part, gather, parse>>
      BY <2>1, ListStep DEF PartInv
    <2>2. CASE UNCHANGED vars
      BY <2>2 DEF vars, list, PartInv
    <2> QED
      BY <2>1, <2>2 DEF Next
  <1> QED
    BY <1>1, <1>2, PTL DEF Spec

(* No macro of queue.h stores anything but a pointer to an element or the  *)
(* address of a link field, and no element comes to be in two places, for  *)
(* any number of heads and elements.                                       *)
THEOREM QueueTypes == Spec => []TypeOK
  <1>1. PartInv => TypeOK
    BY ListInvIs DEF PartInv, TypeOK
  <1> QED
    BY <1>1, PartInvariant, PTL

(* Whatever is inserted, removed, joined and exchanged in whatever order,  *)
(* tqh_first, tqh_last, tqe_next and tqe_prev are those of the sequences   *)
(* the program means, for any number of heads and elements.                *)
THEOREM QueueListsAreLinked == Spec => []ListsAreLinked
  <1>1. PartInv => ListsAreLinked
    BY ListInvIs DEF PartInv, ListsAreLinked
  <1> QED
    BY <1>1, PartInvariant, PTL


-----------------------------------------------------------------------------
(* The loops. *)

(* Induction over the numbers, with the property as a set. *)
LEMMA NumberInduction ==
  ASSUME NEW T, 0 \in T, \A n \in Nat : n \in T => n + 1 \in T
  PROVE  \A n \in Nat : n \in T
  <1> SUFFICES ASSUME Nat \ T # {} PROVE FALSE
    OBVIOUS
  <1>1. PICK x \in Nat \ T : \A y \in Nat \ T : <<y, x>> \notin OpToRel(<, Nat)
    BY WFMin, NatLessThanWellFounded
  <1>2. \A y \in Nat \ T : ~ (y < x)
    BY <1>1 DEF OpToRel
  <1>3. x # 0 /\ x - 1 \in Nat
    OBVIOUS
  <1>4. x - 1 \in T
    BY <1>2, <1>3
  <1> QED
    BY <1>3, <1>4

(* A list has no more elements than there are. *)
LEMMA ShortList ==
  ASSUME NEW s \in Seq(Node), \A i, j \in 1 .. Len(s) : s[i] = s[j] => i = j
  PROVE  Len(s) <= Cardinality(Node) /\ Cardinality(Node) \in Nat
  <1>1. s \in Injection(1 .. Len(s), Node)
    <2>1. s \in [1 .. Len(s) -> Node]
      OBVIOUS
    <2> QED
      BY <2>1 DEF Injection, IsInjective
  <1>2. Cardinality(1 .. Len(s)) <= Cardinality(Node)
    BY <1>1, FS_Injection, QueueAssumption
  <1>3. Len(s) \in Nat
    OBVIOUS
  <1>4. Cardinality(1 .. Len(s)) = Len(s)
    <2> DEFINE n == Len(s)
    <2> HIDE DEF n
    <2>1. n \in Nat
      BY <1>3 DEF n
    <2>2. Cardinality(1 .. n) = IF 1 > n THEN 0 ELSE n - 1 + 1
      BY <2>1, FS_Interval
    <2>3. Cardinality(1 .. n) = n
      BY <2>1, <2>2
    <2> QED
      BY <2>3 DEF n
  <1> QED
    BY <1>2, <1>4, FS_CardinalityType, QueueAssumption

(* The elements of s, one behind the other. *)
Chain(s, start, step) ==
  /\ Len(s) = 0 => start = NULL
  /\ Len(s) > 0 => start = s[1]
  /\ \A i \in 1 .. Len(s) : /\ i = Len(s) => step[s[i]] = NULL
                            /\ i < Len(s) => step[s[i]] = s[i + 1]

(* A loop that starts at the first element of a chain visits the chain. *)
LEMMA WalkIs ==
  ASSUME NEW s \in Seq(Node), \A i, j \in 1 .. Len(s) : s[i] = s[j] => i = j,
         NEW start, NEW step, Chain(s, start, step)
  PROVE  List!Walk(start, step) = s
  <1> DEFINE at[k \in Nat] == IF k = 0 THEN start
                              ELSE IF at[k - 1] = NULL THEN NULL ELSE step[at[k - 1]]
             n == Len(s)
             w == [k \in Nat |-> IF k < n THEN s[k + 1] ELSE NULL]
             N == Cardinality(Node)
  <1>1. /\ n \in Nat /\ N \in Nat /\ n <= N /\ s \in [1 .. n -> Node]
        /\ \A i \in 1 .. n : s[i] \in Node /\ s[i] # NULL
    BY ShortList, QueueAssumption
  <1>2. /\ n = 0 => start = NULL
        /\ n > 0 => start = s[1]
        /\ \A i \in 1 .. n : /\ i = n => step[s[i]] = NULL
                             /\ i < n => step[s[i]] = s[i + 1]
    BY DEF Chain
  <1>3. List!Walk(start, step) = [k \in {i \in 1 .. N + 1 : at[i - 1] # NULL} |-> at[k - 1]]
    BY DEF List!Walk, List!Cardinality, Cardinality
  <1> HIDE DEF n, N
  <1>4. w = [k \in Nat |-> IF k = 0 THEN start ELSE IF w[k - 1] = NULL THEN NULL ELSE step[w[k - 1]]]
    <2>1. ASSUME NEW k \in Nat
          PROVE  w[k] = IF k = 0 THEN start ELSE IF w[k - 1] = NULL THEN NULL ELSE step[w[k - 1]]
      <3>1. CASE k = 0
        BY <1>1, <1>2, <3>1
      <3>2. CASE k # 0
        <4>1. k - 1 \in Nat /\ (k - 1) + 1 = k
          BY <3>2
        <4>2. w[k - 1] = IF k - 1 < n THEN s[k] ELSE NULL
          BY <4>1
        <4>3. CASE k - 1 < n
          <5>1. k \in 1 .. n /\ (k = n \/ k < n)
            BY <1>1, <3>2, <4>1, <4>3
          <5>2. w[k - 1] = s[k] /\ s[k] # NULL
            BY <1>1, <4>2, <4>3, <5>1
          <5>3. w[k] = step[s[k]]
            BY <1>1, <1>2, <5>1
          <5> HIDE DEF w
          <5> QED
            BY <3>2, <5>2, <5>3
        <4>4. CASE ~ (k - 1 < n)
          <5>1. w[k - 1] = NULL /\ w[k] = NULL
            BY <1>1, <3>2, <4>1, <4>2, <4>4
          <5> HIDE DEF w
          <5> QED
            BY <3>2, <5>1
        <4> QED
          BY <4>3, <4>4
      <3> QED
        BY <3>1, <3>2
    <2>2. w = [k \in Nat |-> w[k]]
      OBVIOUS
    <2> HIDE DEF w
    <2> QED
      BY <2>1, <2>2
  <1>5. at = [k \in Nat |-> IF k = 0 THEN start ELSE IF at[k - 1] = NULL THEN NULL ELSE step[at[k - 1]]]
    BY <1>4
  <1>6. \A k \in Nat : w[k] = IF k = 0 THEN start ELSE IF w[k - 1] = NULL THEN NULL ELSE step[w[k - 1]]
    <2> HIDE DEF w
    <2> QED
      BY <1>4
  <1>7. \A k \in Nat : /\ k < n => w[k] = s[k + 1] /\ w[k] # NULL
                       /\ ~ (k < n) => w[k] = NULL
    BY <1>1
  <1> HIDE DEF at, w
  <1>8. \A k \in Nat : at[k] = IF k = 0 THEN start
                               ELSE IF at[k - 1] = NULL THEN NULL ELSE step[at[k - 1]]
    BY <1>5
  <1> DEFINE T == {k \in Nat : at[k] = w[k]}
  <1>9. 0 \in T
    BY <1>6, <1>8
  <1>10. \A k \in Nat : k \in T => k + 1 \in T
    <2> SUFFICES ASSUME NEW k \in Nat, at[k] = w[k] PROVE at[k + 1] = w[k + 1]
      OBVIOUS
    <2>1. k + 1 \in Nat /\ k + 1 # 0 /\ (k + 1) - 1 = k
      OBVIOUS
    <2> QED
      BY <1>6, <1>8, <2>1
  <1>11. \A k \in Nat : k \in T
    <2> HIDE DEF T
    <2> QED
      BY <1>9, <1>10, NumberInduction
  <1>12. \A k \in Nat : at[k] = w[k]
    BY <1>11
  <1>13. {i \in 1 .. N + 1 : at[i - 1] # NULL} = 1 .. n
    <2>1. ASSUME NEW i \in 1 .. N + 1 PROVE at[i - 1] # NULL <=> i \in 1 .. n
      <3>1. i - 1 \in Nat /\ (i - 1 < n <=> i \in 1 .. n)
        BY <1>1
      <3> QED
        BY <1>7, <1>12, <3>1
    <2>2. \A i \in 1 .. n : i \in 1 .. N + 1
      BY <1>1
    <2> QED
      BY <2>1, <2>2
  <1>14. \A k \in 1 .. n : at[k - 1] = s[k]
    <2> SUFFICES ASSUME NEW k \in 1 .. n PROVE at[k - 1] = s[k]
      OBVIOUS
    <2>1. k - 1 \in Nat /\ k - 1 < n /\ (k - 1) + 1 = k
      BY <1>1
    <2> QED
      BY <1>7, <1>12, <2>1
  <1>15. [k \in 1 .. n |-> at[k - 1]] = s
    BY <1>1, <1>14
  <1> QED
    BY <1>3, <1>13, <1>15


(* TAILQ_FOREACH follows tqe_next, and the list is a chain of it. *)
LEMMA ForeachIs ==
  ASSUME NEW m, NEW ls, ListInv(m, ls), NEW h \in QHead
  PROVE  List!TAILQ_FOREACH(m, h) = ls[h]
  <1>1. /\ ls[h] \in Seq(Node) /\ LinkedAs(m, h, ls[h])
        /\ \A i, j \in 1 .. Len(ls[h]) : ls[h][i] = ls[h][j] => i = j
    BY DEF ListInv, Apart
  <1>2. Chain(ls[h], m.first[h], m.next)
    BY <1>1 DEF LinkedAs, Ends, Forward, Chain
  <1> QED
    BY <1>1, <1>2, WalkIs DEF List!TAILQ_FOREACH, List!TAILQ_FIRST

(* What TAILQ_LAST and TAILQ_PREV find through the casts. *)
LEMMA PrevIs ==
  ASSUME NEW m, NEW ls, ListInv(m, ls), NEW h \in QHead
  PROVE  /\ Len(ls[h]) = 0 => List!TAILQ_LAST(m, h) = NULL
         /\ Len(ls[h]) > 0 => List!TAILQ_LAST(m, h) = ls[h][Len(ls[h])]
         /\ \A i \in 1 .. Len(ls[h]) : /\ i = 1 => List!TAILQ_PREV(m, ls[h][i]) = NULL
                                       /\ i > 1 => List!TAILQ_PREV(m, ls[h][i]) = ls[h][i - 1]
  <1> DEFINE s == ls[h]
             n == Len(s)
  <1>1. s \in Seq(Node) /\ LinkedAs(m, h, s)
    BY DEF ListInv
  <1>2. n \in Nat /\ \A i \in 1 .. n : s[i] \in Node /\ s[i] \notin QHead
    BY <1>1, QueueAssumption
  <1>3. /\ n = 0 => m.first[h] = NULL /\ m.last[h] = h
        /\ n > 0 => m.first[h] = s[1] /\ m.last[h] = s[n]
    BY <1>1 DEF LinkedAs, Ends
  <1>4. \A i \in 1 .. n : /\ i = n => m.next[s[i]] = NULL
                          /\ i < n => m.next[s[i]] = s[i + 1]
    BY <1>1 DEF LinkedAs, Forward
  <1>5. \A i \in 1 .. n : /\ i = 1 => m.prev[s[i]] = h
                          /\ i > 1 => m.prev[s[i]] = s[i - 1]
    BY <1>1 DEF LinkedAs, Backward
  <1> SUFFICES /\ n = 0 => List!TAILQ_LAST(m, h) = NULL
               /\ n > 0 => List!TAILQ_LAST(m, h) = s[n]
               /\ \A i \in 1 .. n : /\ i = 1 => List!TAILQ_PREV(m, s[i]) = NULL
                                    /\ i > 1 => List!TAILQ_PREV(m, s[i]) = s[i - 1]
    OBVIOUS
  <1> HIDE DEF s, n
  <1>6. ASSUME NEW i \in 1 .. n PROVE List!Load(m, m.prev[s[i]]) = s[i]
    <2>1. CASE i = 1
      BY <1>2, <1>3, <1>5, <1>6, <2>1 DEF List!Load
    <2>2. CASE i > 1
      <3>1. i - 1 \in 1 .. n /\ i - 1 < n /\ (i - 1) + 1 = i
        BY <1>2, <1>6, <2>2
      <3>2. m.next[s[i - 1]] = s[i]
        BY <1>4, <3>1
      <3> QED
        BY <1>2, <1>5, <2>2, <3>1, <3>2 DEF List!Load
    <2> QED
      BY <2>1, <2>2
  <1>7. n = 0 => List!TAILQ_LAST(m, h) = NULL
    BY <1>3 DEF List!TAILQ_LAST, List!Second, List!Load
  <1>8. n > 0 => List!TAILQ_LAST(m, h) = s[n]
    <2>1. n > 0 => n \in 1 .. n
      BY <1>2
    <2> QED
      BY <1>2, <1>3, <1>6, <2>1 DEF List!TAILQ_LAST, List!Second
  <1>9. ASSUME NEW i \in 1 .. n
        PROVE  /\ i = 1 => List!TAILQ_PREV(m, s[i]) = NULL
               /\ i > 1 => List!TAILQ_PREV(m, s[i]) = s[i - 1]
    <2>1. CASE i = 1
      <3>1. m.prev[s[i]] = h /\ m.last[h] = s[n] /\ n \in 1 .. n
        BY <1>2, <1>3, <1>5, <2>1
      <3>2. m.next[s[n]] = NULL /\ s[n] \notin QHead
        BY <1>2, <1>4, <3>1
      <3>3. List!TAILQ_PREV(m, s[i]) = NULL
        BY <3>1, <3>2 DEF List!TAILQ_PREV, List!Second, List!Load
      <3> QED
        BY <2>1, <3>3
    <2>2. CASE i > 1
      <3>1. i - 1 \in 1 .. n /\ m.prev[s[i]] = s[i - 1]
        BY <1>2, <1>5, <2>2
      <3>2. List!TAILQ_PREV(m, s[i]) = List!Load(m, m.prev[s[i - 1]])
        BY <1>2, <3>1 DEF List!TAILQ_PREV, List!Second
      <3> QED
        BY <1>6, <2>2, <3>1, <3>2
    <2> QED
      BY <2>1, <2>2
  <1> QED
    BY <1>7, <1>8, <1>9

(* TAILQ_FOREACH_REVERSE follows TAILQ_PREV, and the list reversed is a    *)
(* chain of it.                                                            *)
LEMMA ForeachReverseIs ==
  ASSUME NEW m, NEW ls, ListInv(m, ls), NEW h \in QHead
  PROVE  List!TAILQ_FOREACH_REVERSE(m, h) = List!Reverse(ls[h])
  <1> DEFINE s == ls[h]
             n == Len(s)
             t == List!Reverse(s)
             step == [e \in Node |-> List!TAILQ_PREV(m, e)]
  <1>1. s \in Seq(Node) /\ \A i, j \in 1 .. n : s[i] = s[j] => i = j
    BY DEF ListInv, Apart
  <1>2. n \in Nat /\ \A i \in 1 .. n : s[i] \in Node
    BY <1>1
  <1>3. /\ n = 0 => List!TAILQ_LAST(m, h) = NULL
        /\ n > 0 => List!TAILQ_LAST(m, h) = s[n]
        /\ \A i \in 1 .. n : /\ i = 1 => List!TAILQ_PREV(m, s[i]) = NULL
                             /\ i > 1 => List!TAILQ_PREV(m, s[i]) = s[i - 1]
    BY PrevIs
  <1>4. t = [i \in 1 .. n |-> s[(n - i) + 1]]
    BY DEF List!Reverse
  <1>5. List!TAILQ_FOREACH_REVERSE(m, h) = List!Walk(List!TAILQ_LAST(m, h), step)
    BY DEF List!TAILQ_FOREACH_REVERSE
  <1> HIDE DEF s, n, t
  <1>6. \A i \in 1 .. n : (n - i) + 1 \in 1 .. n
    BY <1>2
  <1>7. /\ t \in [1 .. n -> Node]
        /\ \A i \in 1 .. n : t[i] = s[(n - i) + 1]
    BY <1>2, <1>4, <1>6
  <1>8. t \in Seq(Node) /\ Len(t) = n
    BY <1>2, <1>7
  <1>9. \A i, j \in 1 .. n : t[i] = t[j] => i = j
    <2> SUFFICES ASSUME NEW i \in 1 .. n, NEW j \in 1 .. n, t[i] = t[j] PROVE i = j
      OBVIOUS
    <2>1. (n - i) + 1 = (n - j) + 1
      BY <1>1, <1>6, <1>7
    <2> QED
      BY <1>2, <2>1
  <1>10. \A i \in 1 .. n : step[t[i]] = List!TAILQ_PREV(m, t[i])
    BY <1>7
  <1> HIDE DEF step
  <1>11. \A i \in 1 .. n : /\ i = n => step[t[i]] = NULL
                           /\ i < n => step[t[i]] = t[i + 1]
    <2> SUFFICES ASSUME NEW i \in 1 .. n
                 PROVE  /\ i = n => step[t[i]] = NULL
                        /\ i < n => step[t[i]] = t[i + 1]
      OBVIOUS
    <2> DEFINE j == (n - i) + 1
    <2>1. j \in 1 .. n /\ t[i] = s[j] /\ (i = n => j = 1) /\ (i < n => j > 1)
      BY <1>2, <1>6, <1>7
    <2>2. i < n => i + 1 \in 1 .. n /\ (n - (i + 1)) + 1 = j - 1
      BY <1>2
    <2>3. i < n => t[i + 1] = s[j - 1]
      BY <1>7, <2>2
    <2> HIDE DEF j
    <2> QED
      BY <1>3, <1>10, <2>1, <2>3
  <1>12. n > 0 => t[1] = s[n]
    <2>1. n > 0 => 1 \in 1 .. n /\ (n - 1) + 1 = n
      BY <1>2
    <2> QED
      BY <1>7, <2>1
  <1>13. Chain(t, List!TAILQ_LAST(m, h), step)
    <2>1. Len(t) = 0 => List!TAILQ_LAST(m, h) = NULL
      BY <1>3, <1>8
    <2>2. Len(t) > 0 => List!TAILQ_LAST(m, h) = t[1]
      BY <1>3, <1>8, <1>12
    <2>3. ASSUME NEW i \in 1 .. Len(t)
          PROVE  /\ i = Len(t) => step[t[i]] = NULL
                 /\ i < Len(t) => step[t[i]] = t[i + 1]
      BY <1>8, <1>11
    <2> QED
      BY <2>1, <2>2, <2>3 DEF Chain
  <1>14. \A i, j \in 1 .. Len(t) : t[i] = t[j] => i = j
    BY <1>8, <1>9
  <1>15. List!Walk(List!TAILQ_LAST(m, h), step) = t
    BY <1>8, <1>13, <1>14, WalkIs
  <1> QED
    BY <1>5, <1>15 DEF t, s

(* The loop with which cleanup joins the workers visits every element of   *)
(* the list once and in order, and the loop in reverse visits them         *)
(* backwards, for any number of heads and elements and after any sequence  *)
(* of insertions, removals, joins and exchanges.                           *)
THEOREM QueueLoopsVisitAll == Spec => []LoopsVisitAll
  <1>1. PartInv => LoopsVisitAll
    BY ForeachIs, ForeachReverseIs DEF PartInv, LoopsVisitAll, List!LoopsVisitAll
  <1> QED
    BY <1>1, PartInvariant, PTL


-----------------------------------------------------------------------------
(* The receive buffer. *)

(* The bytes are numbered: those dumped are the first, those that wait for *)
(* the rest of their packet follow them, and no newline is among these.    *)
BytesInv ==
  /\ received \in Nat /\ total_bytes_received \in Nat /\ total_bytes_received <= received
  /\ buffer_position = total_bytes_received
  /\ newlines \subseteq 1 .. received
  /\ dumped \in Seq(Nat) /\ Len(dumped) = received - total_bytes_received
  /\ \A i \in 1 .. received - total_bytes_received : dumped[i] = i
  /\ \A i \in 1 .. total_bytes_received :
       /\ buffer[i] = (received - total_bytes_received) + i
       /\ buffer[i] \notin newlines

(* A packet that has filled the room of each of its receives has made the  *)
(* block grow; of the first one the room left is BUFFER_SIZE.              *)
RoomInv ==
  /\ buffer_size \in Int /\ block \in Int /\ available_buffer \in Int /\ short \in BOOLEAN
  /\ buffer_size >= BUFFER_SIZE
  /\ total_bytes_received = 0 => available_buffer = BUFFER_SIZE /\ block = BUFFER_SIZE
  /\ dumped = << >> /\ total_bytes_received = 0 => buffer_size = BUFFER_SIZE
  /\ total_bytes_received # 0 /\ ~short => buffer_size > BUFFER_SIZE
  /\ total_bytes_received # 0 /\ ~short /\ dumped = << >> =>
       /\ block = buffer_size /\ available_buffer = BUFFER_SIZE
       /\ total_bytes_received + BUFFER_SIZE = buffer_size

GatherInv == BytesInv /\ RoomInv

(* The invariant of the receive buffer holds of the first allocation. *)
LEMMA GatherInit == Gather!Init => GatherInv
  <1> SUFFICES ASSUME Gather!Init PROVE BytesInv /\ RoomInv
    BY DEF GatherInv
  <1>1. BytesInv
    BY DEF Gather!Init, BytesInv
  <1>2. RoomInv
    <2>1. short \in BOOLEAN /\ total_bytes_received = 0
      BY DEF Gather!Init
    <2>2. buffer_size = BUFFER_SIZE /\ block = BUFFER_SIZE /\ available_buffer = BUFFER_SIZE
      BY DEF Gather!Init
    <2> QED
      BY <2>1, <2>2, PartsAssumption DEF RoomInv
  <1> QED
    BY <1>1, <1>2

(* What one receive stores behind the bytes that wait. *)
LEMMA ReceivedBytes ==
  ASSUME BytesInv, NEW n \in Nat \ {0}, NEW nl \in SUBSET (received + 1 .. received + n),
         Gather!recv(n, nl)
  PROVE  /\ received' = received + n /\ newlines' = newlines \cup nl
         /\ buffer' \in Seq(Nat) /\ Len(buffer') = total_bytes_received + n
         /\ \A i \in 1 .. total_bytes_received : buffer'[i] = buffer[i]
         /\ \A i \in 1 .. total_bytes_received + n :
              buffer'[i] = (received - total_bytes_received) + i
  <1> DEFINE w == total_bytes_received
             a == SubSeq(buffer, 1, w)
             b == [i \in 1 .. n |-> received + i]
             t == a \o b
  <1>1. w \in Nat /\ received \in Nat /\ \A i \in 1 .. w : buffer[i] \in Nat /\ buffer[i] = (received - w) + i
    BY DEF BytesInv
  <1>2. a \in Seq(Nat) /\ Len(a) = w /\ \A i \in 1 .. w : a[i] = buffer[i]
    <2> HIDE DEF w
    <2>1. /\ a \in Seq(Nat) /\ Len(a) = IF 1 <= w THEN w - 1 + 1 ELSE 0
          /\ \A i \in 1 .. w - 1 + 1 : a[i] = buffer[1 + i - 1]
      BY <1>1, SubSeqProperties
    <2> HIDE DEF a
    <2> QED
      BY <1>1, <2>1
  <1>3. b \in Seq(Nat) /\ Len(b) = n /\ \A i \in 1 .. n : b[i] = received + i
    <2>1. \A i \in 1 .. n : received + i \in Nat
      BY <1>1
    <2> QED
      BY <2>1
  <1>4. buffer' = t /\ received' = received + n /\ newlines' = newlines \cup nl
    BY DEF Gather!recv
  <1> HIDE DEF w, a, b
  <1>5. /\ t \in Seq(Nat) /\ Len(t) = w + n
        /\ \A i \in 1 .. w + n : t[i] = IF i <= w THEN a[i] ELSE b[i - w]
    <2>1. /\ t \in Seq(Nat) /\ Len(t) = Len(a) + Len(b)
          /\ \A i \in 1 .. Len(a) + Len(b) : t[i] = IF i <= Len(a) THEN a[i] ELSE b[i - Len(a)]
      BY <1>2, <1>3, ConcatProperties
    <2> HIDE DEF t
    <2> QED
      BY <1>2, <1>3, <2>1
  <1> HIDE DEF t
  <1>6. ASSUME NEW i \in 1 .. w PROVE t[i] = buffer[i]
    <2>1. i \in 1 .. w + n /\ i <= w
      BY <1>1
    <2> QED
      BY <1>2, <1>5, <2>1
  <1>7. ASSUME NEW i \in 1 .. w + n PROVE t[i] = (received - w) + i
    <2>1. CASE i <= w
      <3>1. i \in 1 .. w
        BY <1>1, <2>1
      <3> QED
        BY <1>1, <1>6, <3>1
    <2>2. CASE ~ (i <= w)
      <3>1. i - w \in 1 .. n /\ received + (i - w) = (received - w) + i
        BY <1>1, <2>2
      <3>2. t[i] = b[i - w]
        BY <1>5, <2>2
      <3> QED
        BY <1>3, <3>1, <3>2
    <2> QED
      BY <2>1, <2>2
  <1> QED
    BY <1>4, <1>5, <1>6, <1>7 DEF w

(* Every receive keeps the bytes in order, whether it ends a packet or not. *)
LEMMA BytesStep ==
  ASSUME BytesInv, NEW n \in Nat \ {0}, NEW nl \in SUBSET (received + 1 .. received + n),
         Gather!recv(n, nl)
  PROVE  BytesInv' /\ (Gather!Dump(n) => dumped' # << >>)
  <1> DEFINE w == total_bytes_received
             d == received - w
  <1>1. /\ w \in Nat /\ received \in Nat /\ w <= received /\ d \in Nat /\ newlines \subseteq 1 .. received
        /\ buffer_position = w /\ dumped \in Seq(Nat) /\ Len(dumped) = d
        /\ \A i \in 1 .. d : dumped[i] = i
        /\ \A i \in 1 .. w : buffer[i] = d + i /\ buffer[i] \notin newlines
    BY DEF BytesInv
  <1>2. /\ received' = received + n /\ newlines' = newlines \cup nl
        /\ buffer' \in Seq(Nat) /\ Len(buffer') = w + n
        /\ \A i \in 1 .. w : buffer'[i] = buffer[i]
        /\ \A i \in 1 .. w + n : buffer'[i] = d + i
    BY ReceivedBytes
  <1>3. received' \in Nat /\ newlines' \subseteq 1 .. received'
    BY <1>1, <1>2
  <1>4. IF Gather!find_delimter_position(buffer', buffer_position, n, newlines')
          THEN Gather!Dump(n) ELSE Gather!More(n)
    BY DEF Gather!recv
  <1>5. ASSUME Gather!Dump(n) PROVE BytesInv' /\ dumped' # << >>
    <2> DEFINE c == SubSeq(buffer', 1, w + n)
               t == dumped \o c
    <2>1. c = buffer'
      BY <1>2, SubSeqFull
    <2>2. dumped' = dumped \o buffer' /\ total_bytes_received' = 0 /\ buffer_position' = 0
      BY <1>5, <2>1 DEF Gather!Dump
    <2> HIDE DEF w, d, c
    <2>3. /\ dumped' \in Seq(Nat) /\ Len(dumped') = d + (w + n)
          /\ \A i \in 1 .. d + (w + n) : dumped'[i] = IF i <= d THEN dumped[i] ELSE buffer'[i - d]
      <3> DEFINE b == buffer'
      <3>1. b \in Seq(Nat) /\ Len(b) = w + n /\ dumped' = dumped \o b
        BY <1>2, <2>2
      <3> HIDE DEF b
      <3>2. /\ dumped \o b \in Seq(Nat) /\ Len(dumped \o b) = Len(dumped) + Len(b)
            /\ \A i \in 1 .. Len(dumped) + Len(b) :
                 (dumped \o b)[i] = IF i <= Len(dumped) THEN dumped[i] ELSE b[i - Len(dumped)]
        BY <1>1, <3>1, ConcatProperties, ZenonT(30)
      <3> QED
        BY <1>1, <3>1, <3>2 DEF b
    <2>4. d + (w + n) = received' /\ received' - 0 = received' /\ received' > 0
      BY <1>1, <1>2 DEF d
    <2>5. ASSUME NEW i \in 1 .. received' PROVE dumped'[i] = i
      <3>1. i \in 1 .. d + (w + n)
        BY <2>4
      <3>2. CASE i <= d
        BY <1>1, <2>3, <3>1, <3>2
      <3>3. CASE ~ (i <= d)
        <4>1. i - d \in 1 .. w + n /\ d + (i - d) = i
          BY <1>1, <3>1, <3>3
        <4> QED
          BY <1>2, <2>3, <3>1, <3>3, <4>1
      <3> QED
        BY <3>2, <3>3
    <2>6. dumped' # << >>
      BY <2>3, <2>4
    <2>7. /\ Len(dumped') = received' - total_bytes_received'
          /\ \A i \in 1 .. received' - total_bytes_received' : dumped'[i] = i
          /\ \A i \in 1 .. total_bytes_received' :
               /\ buffer'[i] = (received' - total_bytes_received') + i
               /\ buffer'[i] \notin newlines'
          /\ total_bytes_received' \in Nat /\ total_bytes_received' <= received'
      <3>1. total_bytes_received' = 0 /\ received' \in Nat
        BY <1>3, <2>2
      <3>2. \A r \in Nat : r - 0 = r /\ 0 <= r
        OBVIOUS
      <3>3. \A i \in 1 .. 0 : FALSE
        OBVIOUS
      <3> QED
        BY <2>3, <2>4, <2>5, <3>1, <3>2, <3>3
    <2> QED
      BY <1>3, <2>2, <2>3, <2>6, <2>7 DEF BytesInv
  <1>6. ASSUME Gather!More(n), ~ Gather!find_delimter_position(buffer', buffer_position, n, newlines')
        PROVE  BytesInv'
    <2>1. dumped' = dumped /\ total_bytes_received' = w + n /\ buffer_position' = w + n
      BY <1>1, <1>6 DEF Gather!More
    <2>2. \A i \in w + 1 .. w + n : buffer'[i] \notin newlines'
      BY <1>1, <1>6 DEF Gather!find_delimter_position
    <2> HIDE DEF w
    <2>3. ASSUME NEW i \in 1 .. w PROVE buffer'[i] \notin newlines'
      <3>1. buffer'[i] = d + i /\ d + i \notin newlines /\ d + i <= received
        <4>1. i \in 1 .. w + n /\ d + i <= received
          BY <1>1
        <4> HIDE DEF d
        <4> QED
          BY <1>1, <1>2, <4>1
      <3>2. d + i \notin nl
        BY <1>1, <3>1
      <3> QED
        BY <1>2, <3>1, <3>2
    <2>4. ASSUME NEW i \in 1 .. w + n PROVE buffer'[i] \notin newlines'
      <3>1. i \in 1 .. w \/ i \in w + 1 .. w + n
        BY <1>1
      <3> QED
        BY <2>2, <2>3, <3>1
    <2>5. received' - total_bytes_received' = d /\ total_bytes_received' \in Nat
          /\ total_bytes_received' <= received'
      BY <1>1, <1>2, <2>1
    <2> HIDE DEF d
    <2> QED
      BY <1>1, <1>2, <1>3, <2>1, <2>4, <2>5 DEF BytesInv
  <1>7. ASSUME Gather!More(n) PROVE ~ Gather!Dump(n)
    <2>1. total_bytes_received' = w + n
      BY <1>7 DEF Gather!More
    <2>2. Gather!Dump(n) => total_bytes_received' = 0
      BY DEF Gather!Dump
    <2> QED
      BY <1>1, <2>1, <2>2
  <1> QED
    BY <1>4, <1>5, <1>6, <1>7


(* Every receive keeps what is known of the room, and a receive of the     *)
(* first packet stays inside the block while all of them are full.         *)
LEMMA RoomStep ==
  ASSUME BytesInv, RoomInv, NEW n \in 1 .. available_buffer,
         NEW nl \in SUBSET (received + 1 .. received + n), Gather!recv(n, nl)
  PROVE  RoomInv' /\ Gather!FullReceiveFits
  <1> DEFINE w == total_bytes_received
             B == BUFFER_SIZE
  <1>1. /\ buffer_size \in Int /\ block \in Int /\ available_buffer \in Int /\ short \in BOOLEAN
        /\ w \in Nat /\ B \in Nat \ {0} /\ n \in Nat \ {0} /\ n <= available_buffer /\ buffer_position = w
    BY PartsAssumption DEF BytesInv, RoomInv
  <1>2. /\ buffer_size >= B
        /\ w = 0 => available_buffer = B /\ block = B
        /\ dumped = << >> /\ w = 0 => buffer_size = B
        /\ w # 0 /\ ~short => buffer_size > B
        /\ w # 0 /\ ~short /\ dumped = << >> =>
             block = buffer_size /\ available_buffer = B /\ w + B = buffer_size
    BY DEF RoomInv
  <1>3. /\ short' \in BOOLEAN
        /\ ~ short' => n = available_buffer /\ (w = 0 \/ ~short)
    <2>1. short' = (n < available_buffer \/ (short /\ w # 0))
      BY DEF Gather!recv
    <2>2. ~ (n < available_buffer) => n = available_buffer
      BY <1>1
    <2> HIDE DEF w
    <2> QED
      BY <2>1, <2>2
  <1>4. BytesInv' /\ (Gather!Dump(n) => dumped' # << >>)
    BY <1>1, BytesStep
  <1> HIDE DEF w, B
  <1>5. ASSUME Gather!Dump(n) PROVE RoomInv'
    <2>1. /\ block' = B /\ available_buffer' = B /\ total_bytes_received' = 0
          /\ buffer_size' = buffer_size /\ dumped' # << >>
      BY <1>4, <1>5 DEF Gather!Dump, B
    <2> QED
      BY <1>1, <1>2, <1>3, <2>1 DEF RoomInv, B
  <1>6. ASSUME Gather!More(n) PROVE RoomInv'
    <2>1. /\ total_bytes_received' = w + n /\ dumped' = dumped
          /\ w + n = buffer_size => /\ buffer_size' = buffer_size + B
                                    /\ block' = buffer_size + B
                                    /\ available_buffer' = buffer_size' - (w + n)
          /\ w + n # buffer_size => /\ buffer_size' = buffer_size
                                    /\ block' = block
                                    /\ available_buffer' = buffer_size - n
      BY <1>1, <1>6 DEF Gather!More, B, w
    <2>2. w + n \in Nat /\ w + n # 0
      BY <1>1
    <2>3. buffer_size' \in Int /\ block' \in Int /\ available_buffer' \in Int /\ buffer_size' >= B
      BY <1>1, <1>2, <2>1, <2>2
    <2>4. ASSUME ~ short' PROVE buffer_size' > B
      <3>1. CASE w = 0
        BY <1>1, <1>2, <1>3, <2>1, <2>4, <3>1
      <3>2. CASE w # 0
        BY <1>1, <1>2, <1>3, <2>1, <2>4, <3>2
      <3> QED
        BY <3>1, <3>2
    <2>5. ASSUME ~ short', dumped = << >>
          PROVE  block' = buffer_size' /\ available_buffer' = B /\ (w + n) + B = buffer_size'
      <3>1. CASE w = 0
        BY <1>1, <1>2, <1>3, <2>1, <2>5, <3>1
      <3>2. CASE w # 0
        BY <1>1, <1>2, <1>3, <2>1, <2>5, <3>2
      <3> QED
        BY <3>1, <3>2
    <2>6. total_bytes_received' # 0
      BY <2>1, <2>2
    <2> QED
      BY <1>3, <2>1, <2>3, <2>4, <2>5, <2>6 DEF RoomInv, B
  <1>7. Gather!FullReceiveFits
    <2>1. overflow' => w + n > block
      BY DEF Gather!recv, w
    <2> SUFFICES ASSUME w + n > block,
                        ~ (short /\ w # 0), ~ (dumped # << >> /\ buffer_size > B)
                 PROVE  FALSE
      BY <2>1 DEF Gather!FullReceiveFits, w, B
    <2>2. CASE w = 0
      BY <1>1, <1>2, <2>2
    <2>3. CASE w # 0
      BY <1>1, <1>2, <2>3
    <2> QED
      BY <2>2, <2>3
  <1> QED
    BY <1>5, <1>6, <1>7 DEF Gather!recv

(* A receive keeps it, and a receive that fills the buffer fits its block. *)
LEMMA GatherStep ==
  ASSUME GatherInv, Gather!Next
  PROVE  GatherInv' /\ Gather!FullReceiveFits
  <1>1. PICK n \in 1 .. available_buffer :
          \E nl \in SUBSET (received + 1 .. received + n) : Gather!recv(n, nl)
    BY DEF Gather!Next
  <1>2. PICK nl \in SUBSET (received + 1 .. received + n) : Gather!recv(n, nl)
    BY <1>1
  <1>3. n \in Nat \ {0}
    BY DEF GatherInv, RoomInv
  <1>4. BytesInv'
    BY <1>2, <1>3, BytesStep DEF GatherInv
  <1>5. RoomInv' /\ Gather!FullReceiveFits
    BY <1>2, RoomStep DEF GatherInv
  <1> QED
    BY <1>4, <1>5 DEF GatherInv

GatherPartInv == part = "gather" => GatherInv

(* The same for the composition of the parts. *)
LEMMA GatherPartStep ==
  ASSUME GatherPartInv, [Next]_vars
  PROVE  GatherPartInv' /\ [part = "gather" => Gather!FullReceiveFits]_vars
  <1>1. CASE part = "gather" /\ Gather!Next /\ UNCHANGED <<part, list, parse>>
    BY <1>1, GatherStep DEF GatherPartInv
  <1>2. CASE UNCHANGED vars
    BY <1>2 DEF vars, gather, GatherPartInv, GatherInv, BytesInv, RoomInv
  <1>3. CASE part \in {"list", "parse"} /\ part' = part
    BY <1>3 DEF GatherPartInv
  <1> QED
    BY <1>1, <1>2, <1>3 DEF Next

(* The invariant of the receive buffer, in the composition of the parts.   *)
LEMMA GatherPartInvariant == Spec => []GatherPartInv
  <1>1. Init => GatherPartInv
    BY GatherInit DEF Init, GatherPartInv
  <1> QED
    BY <1>1, GatherPartStep, PTL DEF Spec

(* The bytes that are dumped and those that wait are all that came. *)
LEMMA InOrder ==
  ASSUME BytesInv
  PROVE  Gather!DumpedInOrder
  <1> DEFINE w == total_bytes_received
             d == received - w
             c == SubSeq(buffer, 1, w)
             t == dumped \o c
  <1>1. /\ w \in Nat /\ received \in Nat /\ d \in Nat /\ received = d + w /\ buffer_position = w
        /\ dumped \in Seq(Nat) /\ Len(dumped) = d /\ \A i \in 1 .. d : dumped[i] = i
        /\ \A i \in 1 .. w : buffer[i] = d + i /\ buffer[i] \in Nat /\ buffer[i] \notin newlines
    BY DEF BytesInv
  <1> HIDE DEF w, d
  <1>2. c \in Seq(Nat) /\ Len(c) = w /\ \A i \in 1 .. w : c[i] = buffer[i]
    <2>1. /\ c \in Seq(Nat) /\ Len(c) = IF 1 <= w THEN w - 1 + 1 ELSE 0
          /\ \A i \in 1 .. w - 1 + 1 : c[i] = buffer[1 + i - 1]
      BY <1>1, SubSeqProperties
    <2> HIDE DEF c
    <2> QED
      BY <1>1, <2>1
  <1>3. c = Gather!Waiting
    BY DEF Gather!Waiting, w
  <1> HIDE DEF c
  <1>4. /\ t \in Seq(Nat) /\ Len(t) = d + w
        /\ \A i \in 1 .. d + w : t[i] = IF i <= d THEN dumped[i] ELSE c[i - d]
    <2>1. /\ t \in Seq(Nat) /\ Len(t) = Len(dumped) + Len(c)
          /\ \A i \in 1 .. Len(dumped) + Len(c) :
               t[i] = IF i <= Len(dumped) THEN dumped[i] ELSE c[i - Len(dumped)]
      BY <1>1, <1>2, ConcatProperties, ZenonT(30)
    <2> HIDE DEF t
    <2> QED
      BY <1>1, <1>2, <2>1
  <1>5. t = dumped \o Gather!Waiting
    BY <1>3
  <1> HIDE DEF t
  <1>6. ASSUME NEW i \in 1 .. received PROVE t[i] = i
    <2>1. i \in 1 .. d + w
      BY <1>1
    <2>2. CASE i <= d
      BY <1>1, <1>4, <2>1, <2>2
    <2>3. CASE ~ (i <= d)
      <3>1. i - d \in 1 .. w /\ d + (i - d) = i
        BY <1>1, <2>1, <2>3
      <3> QED
        BY <1>1, <1>2, <1>4, <2>1, <2>3, <3>1
    <2> QED
      BY <2>2, <2>3
  <1>7. t = [i \in 1 .. received |-> i]
    <2>1. DOMAIN t = 1 .. received /\ t = [i \in DOMAIN t |-> t[i]]
      BY <1>1, <1>4
    <2> QED
      BY <1>6, <2>1
  <1>8. \A i \in 1 .. Len(c) : c[i] \notin newlines
    BY <1>1, <1>2
  <1> QED
    BY <1>1, <1>3, <1>5, <1>7, <1>8 DEF Gather!DumpedInOrder, w

(* However a client's packets are cut into receives, connection_worker     *)
(* dumps the bytes it received, each once and in order, and keeps none     *)
(* waiting behind a newline, for any BUFFER_SIZE and any number of bytes.  *)
THEOREM WorkerDumpedInOrder == Spec => []DumpedInOrder
  <1>1. GatherPartInv => DumpedInOrder
    BY InOrder DEF GatherPartInv, GatherInv, DumpedInOrder
  <1> QED
    BY <1>1, GatherPartInvariant, PTL

(* Although available_buffer is not what is left of the block, no receive  *)
(* goes past it in a first packet whose receives are all full, however     *)
(* long it is, for any BUFFER_SIZE and any number of bytes.                *)
THEOREM WorkerFullReceivesFit == Spec => FullReceivesFit
  <1>1. GatherPartInv /\ [Next]_vars => [part = "gather" => Gather!FullReceiveFits]_vars
    BY GatherPartStep
  <1> QED
    BY <1>1, GatherPartInvariant, PTL DEF Spec, FullReceivesFit


-----------------------------------------------------------------------------
(* The parser of seek commands. *)

(* What is proved about the parser, for its constant here. *)
Read == INSTANCE SeekCommandLemmas

(* Both instances say the same. *)
LEMMA SameParser ==
  ASSUME NEW m
  PROVE  /\ Parse!IsCommand(m) <=> Read!IsCommand(m)
         /\ Parse!WellFormed(m) <=> Read!WellFormed(m)
         /\ Parse!Numbers(m) = Read!Numbers(m)
         /\ Parse!Seeks(m) = Read!Seeks(m)
  <1>1. Parse!IsCommand(m) <=> Read!IsCommand(m)
    BY DEF Parse!IsCommand, Read!IsCommand, Parse!Length, Read!Length, Parse!Prefix, Read!Prefix
  <1>2. \A s : Parse!CommaAt(s) = Read!CommaAt(s)
    BY Zenon DEF Parse!CommaAt, Read!CommaAt, Parse!Comma, Read!Comma
  <1>3. Parse!WellFormed(m) <=> Read!WellFormed(m)
    BY <1>2 DEF Parse!WellFormed, Read!WellFormed, Parse!LineEnd, Read!LineEnd
  <1>4. \A s : Parse!Value(s) = Read!Value(s)
    BY Zenon DEF Parse!Value, Read!Value
  <1>5. Parse!Numbers(m) = Read!Numbers(m)
    BY <1>2, <1>4, Zenon DEF Parse!Numbers, Read!Numbers
  <1>6. \A s : Parse!atoi(s) = Read!atoi(s)
    BY Zenon DEF Parse!atoi, Read!atoi, Parse!LineEnd, Read!LineEnd
  <1>7. \A s : /\ Parse!StartBufferString(s) = Read!StartBufferString(s)
               /\ Parse!StartOffsetString(s) = Read!StartOffsetString(s)
    BY <1>2 DEF Parse!StartBufferString, Read!StartBufferString, Parse!StartOffsetString,
                Read!StartOffsetString, Parse!Null, Read!Null
  <1>8. Parse!BehindColon(m) = Read!BehindColon(m)
    BY Zenon DEF Parse!BehindColon, Read!BehindColon, Parse!Colon, Read!Colon, Parse!Prefix, Read!Prefix
  <1>9. Parse!ArraySize = Read!ArraySize
    BY DEF Parse!ArraySize, Read!ArraySize
  <1>10. Parse!Seeks(m) = Read!Seeks(m)
    BY <1>6, <1>7, <1>8, <1>9, Zenon DEF Parse!Seeks, Read!Seeks
  <1> QED
    BY <1>1, <1>3, <1>5, <1>10

(* A well-formed command is looked at, and can be read in one way only. *)
LEMMA CommandIsRead ==
  ASSUME NEW m \in Text, Parse!WellFormed(m)
  PROVE  Parse!IsCommand(m) /\ \A x \in Parse!Seeks(m) : x = Parse!Numbers(m)
  <1>1. m.rest \in Seq(Nat)
    <2> DEFINE r == m.rest
    <2>1. PICK l \in 3 .. 8 : r \in [1 .. l -> Digit \cup {10, 11}]
      BY DEF Text
    <2>2. Digit \cup {10, 11} \subseteq Nat
      BY PartsAssumption
    <2>3. r \in [1 .. l -> Nat]
      BY <2>1, <2>2
    <2> HIDE DEF r
    <2>4. r \in Seq(Nat)
      BY <2>3
    <2> QED
      BY <2>4 DEF r
  <1>2. Read!WellFormed(m)
    BY SameParser
  <1>3. Read!IsCommand(m) /\ \A x \in Read!Seeks(m) : x = Read!Numbers(m)
    BY <1>1, <1>2, Read!CommandIsRead
  <1> QED
    BY <1>3, SameParser

(* The invariant: the call has not been made, or has done what it should. *)
ParseInv == part = "parse" => message \in Text /\ Parse!CommandsAreRead

(* The invariant of the parser, in the composition of the parts. *)
LEMMA ParseInvariant == Spec => []ParseInv
  <1>1. Init => ParseInv
    BY DEF Init, ParseInv, Parse!Init, Parse!CommandsAreRead
  <1>2. ParseInv /\ [Next]_vars => ParseInv'
    <2> SUFFICES ASSUME ParseInv, [Next]_vars, part' = "parse" PROVE (message \in Text /\ Parse!CommandsAreRead)'
      BY DEF ParseInv
    <2>1. CASE UNCHANGED <<part, parse>>
      BY <2>1 DEF ParseInv, parse, Parse!CommandsAreRead
    <2>2. CASE part = "parse" /\ Parse!Next /\ UNCHANGED <<part, list, gather>>
      <3>1. message \in Text /\ message' = message
        BY <2>2 DEF ParseInv, Parse!Next, Parse!handle_ioctl_commainds
      <3>2. (Parse!IsCommand(message) => seek' \in Parse!Seeks(message))
            /\ (~Parse!IsCommand(message) => seek' = Parse!NoCommand)
        BY <2>2 DEF Parse!Next, Parse!handle_ioctl_commainds
      <3>3. ~message.named => seek' = Parse!NoCommand
        BY <3>2 DEF Parse!IsCommand
      <3>4. Parse!WellFormed(message) => seek' = Parse!Numbers(message)
        BY <3>1, <3>2, CommandIsRead
      <3> QED
        BY <3>1, <3>3, <3>4 DEF Parse!CommandsAreRead
    <2>3. CASE part # "parse"
      BY <2>3 DEF Next, vars
    <2> QED
      BY <2>1, <2>2, <2>3 DEF Next, vars
  <1> QED
    BY <1>1, <1>2, PTL DEF Spec

(* A well-formed seek command is read as the two numbers it holds, though  *)
(* the second string is not terminated, and data is never a command: for   *)
(* any digits, and whatever memory never written is read as.               *)
THEOREM ParserCommandsAreRead == Spec => []CommandsAreRead
  <1>1. ParseInv => CommandsAreRead
    BY DEF ParseInv, CommandsAreRead
  <1> QED
    BY <1>1, ParseInvariant, PTL
=============================================================================

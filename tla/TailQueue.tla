------------------------------ MODULE TailQueue ------------------------------
(***************************************************************************)
(* The tail queues of queue.h, pointer by pointer.  A link field is named  *)
(* by what holds it: the address of a head's tqh_first is the head, the    *)
(* address of an element's tqe_next is the element.  The tracing and       *)
(* checking macros (QMD_*, TRASHIT) are empty in this build.               *)
(***************************************************************************)
EXTENDS Naturals, Sequences, FiniteSets

CONSTANTS
  QHead,  \* the heads a program declares
  Node,  \* the elements
  NULL

ASSUME QueueAssumption == /\ IsFiniteSet(Node) /\ Node # {} /\ QHead # {}
                          /\ QHead \cap Node = {} /\ NULL \notin Node

Pointer == Node \cup {NULL}   \* struct type *
Address == QHead \cup Node     \* struct type **

(* The fields that TAILQ_HEAD and TAILQ_ENTRY declare. *)
Queue == [first : [QHead -> Pointer], last : [QHead -> Address],
          next : [Node -> Pointer], prev : [Node -> Address]]

(* *a, and *a = v. *)
Load(q, a) == IF a \in QHead THEN q.first[a] ELSE q.next[a]
Store(q, a, v) == IF a \in QHead THEN [q EXCEPT !.first[a] = v] ELSE [q EXCEPT !.next[a] = v]

(* The field behind the link at a: tqh_last of a head, tqe_prev of an      *)
(* element.  The casts in TAILQ_LAST and TAILQ_PREV rely on both structs   *)
(* having it in the same place.                                            *)
Second(q, a) == IF a \in QHead THEN q.last[a] ELSE q.prev[a]

TAILQ_FIRST(q, h) == q.first[h]
TAILQ_EMPTY(q, h) == q.first[h] = NULL
TAILQ_NEXT(q, e) == q.next[e]
TAILQ_LAST(q, h) == Load(q, Second(q, q.last[h]))
TAILQ_PREV(q, e) == Load(q, Second(q, q.prev[e]))

TAILQ_INIT(q, h) == [q EXCEPT !.first[h] = NULL, !.last[h] = h]

(* Fault: the new element does not learn who points to it. *)
TAILQ_INSERT_TAIL_NoPrev(q, h, e) ==
  [Store([q EXCEPT !.next[e] = NULL], q.last[h], e) EXCEPT !.last[h] = e]

TAILQ_INSERT_TAIL(q, h, e) ==
  LET linked == [q EXCEPT !.next[e] = NULL, !.prev[e] = q.last[h]]
  IN  [Store(linked, q.last[h], e) EXCEPT !.last[h] = e]

TAILQ_INSERT_HEAD(q, h, e) ==
  LET old    == q.first[h]
      linked == [q EXCEPT !.next[e] = old]
      behind == IF old # NULL THEN [linked EXCEPT !.prev[old] = e] ELSE [linked EXCEPT !.last[h] = e]
  IN  [behind EXCEPT !.first[h] = e, !.prev[e] = h]

TAILQ_INSERT_AFTER(q, h, l, e) ==
  LET old    == q.next[l]
      linked == [q EXCEPT !.next[e] = old]
      behind == IF old # NULL THEN [linked EXCEPT !.prev[old] = e] ELSE [linked EXCEPT !.last[h] = e]
  IN  [behind EXCEPT !.next[l] = e, !.prev[e] = l]

TAILQ_INSERT_BEFORE(q, l, e) ==
  [Store([q EXCEPT !.prev[e] = q.prev[l], !.next[e] = l], q.prev[l], e) EXCEPT !.prev[l] = e]

(* Fault: removing the last element leaves no address in tqh_last. *)
TAILQ_REMOVE_NoLast(q, h, e) ==
  LET after  == q.next[e]
      behind == IF after # NULL THEN [q EXCEPT !.prev[after] = q.prev[e]] ELSE [q EXCEPT !.last[h] = after]
  IN  Store(behind, q.prev[e], after)

TAILQ_REMOVE(q, h, e) ==
  LET after  == q.next[e]
      behind == IF after # NULL THEN [q EXCEPT !.prev[after] = q.prev[e]]
                                ELSE [q EXCEPT !.last[h] = q.prev[e]]
  IN  Store(behind, q.prev[e], after)

TAILQ_CONCAT(q, h1, h2) ==
  IF TAILQ_EMPTY(q, h2) THEN q
  ELSE LET joined == Store(q, q.last[h1], q.first[h2])
       IN  TAILQ_INIT([joined EXCEPT !.prev[q.first[h2]] = q.last[h1], !.last[h1] = q.last[h2]], h2)

(* After the exchange of the two heads, what they point to points back. *)
Repaired(q, h) == IF q.first[h] # NULL THEN [q EXCEPT !.prev[q.first[h]] = h] ELSE [q EXCEPT !.last[h] = h]

TAILQ_SWAP(q, h1, h2) ==
  LET swapped == [q EXCEPT !.first[h1] = q.first[h2], !.first[h2] = q.first[h1],
                           !.last[h1] = q.last[h2], !.last[h2] = q.last[h1]]
  IN  Repaired(Repaired(swapped, h1), h2)

(* The elements a loop visits: from start, by step, until NULL; a walk in  *)
(* a broken list is cut when it has visited more elements than there are.  *)
Walk(start, step) ==
  LET at[k \in Nat] == IF k = 0 THEN start
                       ELSE IF at[k - 1] = NULL THEN NULL ELSE step[at[k - 1]]
  IN  [k \in {i \in 1 .. Cardinality(Node) + 1 : at[i - 1] # NULL} |-> at[k - 1]]

TAILQ_FOREACH(q, h) == Walk(TAILQ_FIRST(q, h), q.next)

(* Fault: the loop over the elements in reverse starts at the head's first. *)
TAILQ_FOREACH_REVERSE_FromFirst(q, h) == Walk(q.first[h], [e \in Node |-> TAILQ_PREV(q, e)])

TAILQ_FOREACH_REVERSE(q, h) == Walk(TAILQ_LAST(q, h), [e \in Node |-> TAILQ_PREV(q, e)])
=============================================================================

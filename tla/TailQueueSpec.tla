---------------------------- MODULE TailQueueSpec ----------------------------
(***************************************************************************)
(* A program that uses tail queues as queue.h asks it to: an element is in *)
(* one list at a time, and is inserted next to, or removed from, where it  *)
(* is.  lists is what the program means; q is what its memory holds.       *)
(***************************************************************************)
EXTENDS TailQueue, SequencesExt

VARIABLES
  q,      \* the heads and the link fields of the elements
  lists   \* for each head, the elements in order

vars == <<q, lists>>

Listed(h) == Range(lists[h])
Loose(e) == \A h \in QHead : e \notin Listed(h)
Place(h, e) == CHOOSE i \in 1 .. Len(lists[h]) : lists[h][i] = e

(* The elements come from malloc: their link fields hold anything. *)
Init ==
  /\ \E next \in [Node -> Pointer], prev \in [Node -> Address] :
       q = [first |-> [h \in QHead |-> NULL], last |-> [h \in QHead |-> h], next |-> next, prev |-> prev]
  /\ lists = [h \in QHead |-> << >>]

InsertTail(h, e) ==
  /\ Loose(e)
  /\ q' = TAILQ_INSERT_TAIL(q, h, e)
  /\ lists' = [lists EXCEPT ![h] = Append(@, e)]

InsertHead(h, e) ==
  /\ Loose(e)
  /\ q' = TAILQ_INSERT_HEAD(q, h, e)
  /\ lists' = [lists EXCEPT ![h] = <<e>> \o @]

InsertAfter(h, l, e) ==
  /\ Loose(e) /\ l \in Listed(h)
  /\ q' = TAILQ_INSERT_AFTER(q, h, l, e)
  /\ lists' = [lists EXCEPT ![h] = InsertAt(@, Place(h, l) + 1, e)]

InsertBefore(h, l, e) ==
  /\ Loose(e) /\ l \in Listed(h)
  /\ q' = TAILQ_INSERT_BEFORE(q, l, e)
  /\ lists' = [lists EXCEPT ![h] = InsertAt(@, Place(h, l), e)]

Unlink(h, e) ==
  /\ e \in Listed(h)
  /\ q' = TAILQ_REMOVE(q, h, e)
  /\ lists' = [lists EXCEPT ![h] = RemoveAt(@, Place(h, e))]

Concat(h1, h2) ==
  /\ h1 # h2
  /\ q' = TAILQ_CONCAT(q, h1, h2)
  /\ lists' = [lists EXCEPT ![h1] = @ \o lists[h2], ![h2] = << >>]

Swap(h1, h2) ==
  /\ h1 # h2
  /\ q' = TAILQ_SWAP(q, h1, h2)
  /\ lists' = [lists EXCEPT ![h1] = lists[h2], ![h2] = lists[h1]]

Next ==
  \E h \in QHead :
    \/ \E e \in Node :
         \/ InsertTail(h, e) \/ InsertHead(h, e) \/ Unlink(h, e)
         \/ \E l \in Node : InsertAfter(h, l, e) \/ InsertBefore(h, l, e)
    \/ \E g \in QHead : Concat(h, g) \/ Swap(h, g)

Spec == Init /\ [][Next]_vars

-----------------------------------------------------------------------------
(* Properties. *)

(* Type correctness: no macro stores anything but a pointer to an element  *)
(* or the address of a link field, and no element is in two places.        *)
TypeOK ==
  /\ q \in Queue
  /\ lists \in [QHead -> Seq(Node)]
  /\ \A h, g \in QHead : \A i \in 1 .. Len(lists[h]), j \in 1 .. Len(lists[g]) :
       lists[h][i] = lists[g][j] => h = g /\ i = j

(* QHead h and its elements are linked as the sequence s: forward through   *)
(* tqe_next to NULL, and each tqe_prev, and tqh_last, names the link field *)
(* that leads to it.                                                       *)
Linked(h, s) ==
  /\ q.first[h] = IF s = << >> THEN NULL ELSE s[1]
  /\ q.last[h] = IF s = << >> THEN h ELSE s[Len(s)]
  /\ \A i \in 1 .. Len(s) : /\ q.next[s[i]] = IF i = Len(s) THEN NULL ELSE s[i + 1]
                            /\ q.prev[s[i]] = IF i = 1 THEN h ELSE s[i - 1]

(* Whatever is inserted, removed, joined and exchanged in whatever order,  *)
(* the links of every list are those of the sequence the program means:    *)
(* the macros keep no stale tqh_last or tqe_prev behind.                   *)
ListsAreLinked == \A h \in QHead : Linked(h, lists[h])

(* TAILQ_FOREACH, with which cleanup joins the workers, visits every       *)
(* element of the list once and in order, and the loop in reverse, which   *)
(* reads tqe_prev through the cast of TAILQ_PREV, visits them backwards.   *)
LoopsVisitAll ==
  \A h \in QHead : /\ TAILQ_FOREACH(q, h) = lists[h]
                  /\ TAILQ_FOREACH_REVERSE(q, h) = Reverse(lists[h])
=============================================================================

---------------------------- MODULE CircularBuffer ----------------------------
(***************************************************************************)
(* The circular buffer of aesd-char-driver/aesd-circular-buffer.{h,c}, as  *)
(* a data type: struct aesd_circular_buffer is a record, and each function *)
(* of the file is an operator on it.  The char driver and the stand-alone  *)
(* specification of the buffer are both built from these operators.        *)
(*                                                                         *)
(* A slot's contents are the two fields of struct aesd_buffer_entry.  The  *)
(* bytes behind a buffptr belong to the caller and are not modelled here.  *)
(***************************************************************************)
EXTENDS Integers

CONSTANTS
  MAX_OPS,  \* AESDCHAR_MAX_WRITE_OPERATIONS_SUPPORTED, 10 in the source
  Ptr,      \* the addresses a buffptr can hold
  NULL      \* the null pointer

ASSUME BufferAssumption ==
  /\ MAX_OPS \in Nat \ {0}
  /\ NULL \notin Ptr

-----------------------------------------------------------------------------
(* struct aesd_buffer_entry and struct aesd_circular_buffer. *)

Slot == 0 .. MAX_OPS - 1

Entry == [buffptr : Ptr \cup {NULL}, size : Nat]

Buffer == [entry : [Slot -> Entry], in_offs : Slot, out_offs : Slot, full : BOOLEAN]

(* As add_entry leaves the struct between two assignments: an offset that  *)
(* was advanced and not yet wrapped is one past the array.                 *)
OpenBuffer ==
  [entry : [Slot -> Entry], in_offs : 0 .. MAX_OPS, out_offs : 0 .. MAX_OPS, full : BOOLEAN]

EmptyEntry == [buffptr |-> NULL, size |-> 0]

(* memset(buffer, 0, ...): no entries, both offsets 0, not full. *)
aesd_circular_buffer_init ==
  [entry |-> [i \in Slot |-> EmptyEntry], in_offs |-> 0, out_offs |-> 0, full |-> FALSE]

-----------------------------------------------------------------------------
(* aesd_circular_buffer_add_entry, one operator per assignment in the      *)
(* order the function makes them, because a reader that takes no lock can  *)
(* run between any two of them.                                            *)

StoreBuffptr(b, p) == [b EXCEPT !.entry[b.in_offs].buffptr = p]

StoreSize(b, n) == [b EXCEPT !.entry[b.in_offs].size = n]

IncrementOut(b) == [b EXCEPT !.out_offs = @ + 1]
WrapOut(b)      == [b EXCEPT !.out_offs = 0]
IncrementIn(b)  == [b EXCEPT !.in_offs = @ + 1]
WrapIn(b)       == [b EXCEPT !.in_offs = 0]
SetFull(b)      == [b EXCEPT !.full = TRUE]

(* The tests that decide which of these are made. *)
Overwrites(b) == b.in_offs = b.out_offs /\ b.full
OutAtEnd(b)   == b.out_offs + 1 = MAX_OPS
InAtEnd(b)    == b.in_offs + 1 = MAX_OPS

(* Fault: the oldest entry is overwritten but reading still starts there. *)
AdvanceOutStuck(b) == b

(* What the assignments to out_offs come to. *)
AdvanceOut(b) ==
  IF ~ Overwrites(b) THEN b
  ELSE IF OutAtEnd(b) THEN WrapOut(IncrementOut(b)) ELSE IncrementOut(b)

(* Fault: in_offs wraps but full is never set. *)
AdvanceInNoFull(b) == IF InAtEnd(b) THEN WrapIn(IncrementIn(b)) ELSE IncrementIn(b)

(* Fault: in_offs is advanced without wrapping. *)
AdvanceInNoWrap(b) == IncrementIn(b)

(* What the assignments to in_offs and full come to. *)
AdvanceIn(b) ==
  IF InAtEnd(b) THEN SetFull(WrapIn(IncrementIn(b))) ELSE IncrementIn(b)

aesd_circular_buffer_add_entry(b, e) ==
  AdvanceIn(AdvanceOut(StoreSize(StoreBuffptr(b, e.buffptr), e.size)))

(* Fault: the pointer at the read offset is handed back, not the one that *)
(* add_entry overwrites.                                                  *)
DisplacedBuffptrAtOut(b) == b.entry[b.out_offs].buffptr

(* The value add_entry returns: the pointer it overwrote, NULL if none. *)
DisplacedBuffptr(b) == b.entry[b.in_offs].buffptr

-----------------------------------------------------------------------------
(* Traversals. *)

(* The k-th slot visited when reading starts at out_offs, counting from 0. *)
ScanSlot(b, k) ==
  IF b.out_offs + k >= MAX_OPS THEN b.out_offs + k - MAX_OPS ELSE b.out_offs + k

(* AESD_CIRCULAR_BUFFER_FOREACH visits every slot of the array, used or    *)
(* not; get_length_of_all_entries_in_buffer sums the sizes it meets.       *)
get_length_of_all_entries_in_buffer(b) ==
  LET sum[k \in 0 .. MAX_OPS] == IF k = 0 THEN 0 ELSE sum[k - 1] + b.entry[k - 1].size
  IN  sum[MAX_OPS]

(* curr_searched_buffer_length after k entries from out_offs. *)
SearchedLength(b) ==
  LET len[k \in 0 .. MAX_OPS] ==
        IF k = 0 THEN 0 ELSE len[k - 1] + b.entry[ScanSlot(b, k - 1)].size
  IN  len

(* Fault: the search loop has no first_run and so stops at once when the   *)
(* offsets are equal.                                                      *)
SearchStepsNoFirstRun(b) ==
  IF b.in_offs >= b.out_offs THEN b.in_offs - b.out_offs
                             ELSE b.in_offs - b.out_offs + MAX_OPS

(* How many entries the search loop looks at: first_run makes it run once  *)
(* before it compares the offsets, so equal offsets mean the whole array.  *)
(* When in_offs is one past the array (out_offs is then 0) this is one     *)
(* round of a loop that never meets its end.                               *)
SearchSteps(b) ==
  IF b.in_offs > b.out_offs THEN b.in_offs - b.out_offs
                            ELSE b.in_offs - b.out_offs + MAX_OPS

(* The NULL result of the search. *)
NotFound == [slot |-> -1, byte |-> 0]

(* The position looked for within one round of the array.  A loop without  *)
(* end goes round until it has counted past char_offset; the array is full *)
(* of commands then, so that it does.                                      *)
Searched(b, char_offset) ==
  LET total == get_length_of_all_entries_in_buffer(b)
  IN  IF b.in_offs = MAX_OPS /\ total > 0 THEN char_offset % total ELSE char_offset

(* The first entry, from out_offs, whose bytes reach past char_offset, and *)
(* the offset of that byte inside it, stored in entry_offset_byte_rtn.     *)
aesd_circular_buffer_find_entry_offset_for_fpos(b, char_offset) ==
  LET len  == SearchedLength(b)
      pos  == Searched(b, char_offset)
      hits == {k \in 0 .. SearchSteps(b) - 1 : len[k + 1] > pos}
      k    == CHOOSE x \in hits : \A y \in hits : x <= y
  IN  IF hits = {} THEN NotFound
                   ELSE [slot |-> ScanSlot(b, k), byte |-> pos - len[k]]

-----------------------------------------------------------------------------
(* What the representation stands for, and when it is well formed. *)

(* The number of commands held. *)
Count(b) == IF b.full THEN MAX_OPS ELSE b.in_offs

(* The commands held, oldest first. *)
Contents(b) == [k \in 1 .. Count(b) |-> b.entry[ScanSlot(b, k - 1)]]

(* Well-formedness: until the array has been filled once, reading starts   *)
(* at slot 0 and the slots from in_offs on are untouched; from then on the *)
(* next slot to overwrite is the oldest one.                               *)
WellFormed(b) ==
  /\ b \in Buffer
  /\ b.full => b.in_offs = b.out_offs
  /\ ~ b.full => b.out_offs = 0 /\ \A i \in Slot : i >= b.in_offs => b.entry[i] = EmptyEntry
  /\ \A i \in Slot : (b.full \/ i < b.in_offs) => b.entry[i].buffptr # NULL
=============================================================================

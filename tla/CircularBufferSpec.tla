-------------------------- MODULE CircularBufferSpec --------------------------
(***************************************************************************)
(* The circular buffer used on its own, under the contract its comments    *)
(* state: the caller does the locking, so each call is one step, and the   *)
(* caller owns the memory behind a buffptr except while the entry is in    *)
(* the buffer.                                                             *)
(***************************************************************************)
EXTENDS CircularBuffer, Sequences

CONSTANT Size  \* the lengths a caller's entry can have

ASSUME SizeAssumption == Size \subseteq Nat

VARIABLES
  buffer,  \* the struct aesd_circular_buffer
  held     \* caller's book-keeping: pointers given to the buffer, not yet handed back

vars == <<buffer, held>>

Init ==
  /\ buffer = aesd_circular_buffer_init
  /\ held = {}

(* The caller adds a fresh entry and takes back what add_entry returns. *)
Add(p, n) ==
  /\ p \notin held
  /\ buffer' = aesd_circular_buffer_add_entry(buffer, [buffptr |-> p, size |-> n])
  /\ held' = (held \cup {p}) \ {DisplacedBuffptr(buffer)}

Next == \E p \in Ptr, n \in Size : Add(p, n)

Spec == Init /\ [][Next]_vars

-----------------------------------------------------------------------------
(* Properties. *)

(* Type correctness: the offsets never leave the array, so no access to    *)
(* entry[] is out of bounds.                                               *)
TypeOK == buffer \in Buffer /\ held \subseteq Ptr

(* The full flag and the two offsets always agree with each other and with *)
(* which slots are in use: in_offs = out_offs is never ambiguous between   *)
(* an empty and a full buffer (the test of add_entry on both).             *)
OffsetsAgree == WellFormed(buffer)

(* add_entry hands back exactly the memory that left the buffer: every     *)
(* pointer given to it is in one slot and one only until it is returned.   *)
(* This is what makes the kfree in aesd_write and the frees in the cleanup *)
(* neither leak nor free twice.                                            *)
Ownership ==
  /\ held = {buffer.entry[i].buffptr : i \in Slot} \ {NULL}
  /\ \A i, j \in Slot :
       buffer.entry[i].buffptr = buffer.entry[j].buffptr /\ i # j => buffer.entry[i].buffptr = NULL

(* Concatenate the held commands, each byte named by its slot and offset:  *)
(* the reference for the search.                                           *)
Concatenation ==
  LET cat[k \in 0 .. Count(buffer)] ==
        IF k = 0 THEN << >>
        ELSE cat[k - 1] \o [j \in 1 .. Contents(buffer)[k].size |->
                              [slot |-> ScanSlot(buffer, k - 1), byte |-> j - 1]]
  IN  cat[Count(buffer)]

(* find_entry_offset_for_fpos returns, for every position, the byte at     *)
(* that position "if all buffer strings were concatenated end to end", and *)
(* NULL exactly for the positions past the end; the length the driver      *)
(* computes from the whole array is the length of that concatenation.      *)
FindAgreesWithConcatenation ==
  LET len == get_length_of_all_entries_in_buffer(buffer)
  IN  /\ len = Len(Concatenation)
      /\ \A pos \in 0 .. len + 1 :
           aesd_circular_buffer_find_entry_offset_for_fpos(buffer, pos) =
             IF pos < len THEN Concatenation[pos + 1] ELSE NotFound

(* The buffer implements the log of the last MAX_OPS commands. *)
Log == INSTANCE BoundedLog WITH
         Bound <- MAX_OPS,
         Item  <- [buffptr : Ptr, size : Size],
         log   <- Contents(buffer)

KeepsLastCommands == Log!Spec
=============================================================================

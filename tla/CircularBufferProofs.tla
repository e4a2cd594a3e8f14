------------------------- MODULE CircularBufferProofs -------------------------
(***************************************************************************)
(* Proofs, for every MAX_OPS, that the circular buffer stays well formed,  *)
(* that add_entry hands back exactly the memory that left the buffer, and  *)
(* that the buffer implements the log of the last MAX_OPS commands.        *)
(***************************************************************************)
EXTENDS CircularBufferSpec, CircularBufferLemmas

-----------------------------------------------------------------------------
(* The buffer and its caller. *)

(* The inductive invariant: Ownership alone is not preserved, since which  *)
(* slot add_entry empties depends on the offsets agreeing.                 *)
IInv == TypeOK /\ OffsetsAgree /\ Ownership

(* The buffer starts in the invariant. *)
LEMMA InitIInv == Init => IInv
  <1> SUFFICES ASSUME Init PROVE IInv
    OBVIOUS
  <1>1. OffsetsAgree
    BY InitWellFormed DEF Init, OffsetsAgree
  <1>2. TypeOK
    BY <1>1 DEF Init, TypeOK, OffsetsAgree, WellFormed
  <1>3. Ownership
    BY BufferAssumption DEF Init, Ownership, aesd_circular_buffer_init, EmptyEntry, Slot
  <1> QED
    BY <1>1, <1>2, <1>3 DEF IInv

(* Every call of add_entry preserves it. *)
LEMMA AddIInv ==
  ASSUME IInv, NEW p \in Ptr, NEW n \in Size, Add(p, n)
  PROVE  IInv'
  <1> DEFINE e == [buffptr |-> p, size |-> n]
             old == buffer.entry[buffer.in_offs].buffptr
  <1>1. e \in NewEntry
    BY SizeAssumption DEF NewEntry
  <1>2. buffer \in Buffer /\ WellFormed(buffer)
    BY DEF IInv, OffsetsAgree, WellFormed
  <1>3. /\ buffer' \in Buffer
        /\ buffer'.entry = [buffer.entry EXCEPT ![buffer.in_offs] = e]
    BY <1>1, <1>2, AddEntryFields DEF Add
  <1>4. OffsetsAgree'
    BY <1>1, <1>2, AddEntryWellFormed DEF Add, OffsetsAgree
  <1>5. TypeOK'
    BY <1>3 DEF Add, TypeOK, IInv
  <1>6. buffer.entry \in [Slot -> Entry] /\ buffer.in_offs \in Slot
    BY <1>2 DEF Buffer
  <1>7. \A i \in Slot : buffer'.entry[i].buffptr =
          IF i = buffer.in_offs THEN p ELSE buffer.entry[i].buffptr
    BY <1>3, <1>6
  <1>8. p \notin held /\ held' = (held \cup {p}) \ {old}
    BY DEF Add, DisplacedBuffptr
  <1>9. \A i \in Slot : buffer.entry[i].buffptr # p
    BY <1>8, BufferAssumption DEF IInv, Ownership
  <1>10. \A i \in Slot : i # buffer.in_offs /\ buffer.entry[i].buffptr = old => old = NULL
    BY <1>6 DEF IInv, Ownership
  <1>11. held' = {buffer'.entry[i].buffptr : i \in Slot} \ {NULL}
    <2>1. ASSUME NEW q \in held'
          PROVE  q \in {buffer'.entry[i].buffptr : i \in Slot} \ {NULL}
      BY <2>1, <1>6, <1>7, <1>8, BufferAssumption DEF IInv, Ownership
    <2>2. ASSUME NEW i \in Slot, buffer'.entry[i].buffptr # NULL
          PROVE  buffer'.entry[i].buffptr \in held'
      <3>1. CASE i = buffer.in_offs
        BY <3>1, <1>6, <1>7, <1>8, <1>9
      <3>2. CASE i # buffer.in_offs
        <4>1. buffer'.entry[i].buffptr = buffer.entry[i].buffptr
          BY <3>2, <1>7
        <4>2. buffer.entry[i].buffptr \in held
          BY <2>2, <4>1 DEF IInv, Ownership
        <4> QED
          BY <2>2, <3>2, <4>1, <4>2, <1>8, <1>10
      <3> QED
        BY <3>1, <3>2
    <2> QED
      BY <2>1, <2>2
  <1>12. ASSUME NEW i \in Slot, NEW j \in Slot, i # j,
                buffer'.entry[i].buffptr = buffer'.entry[j].buffptr
         PROVE  buffer'.entry[i].buffptr = NULL
    BY <1>12, <1>6, <1>7, <1>9 DEF IInv, Ownership
  <1>13. Ownership'
    BY <1>11, <1>12 DEF Ownership
  <1> QED
    BY <1>4, <1>5, <1>13 DEF IInv

(* The offsets of the circular buffer stay inside the array, agree with    *)
(* the full flag and the used slots, and add_entry hands back exactly the  *)
(* memory that left the buffer, for every MAX_OPS and every caller that    *)
(* adds fresh pointers.                                                    *)
THEOREM BufferCorrect == Spec => [](TypeOK /\ OffsetsAgree /\ Ownership)
  <1>1. Init => IInv
    BY InitIInv
  <1>2. IInv /\ [Next]_vars => IInv'
    <2> SUFFICES ASSUME IInv, [Next]_vars PROVE IInv'
      OBVIOUS
    <2>1. CASE Next
      BY <2>1, AddIInv DEF Next
    <2>2. CASE UNCHANGED vars
      BY <2>2 DEF vars, IInv, TypeOK, OffsetsAgree, Ownership
    <2> QED
      BY <2>1, <2>2
  <1>3. IInv => TypeOK /\ OffsetsAgree /\ Ownership
    BY DEF IInv
  <1> QED
    BY <1>1, <1>2, <1>3, PTL DEF Spec

(* No access to entry[] is out of bounds: both offsets stay inside the     *)
(* array, whatever is added and however often they wrap.                   *)
THEOREM BufferTypeOK == Spec => []TypeOK
  BY BufferCorrect, PTL

(* add_entry neither loses nor duplicates memory: the pointers the caller  *)
(* gave and did not get back are those in the slots, each in one.          *)
THEOREM BufferOwnership == Spec => []Ownership
  BY BufferCorrect, PTL

-----------------------------------------------------------------------------
(* Refinement. *)

(* The circular buffer implements the bounded log: however add_entry is    *)
(* called, the buffer holds the last MAX_OPS commands in order of arrival. *)
THEOREM BufferKeepsLastCommands == Spec => KeepsLastCommands
  <1>1. Init => Log!Init
    <2> SUFFICES ASSUME Init PROVE Contents(buffer) = << >>
      BY DEF Log!Init
    <2>1. Count(buffer) = 0
      BY DEF Init, Count, aesd_circular_buffer_init
    <2> QED
      BY <2>1 DEF Contents
  <1>2. IInv /\ [Next]_vars => [Log!Next]_(Contents(buffer))
    <2> SUFFICES ASSUME IInv, [Next]_vars
                 PROVE  [Log!Next]_(Contents(buffer))
      OBVIOUS
    <2>1. ASSUME NEW p \in Ptr, NEW n \in Size, Add(p, n)
          PROVE  Log!Next
      <3> DEFINE e == [buffptr |-> p, size |-> n]
      <3>1. e \in NewEntry /\ e \in [buffptr : Ptr, size : Size]
        BY SizeAssumption DEF NewEntry
      <3>2. buffer' = aesd_circular_buffer_add_entry(buffer, e)
        BY <2>1 DEF Add
      <3>3. Contents(buffer') = Log!Keep(Contents(buffer), e)
        BY <3>1, <3>2, AddEntryKeeps DEF IInv, OffsetsAgree, Log!Keep, KeepLast
      <3>4. Contents(buffer)' = Contents(buffer')
        BY DEF Contents, Count, ScanSlot
      <3> HIDE DEF e
      <3> QED
        BY <3>1, <3>3, <3>4 DEF Log!Next, Log!Add
    <2>2. CASE UNCHANGED vars
      BY <2>2 DEF vars, Contents, Count, ScanSlot
    <2> QED
      BY <2>1, <2>2 DEF Next
  <1>3. Spec => []IInv
    BY InitIInv, BufferCorrect, PTL DEF IInv
  <1> QED
    BY <1>1, <1>2, <1>3, PTL DEF Spec, KeepsLastCommands, Log!Spec


-----------------------------------------------------------------------------
(* The search. *)

(* The cells of command k, as the reference concatenation names them. *)
Cells(b, k) == [j \in 1 .. Contents(b)[k].size |-> [slot |-> ScanSlot(b, k - 1), byte |-> j - 1]]

Cell == [slot : Slot, byte : Nat]

(* The cells of each command are a sequence as long as the command. *)
LEMMA CellsSeq ==
  ASSUME NEW b, WellFormed(b), NEW k \in 1 .. Count(b)
  PROVE  /\ Cells(b, k) \in Seq(Cell)
         /\ Len(Cells(b, k)) = b.entry[ScanSlot(b, k - 1)].size
         /\ \A j \in 1 .. b.entry[ScanSlot(b, k - 1)].size :
              Cells(b, k)[j] = [slot |-> ScanSlot(b, k - 1), byte |-> j - 1]
  <1>1. ScanSlot(b, k - 1) \in Slot
    BY ContentsSeq
  <1> DEFINE s == ScanSlot(b, k - 1)
             n == b.entry[s].size
  <1>2. n \in Nat
    BY <1>1 DEF WellFormed, Buffer, Entry
  <1>3. Cells(b, k) = [j \in 1 .. n |-> [slot |-> s, byte |-> j - 1]]
    BY DEF Cells, Contents
  <1> HIDE DEF n, s
  <1>4. [j \in 1 .. n |-> [slot |-> s, byte |-> j - 1]] \in [1 .. n -> Cell]
    BY <1>1, <1>2 DEF Cell, s
  <1>5. Cells(b, k) \in Seq(Cell) /\ Len(Cells(b, k)) = n
    BY <1>2, <1>3, <1>4
  <1>6. \A j \in 1 .. n : Cells(b, k)[j] = [slot |-> s, byte |-> j - 1]
    BY <1>3
  <1> QED
    BY <1>5, <1>6 DEF n, s

(* In a well-formed buffer the search agrees with the concatenation. *)
LEMMA FindAgrees == OffsetsAgree => FindAgreesWithConcatenation
  <1> SUFFICES ASSUME WellFormed(buffer) PROVE FindAgreesWithConcatenation
    BY DEF OffsetsAgree
  <1> DEFINE b == buffer
             c == Count(b)
             len == SearchedLength(b)
             w == [k \in 1 .. c |-> Cells(b, k)]
             part == [k \in 0 .. c |-> len[k]]
             cat[k \in 0 .. c] ==
               IF k = 0 THEN << >>
               ELSE cat[k - 1] \o [j \in 1 .. Contents(b)[k].size |->
                                     [slot |-> ScanSlot(b, k - 1), byte |-> j - 1]]
  <1>1. b \in Buffer /\ c \in 0 .. MAX_OPS
    BY ContentsSeq DEF WellFormed
  <1>2. w \in Pieces(c, Cell) /\ \A k \in 1 .. c : w[k] = Cells(b, k)
    BY CellsSeq DEF Pieces
  <1>3. /\ len \in [0 .. MAX_OPS -> Nat] /\ len[0] = 0
        /\ \A k \in 1 .. MAX_OPS : len[k] = len[k - 1] + b.entry[ScanSlot(b, k - 1)].size
    BY <1>1, SearchedIsSum
  <1>4. cat = [k \in 0 .. c |-> IF k = 0 THEN << >> ELSE cat[k - 1] \o Cells(b, k)]
    <2> HIDE DEF w
    <2>1. PICK f \in [0 .. c -> Seq(Cell)] : Joins(f, w, c)
      BY <1>1, <1>2, ConcatExists
    <2>2. f = [k \in 0 .. c |-> IF k = 0 THEN << >> ELSE f[k - 1] \o Cells(b, k)]
      <3>1. ASSUME NEW k \in 0 .. c
            PROVE  f[k] = IF k = 0 THEN << >> ELSE f[k - 1] \o Cells(b, k)
        <4>1. CASE k = 0
          BY <2>1, <4>1 DEF Joins
        <4>2. CASE k # 0
          <5>1. k \in 1 .. c
            BY <1>1, <4>2
          <5> QED
            BY <1>2, <2>1, <4>2, <5>1 DEF Joins
        <4> QED
          BY <4>1, <4>2
      <3> QED
        BY <2>1, <3>1
    <2> QED
      BY <2>2 DEF Cells
  <1>5. Concatenation = cat[c]
    BY DEF Concatenation
  <1> HIDE DEF w, cat, len, part
  <1>7. \A k \in 0 .. c : cat[k] = IF k = 0 THEN << >> ELSE cat[k - 1] \o Cells(b, k)
    BY <1>4
  <1>8. Joins(cat, w, c)
    <2>1. 0 \in 0 .. c /\ \A k \in 1 .. c : k \in 0 .. c /\ k # 0
      BY <1>1
    <2> QED
      BY <1>2, <1>7, <2>1 DEF Joins
  <1>10. Lengths(part, w, c) /\ \A k \in 0 .. c : part[k] = len[k]
    <2>1. part \in [0 .. c -> Nat] /\ \A k \in 0 .. c : part[k] = len[k]
      BY <1>1, <1>3, BufferAssumption DEF part
    <2>2. \A k \in 1 .. c : Len(w[k]) = b.entry[ScanSlot(b, k - 1)].size
      BY <1>2, CellsSeq
    <2>3. \A k \in 1 .. c : /\ k \in 1 .. MAX_OPS /\ k \in 0 .. c /\ k - 1 \in 0 .. c
      BY <1>1, BufferAssumption
    <2>4. ASSUME NEW k \in 1 .. c PROVE part[k] = part[k - 1] + Len(w[k])
      BY <1>3, <2>1, <2>2, <2>3
    <2>5. part[0] = 0
      BY <1>1, <1>3, <2>1
    <2> QED
      BY <2>1, <2>4, <2>5 DEF Lengths
  <1>11. /\ Len(cat[c]) = len[c]
         /\ \A i \in 1 .. c : \A j \in 1 .. Len(w[i]) : cat[c][part[i - 1] + j] = w[i][j]
    <2>1. c \in 0 .. c /\ c \in Nat
      BY <1>1
    <2>2. \A k \in 0 .. c :
            /\ Len(cat[k]) = part[k]
            /\ \A i \in 1 .. k : \A j \in 1 .. Len(w[i]) : cat[k][part[i - 1] + j] = w[i][j]
      BY <1>2, <1>8, <1>10, <2>1, ConcatCells
    <2> QED
      BY <1>10, <2>1, <2>2
  <1>12. get_length_of_all_entries_in_buffer(b) = len[MAX_OPS] /\ len[MAX_OPS] = len[c]
    BY <1>1, LengthIsSearched, UnusedAreEmpty, BufferAssumption DEF len
  <1>13. ASSUME NEW pos \in Nat
         PROVE  aesd_circular_buffer_find_entry_offset_for_fpos(b, pos) =
                  IF pos < len[MAX_OPS] THEN cat[c][pos + 1] ELSE NotFound
    <2> DEFINE found == aesd_circular_buffer_find_entry_offset_for_fpos(b, pos)
    <2>0. len[MAX_OPS] \in Nat
      BY <1>3, BufferAssumption
    <2>1. /\ len[MAX_OPS] <= pos => found = NotFound
          /\ pos < len[MAX_OPS] =>
               \E k \in 0 .. c - 1 :
                 /\ len[k] <= pos /\ pos < len[k + 1]
                 /\ found = [slot |-> ScanSlot(b, k), byte |-> pos - len[k]]
      BY SearchAgrees DEF len
    <2> HIDE DEF found
    <2>2. CASE ~ (pos < len[MAX_OPS])
      <3>1. len[MAX_OPS] <= pos
        BY <2>0, <2>2
      <3> QED
        BY <2>1, <2>2, <3>1 DEF found
    <2>3. CASE pos < len[MAX_OPS]
      <3>1. PICK k \in 0 .. c - 1 :
              /\ len[k] <= pos /\ pos < len[k + 1]
              /\ found = [slot |-> ScanSlot(b, k), byte |-> pos - len[k]]
        BY <2>1, <2>3
      <3>2. /\ k + 1 \in 1 .. c /\ (k + 1) - 1 = k /\ k \in 0 .. c /\ k + 1 \in 1 .. MAX_OPS
            /\ k \in 0 .. MAX_OPS
        BY <1>1, BufferAssumption
      <3>3. ScanSlot(b, k) \in Slot
        BY <3>2, ContentsSeq
      <3> DEFINE n == b.entry[ScanSlot(b, k)].size
                 j == (pos - len[k]) + 1
                 u == w[k + 1]
                 at == len[k]
                 end == len[k + 1]
      <3>4. n \in Nat
        BY <1>1, <3>3 DEF Buffer, Entry
      <3>5. at \in Nat /\ end = at + n /\ at <= pos /\ pos < end
        BY <1>3, <3>1, <3>2
      <3>6. Len(u) = n /\ \A i \in 1 .. n : u[i] = [slot |-> ScanSlot(b, k), byte |-> i - 1]
        BY <1>2, <3>2, CellsSeq
      <3>7. \A i \in 1 .. Len(u) : cat[c][at + i] = u[i]
        BY <1>10, <1>11, <3>2
      <3>8. j \in 1 .. n /\ at + j = pos + 1 /\ j - 1 = pos - at
        <4> HIDE DEF n, at, end
        <4>1. j = (pos - at) + 1
          BY DEF at
        <4> HIDE DEF j
        <4> QED
          BY <3>4, <3>5, <4>1
      <3>9. cat[c][pos + 1] = [slot |-> ScanSlot(b, k), byte |-> pos - at]
        <4> HIDE DEF n, at, end, u, j
        <4> QED
          BY <3>6, <3>7, <3>8
      <3> QED
        BY <2>3, <3>1, <3>9 DEF found
    <2> QED
      BY <2>2, <2>3
  <1>14. \A pos \in 0 .. len[MAX_OPS] + 1 : pos \in Nat
    <2>1. len[MAX_OPS] \in Nat
      BY <1>3, BufferAssumption
    <2> QED
      BY <2>1
  <1> QED
    BY <1>5, <1>11, <1>12, <1>13, <1>14 DEF FindAgreesWithConcatenation

(* find_entry_offset_for_fpos finds, after any calls of add_entry, the     *)
(* byte at every position of the concatenated commands and nothing past    *)
(* their end, and the length summed over the whole array is theirs.        *)
THEOREM BufferSearchIsExact == Spec => []FindAgreesWithConcatenation
  <1>1. Spec => []OffsetsAgree
    BY BufferCorrect, PTL
  <1> QED
    BY <1>1, FindAgrees, PTL
=============================================================================

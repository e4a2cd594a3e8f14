------------------------- MODULE CircularBufferLemmas -------------------------
(***************************************************************************)
(* What the operators of CircularBuffer compute and preserve, for every    *)
(* MAX_OPS; the proofs about the buffer and about the driver both rest on  *)
(* these lemmas.                                                           *)
(***************************************************************************)
EXTENDS CircularBuffer, SequenceTheorems, WellFoundedInduction, TLAPS

(* An entry that a caller adds. *)
NewEntry == [buffptr : Ptr, size : Nat]

-----------------------------------------------------------------------------
(* What the operators of CircularBuffer compute. *)

(* An offset advanced by one slot, wrapping at the end of the array. *)
NextSlot(i) == IF i + 1 = MAX_OPS THEN 0 ELSE i + 1

(* The wrapping increment stays inside the array. *)
LEMMA NextSlotType ==
  ASSUME NEW i \in Slot
  PROVE  /\ NextSlot(i) \in Slot
         /\ i + 1 < MAX_OPS => NextSlot(i) = i + 1
         /\ i + 1 = MAX_OPS => NextSlot(i) = 0
  BY BufferAssumption DEF Slot, NextSlot

(* The increments and wraps of the two offsets, taken together. *)
LEMMA Advances ==
  ASSUME NEW b \in Buffer
  PROVE  /\ AdvanceOut(b) = IF b.in_offs = b.out_offs /\ b.full
                             THEN [b EXCEPT !.out_offs = NextSlot(b.out_offs)] ELSE b
         /\ AdvanceIn(b) = IF b.in_offs + 1 = MAX_OPS
                             THEN [b EXCEPT !.in_offs = 0, !.full = TRUE]
                             ELSE [b EXCEPT !.in_offs = b.in_offs + 1]
  <1> USE DEF Buffer
  <1>1. IncrementOut(b) = [b EXCEPT !.out_offs = b.out_offs + 1]
    BY DEF IncrementOut
  <1>2. WrapOut(IncrementOut(b)) = [b EXCEPT !.out_offs = 0]
    BY <1>1 DEF WrapOut
  <1>3. IncrementIn(b) = [b EXCEPT !.in_offs = b.in_offs + 1]
    BY DEF IncrementIn
  <1>4. SetFull(WrapIn(IncrementIn(b))) = [b EXCEPT !.in_offs = 0, !.full = TRUE]
    BY <1>3 DEF WrapIn, SetFull
  <1>5. AdvanceOut(b) = IF b.in_offs = b.out_offs /\ b.full
                          THEN [b EXCEPT !.out_offs = NextSlot(b.out_offs)] ELSE b
    <2>1. CASE OutAtEnd(b)
      BY <1>2, <2>1 DEF AdvanceOut, Overwrites, OutAtEnd, NextSlot
    <2>2. CASE ~ OutAtEnd(b)
      BY <1>1, <2>2 DEF AdvanceOut, Overwrites, OutAtEnd, NextSlot
    <2> QED
      BY <2>1, <2>2
  <1>6. AdvanceIn(b) = IF b.in_offs + 1 = MAX_OPS
                         THEN [b EXCEPT !.in_offs = 0, !.full = TRUE]
                         ELSE [b EXCEPT !.in_offs = b.in_offs + 1]
    <2>1. CASE InAtEnd(b)
      BY <1>4, <2>1 DEF AdvanceIn, InAtEnd
    <2>2. CASE ~ InAtEnd(b)
      BY <1>3, <2>2 DEF AdvanceIn, InAtEnd
    <2> QED
      BY <2>1, <2>2
  <1> QED
    BY <1>5, <1>6

(* The assignments of add_entry, composed: the fields of the resulting     *)
(* struct.                                                                 *)
LEMMA AddEntryFields ==
  ASSUME NEW b \in Buffer, NEW e \in NewEntry
  PROVE  LET a == aesd_circular_buffer_add_entry(b, e)
         IN  /\ a \in Buffer
             /\ a.entry = [b.entry EXCEPT ![b.in_offs] = e]
             /\ a.in_offs = NextSlot(b.in_offs)
             /\ a.out_offs = IF b.in_offs = b.out_offs /\ b.full
                               THEN NextSlot(b.out_offs) ELSE b.out_offs
             /\ b.in_offs + 1 = MAX_OPS => a.full = TRUE
             /\ b.in_offs + 1 # MAX_OPS => a.full = b.full
  <1> DEFINE s1 == StoreBuffptr(b, e.buffptr)
             s2 == StoreSize(s1, e.size)
             s3 == AdvanceOut(s2)
             a  == AdvanceIn(s3)
  <1>1. /\ b.entry \in [Slot -> Entry]
        /\ b.in_offs \in Slot
        /\ b.out_offs \in Slot
        /\ b.full \in BOOLEAN
    BY DEF Buffer
  <1>2. /\ s1 = [entry |-> [b.entry EXCEPT ![b.in_offs].buffptr = e.buffptr],
                 in_offs |-> b.in_offs, out_offs |-> b.out_offs, full |-> b.full]
    BY DEF StoreBuffptr, Buffer
  <1>3. [[b.entry EXCEPT ![b.in_offs].buffptr = e.buffptr]
          EXCEPT ![b.in_offs].size = e.size] = [b.entry EXCEPT ![b.in_offs] = e]
    BY <1>1 DEF Entry, NewEntry
  <1>4. s2 = [entry |-> [b.entry EXCEPT ![b.in_offs] = e],
              in_offs |-> b.in_offs, out_offs |-> b.out_offs, full |-> b.full]
    BY <1>2, <1>3 DEF StoreSize
  <1>5. s3 = [entry |-> [b.entry EXCEPT ![b.in_offs] = e],
              in_offs |-> b.in_offs,
              out_offs |-> IF b.in_offs = b.out_offs /\ b.full
                             THEN NextSlot(b.out_offs) ELSE b.out_offs,
              full |-> b.full]
    <2>1. s2 \in Buffer
      BY <1>1, <1>4 DEF Buffer, Entry, NewEntry
    <2>2. s3 = IF s2.in_offs = s2.out_offs /\ s2.full
                 THEN [s2 EXCEPT !.out_offs = NextSlot(s2.out_offs)] ELSE s2
      BY <2>1, Advances
    <2> HIDE DEF s2, s3
    <2> QED
      BY <1>4, <2>2
  <1>6. s3 \in Buffer
    <2>1. [b.entry EXCEPT ![b.in_offs] = e] \in [Slot -> Entry]
      BY <1>1 DEF Entry, NewEntry
    <2>2. (IF b.in_offs = b.out_offs /\ b.full
             THEN NextSlot(b.out_offs) ELSE b.out_offs) \in Slot
      BY <1>1, NextSlotType
    <2> QED
      BY <1>1, <1>5, <2>1, <2>2 DEF Buffer
  <1>7. /\ s3.entry = [b.entry EXCEPT ![b.in_offs] = e]
        /\ s3.out_offs = IF b.in_offs = b.out_offs /\ b.full
                           THEN NextSlot(b.out_offs) ELSE b.out_offs
        /\ s3.full = b.full
    BY <1>5
  <1>8. CASE b.in_offs + 1 = MAX_OPS
    <2>0. s3.in_offs = b.in_offs
      BY <1>5
    <2>1. a = [s3 EXCEPT !.in_offs = 0, !.full = TRUE]
      <3> HIDE DEF s3
      <3> QED
        BY <1>6, <1>8, <2>0, Advances
    <2>2. NextSlot(b.in_offs) = 0 /\ 0 \in Slot
      BY <1>1, <1>8, NextSlotType
    <2>3. a \in Buffer
      BY <1>6, <2>1, <2>2 DEF Buffer
    <2>4. a.entry = s3.entry /\ a.in_offs = 0 /\ a.out_offs = s3.out_offs /\ a.full = TRUE
      BY <1>6, <2>1 DEF Buffer
    <2>5. aesd_circular_buffer_add_entry(b, e) = a
      BY DEF aesd_circular_buffer_add_entry
    <2> HIDE DEF a, s3
    <2> QED
      BY <1>7, <1>8, <2>2, <2>3, <2>4, <2>5
  <1>9. CASE b.in_offs + 1 # MAX_OPS
    <2>0. s3.in_offs = b.in_offs
      BY <1>5
    <2>1. a = [s3 EXCEPT !.in_offs = b.in_offs + 1]
      <3> HIDE DEF s3
      <3> QED
        BY <1>6, <1>9, <2>0, Advances
    <2>2. NextSlot(b.in_offs) = b.in_offs + 1 /\ b.in_offs + 1 \in Slot
      BY <1>1, <1>9, BufferAssumption DEF NextSlot, Slot
    <2>3. a \in Buffer
      BY <1>6, <2>1, <2>2 DEF Buffer
    <2>4. /\ a.entry = s3.entry
          /\ a.in_offs = b.in_offs + 1
          /\ a.out_offs = s3.out_offs
          /\ a.full = s3.full
      BY <1>6, <2>1 DEF Buffer
    <2>5. aesd_circular_buffer_add_entry(b, e) = a
      BY DEF aesd_circular_buffer_add_entry
    <2> HIDE DEF a, s3
    <2> QED
      BY <1>7, <1>9, <2>2, <2>3, <2>4, <2>5
  <1> QED
    BY <1>8, <1>9

(* The struct between the groups of assignments of add_entry. *)
LEMMA PartialFields ==
  ASSUME NEW b \in Buffer, NEW e \in NewEntry
  PROVE  LET s1 == StoreBuffptr(b, e.buffptr)
             s2 == StoreSize(s1, e.size)
             s3 == AdvanceOut(s2)
         IN  /\ s1 \in Buffer /\ s2 \in Buffer /\ s3 \in Buffer
             /\ s1.entry = [b.entry EXCEPT ![b.in_offs].buffptr = e.buffptr]
             /\ s2.entry = [b.entry EXCEPT ![b.in_offs] = e]
             /\ s3.entry = [b.entry EXCEPT ![b.in_offs] = e]
             /\ s1.in_offs = b.in_offs /\ s2.in_offs = b.in_offs /\ s3.in_offs = b.in_offs
             /\ s2.out_offs = b.out_offs /\ s2.full = b.full
  <1> DEFINE s1 == StoreBuffptr(b, e.buffptr)
             s2 == StoreSize(s1, e.size)
             s3 == AdvanceOut(s2)
  <1>1. /\ b.entry \in [Slot -> Entry]
        /\ b.in_offs \in Slot
        /\ b.out_offs \in Slot
        /\ b.full \in BOOLEAN
    BY DEF Buffer
  <1>2. s1 = [entry |-> [b.entry EXCEPT ![b.in_offs].buffptr = e.buffptr],
              in_offs |-> b.in_offs, out_offs |-> b.out_offs, full |-> b.full]
    BY DEF StoreBuffptr, Buffer
  <1>3. [[b.entry EXCEPT ![b.in_offs].buffptr = e.buffptr]
          EXCEPT ![b.in_offs].size = e.size] = [b.entry EXCEPT ![b.in_offs] = e]
    BY <1>1 DEF Entry, NewEntry
  <1>4. s2 = [entry |-> [b.entry EXCEPT ![b.in_offs] = e],
              in_offs |-> b.in_offs, out_offs |-> b.out_offs, full |-> b.full]
    BY <1>2, <1>3 DEF StoreSize
  <1>5. [b.entry EXCEPT ![b.in_offs].buffptr = e.buffptr] \in [Slot -> Entry]
    BY <1>1 DEF Entry, NewEntry
  <1>6. [b.entry EXCEPT ![b.in_offs] = e] \in [Slot -> Entry]
    BY <1>1 DEF Entry, NewEntry
  <1>7. s1 \in Buffer
    BY <1>1, <1>2, <1>5 DEF Buffer
  <1>8. s2 \in Buffer
    BY <1>1, <1>4, <1>6 DEF Buffer
  <1>9. s3 = s2 \/ s3 = [s2 EXCEPT !.out_offs = NextSlot(s2.out_offs)]
    <2> HIDE DEF s2
    <2> QED
      BY <1>8, Advances
  <1>10. s3 \in Buffer /\ s3.entry = s2.entry /\ s3.in_offs = s2.in_offs
    <2> HIDE DEF s2, s3
    <2>1. CASE s3 = s2
      BY <1>8, <2>1
    <2>2. CASE s3 = [s2 EXCEPT !.out_offs = NextSlot(s2.out_offs)]
      <3>1. NextSlot(s2.out_offs) \in Slot
        BY <1>8, NextSlotType DEF Buffer
      <3> QED
        BY <1>8, <2>2, <3>1 DEF Buffer
    <2> QED
      BY <1>9, <2>1, <2>2
  <1>11. s1.entry = [b.entry EXCEPT ![b.in_offs].buffptr = e.buffptr] /\ s1.in_offs = b.in_offs
    BY <1>2
  <1>12. s2.entry = [b.entry EXCEPT ![b.in_offs] = e] /\ s2.in_offs = b.in_offs
         /\ s2.out_offs = b.out_offs /\ s2.full = b.full
    BY <1>4
  <1> HIDE DEF s1, s2, s3
  <1> SUFFICES /\ s1 \in Buffer /\ s2 \in Buffer /\ s3 \in Buffer
               /\ s1.entry = [b.entry EXCEPT ![b.in_offs].buffptr = e.buffptr]
               /\ s2.entry = [b.entry EXCEPT ![b.in_offs] = e]
               /\ s3.entry = [b.entry EXCEPT ![b.in_offs] = e]
               /\ s1.in_offs = b.in_offs /\ s2.in_offs = b.in_offs /\ s3.in_offs = b.in_offs
               /\ s2.out_offs = b.out_offs /\ s2.full = b.full
    BY DEF s1, s2, s3
  <1> QED
    BY <1>7, <1>8, <1>10, <1>11, <1>12

(* The increments leave the struct open at the end of the array; the wraps *)
(* close it again.                                                         *)
LEMMA OpenSteps ==
  ASSUME NEW b \in Buffer
  PROVE  /\ IncrementOut(b) \in OpenBuffer /\ IncrementOut(b).entry = b.entry
         /\ IncrementIn(b) \in OpenBuffer /\ IncrementIn(b).entry = b.entry
         /\ ~ InAtEnd(b) => IncrementIn(b) \in Buffer
         /\ WrapIn(IncrementIn(b)) \in Buffer
         /\ WrapIn(IncrementIn(b)).entry = b.entry
  <1>1. IncrementOut(b) = [entry |-> b.entry, in_offs |-> b.in_offs,
                           out_offs |-> b.out_offs + 1, full |-> b.full]
    BY DEF IncrementOut, Buffer
  <1>2. IncrementIn(b) = [entry |-> b.entry, in_offs |-> b.in_offs + 1,
                          out_offs |-> b.out_offs, full |-> b.full]
    BY DEF IncrementIn, Buffer
  <1>3. WrapIn(IncrementIn(b)) = [entry |-> b.entry, in_offs |-> 0,
                                  out_offs |-> b.out_offs, full |-> b.full]
    BY <1>2 DEF WrapIn
  <1>4. /\ b.in_offs + 1 \in 0 .. MAX_OPS /\ b.out_offs + 1 \in 0 .. MAX_OPS /\ 0 \in Slot
        /\ ~ InAtEnd(b) => b.in_offs + 1 \in Slot
        /\ b.in_offs \in 0 .. MAX_OPS /\ b.out_offs \in 0 .. MAX_OPS
    BY BufferAssumption DEF Buffer, Slot, InAtEnd
  <1> QED
    BY <1>1, <1>2, <1>3, <1>4 DEF Buffer, OpenBuffer

(* The initial struct is well formed. *)
LEMMA InitWellFormed == WellFormed(aesd_circular_buffer_init)
  BY BufferAssumption
  DEF WellFormed, aesd_circular_buffer_init, Buffer, Entry, EmptyEntry, Slot

(* add_entry keeps the offsets, the full flag and the used slots in        *)
(* agreement.                                                              *)
LEMMA AddEntryWellFormed ==
  ASSUME NEW b, WellFormed(b), NEW e \in NewEntry
  PROVE  WellFormed(aesd_circular_buffer_add_entry(b, e))
  <1> DEFINE a == aesd_circular_buffer_add_entry(b, e)
  <1>1. b \in Buffer
    BY DEF WellFormed
  <1>2. /\ a \in Buffer
        /\ a.entry = [b.entry EXCEPT ![b.in_offs] = e]
        /\ a.in_offs = NextSlot(b.in_offs)
        /\ a.out_offs = IF b.in_offs = b.out_offs /\ b.full
                          THEN NextSlot(b.out_offs) ELSE b.out_offs
        /\ b.in_offs + 1 = MAX_OPS => a.full = TRUE
        /\ b.in_offs + 1 # MAX_OPS => a.full = b.full
    BY <1>1, AddEntryFields
  <1>3. /\ b.entry \in [Slot -> Entry]
        /\ b.in_offs \in Slot
        /\ b.out_offs \in Slot
        /\ b.full \in BOOLEAN
    BY <1>1 DEF Buffer
  <1>4. e.buffptr # NULL
    BY BufferAssumption DEF NewEntry
  <1>5. a.full => a.in_offs = a.out_offs
    BY <1>2, <1>3, BufferAssumption DEF WellFormed, NextSlot, Slot
  <1>6. ~ a.full => a.out_offs = 0 /\ a.in_offs = b.in_offs + 1 /\ ~ b.full
    BY <1>2, <1>3, BufferAssumption DEF WellFormed, NextSlot, Slot
  <1>7. ~ a.full => \A i \in Slot : i >= a.in_offs => a.entry[i] = EmptyEntry
    BY <1>2, <1>3, <1>6, BufferAssumption DEF WellFormed, Slot
  <1>8. ASSUME NEW i \in Slot, a.full \/ i < a.in_offs
        PROVE  a.entry[i].buffptr # NULL
    <2>1. CASE i = b.in_offs
      BY <2>1, <1>2, <1>3, <1>4
    <2>2. CASE i # b.in_offs
      <3>1. b.full \/ i < b.in_offs
        BY <2>2, <1>2, <1>3, <1>8, BufferAssumption DEF NextSlot, Slot
      <3> QED
        BY <2>2, <3>1, <1>2, <1>3 DEF WellFormed
    <2> QED
      BY <2>1, <2>2
  <1> QED
    BY <1>2, <1>5, <1>6, <1>7, <1>8 DEF WellFormed

-----------------------------------------------------------------------------
(* The contents, as a sequence. *)

(* The contents are a sequence of entries, one per command held. *)
LEMMA ContentsSeq ==
  ASSUME NEW b, WellFormed(b)
  PROVE  /\ Count(b) \in 0 .. MAX_OPS
         /\ \A k \in 1 .. Count(b) : ScanSlot(b, k - 1) \in Slot
         /\ Contents(b) \in Seq(Entry)
         /\ Len(Contents(b)) = Count(b)
  <1>1. /\ b.entry \in [Slot -> Entry]
        /\ b.in_offs \in Slot
        /\ b.out_offs \in Slot
    BY DEF WellFormed, Buffer
  <1>2. Count(b) \in 0 .. MAX_OPS
    BY <1>1, BufferAssumption DEF Count, Slot
  <1>3. \A k \in 1 .. Count(b) : ScanSlot(b, k - 1) \in Slot
    BY <1>1, <1>2, BufferAssumption DEF ScanSlot, Slot
  <1>4. Contents(b) \in [1 .. Count(b) -> Entry]
    BY <1>1, <1>3 DEF Contents
  <1>5. Contents(b) \in Seq(Entry) /\ Len(Contents(b)) = Count(b)
    BY <1>2, <1>4
  <1> QED
    BY <1>2, <1>3, <1>5

(* Append, and drop the first item of a sequence that was full. *)
KeepLast(s, x) == IF Len(s) < MAX_OPS THEN Append(s, x) ELSE Tail(Append(s, x))

(* One call of add_entry appends to the contents and, when the buffer was  *)
(* full, drops the oldest command.                                         *)
LEMMA AddEntryKeeps ==
  ASSUME NEW b, WellFormed(b), NEW e \in NewEntry
  PROVE  Contents(aesd_circular_buffer_add_entry(b, e)) = KeepLast(Contents(b), e)
  <1> DEFINE a == aesd_circular_buffer_add_entry(b, e)
             s == Contents(b)
  <1>1. b \in Buffer
    BY DEF WellFormed
  <1>2. /\ a \in Buffer
        /\ a.entry = [b.entry EXCEPT ![b.in_offs] = e]
        /\ a.in_offs = NextSlot(b.in_offs)
        /\ a.out_offs = IF b.in_offs = b.out_offs /\ b.full
                          THEN NextSlot(b.out_offs) ELSE b.out_offs
        /\ b.in_offs + 1 = MAX_OPS => a.full = TRUE
        /\ b.in_offs + 1 # MAX_OPS => a.full = b.full
    BY <1>1, AddEntryFields
  <1>3. WellFormed(a)
    BY AddEntryWellFormed
  <1>4. /\ b.entry \in [Slot -> Entry]
        /\ b.in_offs \in Slot
        /\ b.out_offs \in Slot
        /\ b.full \in BOOLEAN
    BY <1>1 DEF Buffer
  <1>5. /\ Count(b) \in 0 .. MAX_OPS
        /\ \A k \in 1 .. Count(b) : ScanSlot(b, k - 1) \in Slot
        /\ s \in Seq(Entry)
        /\ Len(s) = Count(b)
        /\ \A k \in 1 .. Count(b) : s[k] = b.entry[ScanSlot(b, k - 1)]
    BY ContentsSeq DEF Contents
  <1>6. /\ Count(a) \in 0 .. MAX_OPS
        /\ \A k \in 1 .. Count(a) : ScanSlot(a, k - 1) \in Slot
        /\ Contents(a) \in Seq(Entry)
        /\ Len(Contents(a)) = Count(a)
        /\ \A k \in 1 .. Count(a) : Contents(a)[k] = a.entry[ScanSlot(a, k - 1)]
    BY <1>3, ContentsSeq DEF Contents
  <1>7. e \in Entry
    BY DEF Entry, NewEntry
  <1> HIDE DEF a, s
  <1>8. CASE b.full
    <2>1. Count(b) = MAX_OPS /\ b.in_offs = b.out_offs
      BY <1>8 DEF Count, WellFormed
    <2>2. Count(a) = MAX_OPS /\ a.out_offs = NextSlot(b.out_offs)
      BY <1>2, <1>8, <2>1 DEF Count
    <2>3. KeepLast(s, e) = Tail(Append(s, e))
      BY <1>5, <2>1, BufferAssumption DEF KeepLast
    <2>4. \A k \in 1 .. MAX_OPS :
            ScanSlot(a, k - 1) = IF k = MAX_OPS THEN b.in_offs ELSE ScanSlot(b, k)
      BY <1>4, <2>1, <2>2, BufferAssumption DEF ScanSlot, NextSlot, Slot
    <2>5. \A k \in 1 .. MAX_OPS : k # MAX_OPS => ScanSlot(b, k) # b.in_offs
      BY <1>4, <2>1, BufferAssumption DEF ScanSlot, Slot
    <2>6. \A k \in 1 .. MAX_OPS :
            Contents(a)[k] = IF k = MAX_OPS THEN e ELSE s[k + 1]
      <3> SUFFICES ASSUME NEW k \in 1 .. MAX_OPS
                   PROVE  Contents(a)[k] = IF k = MAX_OPS THEN e ELSE s[k + 1]
        OBVIOUS
      <3>1. CASE k = MAX_OPS
        BY <3>1, <1>2, <1>4, <1>6, <2>2, <2>4
      <3>2. CASE k # MAX_OPS
        <4>1. ScanSlot(a, k - 1) = ScanSlot(b, k) /\ ScanSlot(b, k) # b.in_offs
          BY <3>2, <2>4, <2>5
        <4>2. s[k + 1] = b.entry[ScanSlot(b, k)] /\ ScanSlot(b, k) \in Slot
          <5>1. k + 1 \in 1 .. Count(b) /\ (k + 1) - 1 = k
            BY <3>2, <2>1, BufferAssumption
          <5> QED
            BY <5>1, <1>5
        <4> QED
          BY <3>2, <4>1, <4>2, <1>2, <1>4, <1>6, <2>2
      <3> QED
        BY <3>1, <3>2
    <2>7. /\ Tail(Append(s, e)) \in Seq(Entry)
          /\ Len(Tail(Append(s, e))) = MAX_OPS
          /\ \A k \in 1 .. MAX_OPS :
               Tail(Append(s, e))[k] = IF k = MAX_OPS THEN e ELSE s[k + 1]
      <3>1. /\ Append(s, e) \in Seq(Entry)
            /\ Append(s, e) # << >>
            /\ Len(Append(s, e)) = MAX_OPS + 1
            /\ \A i \in 1 .. MAX_OPS : Append(s, e)[i] = s[i]
            /\ Append(s, e)[MAX_OPS + 1] = e
        BY <1>5, <1>7, <2>1, AppendProperties
      <3>2. /\ Tail(Append(s, e)) \in Seq(Entry)
            /\ Len(Tail(Append(s, e))) = MAX_OPS
            /\ \A k \in 1 .. MAX_OPS : Tail(Append(s, e))[k] = Append(s, e)[k + 1]
        BY <3>1, HeadTailProperties, BufferAssumption
      <3> QED
        BY <3>1, <3>2, BufferAssumption
    <2>8. Contents(a) = Tail(Append(s, e))
      BY <1>6, <2>2, <2>6, <2>7, SeqEqual
    <2> QED
      BY <2>3, <2>8 DEF a, s
  <1>9. CASE ~ b.full
    <2>1. Count(b) = b.in_offs /\ b.out_offs = 0
      BY <1>9 DEF Count, WellFormed
    <2>2. a.out_offs = 0 /\ Count(a) = b.in_offs + 1
      BY <1>2, <1>4, <1>9, <2>1, BufferAssumption DEF Count, NextSlot, Slot
    <2>3. KeepLast(s, e) = Append(s, e)
      BY <1>4, <1>5, <2>1, BufferAssumption DEF KeepLast, Slot
    <2>4. \A k \in 1 .. b.in_offs + 1 : ScanSlot(a, k - 1) = k - 1
      BY <1>4, <2>2, BufferAssumption DEF ScanSlot, Slot
    <2>5. \A k \in 1 .. b.in_offs : ScanSlot(b, k - 1) = k - 1
      BY <1>4, <2>1, BufferAssumption DEF ScanSlot, Slot
    <2>6. ASSUME NEW k \in 1 .. b.in_offs + 1
          PROVE  Contents(a)[k] = IF k = b.in_offs + 1 THEN e ELSE s[k]
      <3>1. Contents(a)[k] = a.entry[k - 1] /\ k - 1 \in Slot
        BY <1>4, <1>6, <2>2, <2>4, BufferAssumption DEF Slot
      <3>2. CASE k = b.in_offs + 1
        <4>1. k - 1 = b.in_offs
          BY <3>2, <1>4 DEF Slot
        <4>2. a.entry[b.in_offs] = e
          BY <1>2, <1>4
        <4> QED
          BY <3>1, <3>2, <4>1, <4>2
      <3>3. CASE k # b.in_offs + 1
        <4>1. k \in 1 .. b.in_offs /\ k - 1 # b.in_offs
          BY <3>3, <1>4 DEF Slot
        <4>2. s[k] = b.entry[k - 1]
          BY <4>1, <1>5, <2>1, <2>5
        <4> QED
          BY <3>1, <3>3, <4>1, <4>2, <1>2, <1>4
      <3> QED
        BY <3>2, <3>3
    <2>7. /\ Append(s, e) \in Seq(Entry)
          /\ Len(Append(s, e)) = b.in_offs + 1
          /\ \A k \in 1 .. b.in_offs : Append(s, e)[k] = s[k]
          /\ Append(s, e)[b.in_offs + 1] = e
      BY <1>5, <1>7, <2>1, AppendProperties
    <2>8. \A k \in 1 .. b.in_offs + 1 : Contents(a)[k] = Append(s, e)[k]
      BY <1>4, <2>6, <2>7 DEF Slot
    <2>9. Contents(a) = Append(s, e)
      BY <1>6, <2>2, <2>7, <2>8, SeqEqual
    <2> QED
      BY <2>3, <2>9 DEF a, s
  <1> QED
    BY <1>4, <1>8, <1>9

-----------------------------------------------------------------------------
(* Induction and recursion over the natural numbers, in the form the       *)
(* provers can use: sets and functions in place of operators.              *)

(* Induction over the natural numbers, for a set in place of a predicate.  *)
LEMMA SetInduction ==
  ASSUME NEW T, 0 \in T, \A n \in Nat : n \in T => n + 1 \in T
  PROVE  \A n \in Nat : n \in T
  <1> SUFFICES ASSUME Nat \ T # {} PROVE FALSE
    OBVIOUS
  <1>1. PICK x \in Nat \ T : \A y \in Nat \ T : <<y, x>> \notin OpToRel(<, Nat)
    BY WFMin, NatLessThanWellFounded
  <1>2. \A y \in Nat \ T : ~ (y < x)
    BY <1>1 DEF OpToRel
  <1>3. x # 0 /\ x - 1 \in Nat
    OBVIOUS
  <1>4. x - 1 \in T
    BY <1>2, <1>3
  <1> QED
    BY <1>3, <1>4

(* A step of a recursion over 1 .. n with values in S, and a function that *)
(* starts at z and follows the steps.                                      *)
Steps(n, S) == [1 .. n -> [S -> S]]
Follows(f, n, z, step) == f[0] = z /\ \A k \in 1 .. n : f[k] = step[k][f[k - 1]]

(* A function defined by recursion over 0 .. n, each value from the one    *)
(* before, exists.                                                         *)
LEMMA RecursionExists ==
  ASSUME NEW n \in Nat, NEW S, NEW z \in S, NEW step \in Steps(n, S)
  PROVE  \E f \in [0 .. n -> S] : Follows(f, n, z, step)
  <1> USE DEF Steps, Follows
  <1> DEFINE R(m) == \E f \in [0 .. m -> S] : Follows(f, m, z, step)
             T == {m \in Nat : m <= n => R(m)}
  <1>1. 0 \in T
    <2> DEFINE f == [k \in 0 .. 0 |-> z]
    <2>1. f \in [0 .. 0 -> S] /\ f[0] = z
      OBVIOUS
    <2> HIDE DEF f
    <2>2. \A k \in 1 .. 0 : f[k] = step[k][f[k - 1]]
      OBVIOUS
    <2> QED
      BY <2>1, <2>2
  <1>2. ASSUME NEW m \in Nat, m \in T PROVE m + 1 \in T
    <2> SUFFICES ASSUME m + 1 <= n PROVE R(m + 1)
      OBVIOUS
    <2>1. PICK f \in [0 .. m -> S] : Follows(f, m, z, step)
      BY <1>2
    <2> DEFINE g == [k \in 0 .. m + 1 |-> IF k = m + 1 THEN step[m + 1][f[m]] ELSE f[k]]
    <2>2. step[m + 1][f[m]] \in S
      OBVIOUS
    <2>3. g \in [0 .. m + 1 -> S]
      BY <2>2
    <2>4. Follows(g, m + 1, z, step)
      <3>1. g[m + 1] = step[m + 1][f[m]] /\ \A k \in 0 .. m : g[k] = f[k]
        OBVIOUS
      <3> HIDE DEF g
      <3>2. ASSUME NEW k \in 1 .. m + 1 PROVE g[k] = step[k][g[k - 1]]
        <4>1. CASE k = m + 1
          BY <3>1, <4>1
        <4>2. CASE k # m + 1
          <5>1. k \in 1 .. m /\ k - 1 \in 0 .. m
            BY <4>2
          <5> QED
            BY <2>1, <3>1, <5>1
        <4> QED
          BY <4>1, <4>2
      <3> QED
        BY <2>1, <3>1, <3>2
    <2> HIDE DEF g
    <2> QED
      BY <2>3, <2>4
  <1> HIDE DEF T
  <1>3. n \in T
    BY <1>1, <1>2, SetInduction
  <1> QED
    BY <1>3 DEF T

(* The partial sums of a sequence of numbers exist. *)
LEMMA SumExists ==
  ASSUME NEW n \in Nat, NEW w \in [1 .. n -> Nat]
  PROVE  \E f \in [0 .. n -> Nat] : f[0] = 0 /\ \A k \in 1 .. n : f[k] = f[k - 1] + w[k]
  <1> DEFINE step == [k \in 1 .. n |-> [v \in Nat |-> v + w[k]]]
  <1>1. step \in Steps(n, Nat)
    BY DEF Steps
  <1>2. \A k \in 1 .. n : \A v \in Nat : step[k][v] = v + w[k]
    OBVIOUS
  <1> HIDE DEF step
  <1>3. PICK f \in [0 .. n -> Nat] : Follows(f, n, 0, step)
    BY <1>1, RecursionExists
  <1>4. ASSUME NEW k \in 1 .. n PROVE f[k] = f[k - 1] + w[k]
    <2>1. f[k - 1] \in Nat
      BY <1>3
    <2> QED
      BY <1>2, <1>3, <2>1, Zenon DEF Follows
  <1> QED
    BY <1>3, <1>4 DEF Follows

(* The recursive definition of a sum, once it is known to have a solution. *)
LEMMA SumType ==
  ASSUME NEW n \in Nat, NEW w \in [1 .. n -> Nat], NEW f, DOMAIN f = 0 .. n,
         f[0] = 0, \A k \in 1 .. n : f[k] = f[k - 1] + w[k]
  PROVE  \A k \in 0 .. n : f[k] \in Nat
  <1> DEFINE T == {k \in Nat : k <= n => f[k] \in Nat}
  <1>1. 0 \in T
    OBVIOUS
  <1>2. ASSUME NEW k \in Nat, k \in T PROVE k + 1 \in T
    <2> SUFFICES ASSUME k + 1 <= n PROVE f[k + 1] \in Nat
      OBVIOUS
    <2>1. f[k + 1] = f[k] + w[k + 1] /\ f[k] \in Nat
      BY <1>2
    <2> QED
      BY <2>1
  <1> HIDE DEF T
  <1>3. \A k \in Nat : k \in T
    BY <1>1, <1>2, SetInduction
  <1> QED
    BY <1>3 DEF T

-----------------------------------------------------------------------------
(* Lengths and the search. *)

(* A struct an unlocked search can walk: out_offs is inside the array. *)
Walkable(b) == b \in OpenBuffer /\ b.out_offs \in Slot

(* Outside add_entry every struct is. *)
LEMMA BufferWalkable ==
  ASSUME NEW b \in Buffer
  PROVE  Walkable(b) /\ b \in OpenBuffer /\ b.in_offs # MAX_OPS
  BY BufferAssumption DEF Buffer, OpenBuffer, Walkable, Slot

(* get_length_of_all_entries_in_buffer is the sum of the sizes, slot by    *)
(* slot.                                                                   *)
LEMMA OpenLengthIsSum ==
  ASSUME NEW b \in OpenBuffer
  PROVE  \E sum \in [0 .. MAX_OPS -> Nat] :
           /\ get_length_of_all_entries_in_buffer(b) = sum[MAX_OPS]
           /\ sum[0] = 0
           /\ \A k \in 1 .. MAX_OPS : sum[k] = sum[k - 1] + b.entry[k - 1].size
  <1> DEFINE sum[k \in 0 .. MAX_OPS] == IF k = 0 THEN 0 ELSE sum[k - 1] + b.entry[k - 1].size
             w == [k \in 1 .. MAX_OPS |-> b.entry[k - 1].size]
  <1>1. w \in [1 .. MAX_OPS -> Nat] /\ \A k \in 1 .. MAX_OPS : w[k] = b.entry[k - 1].size
    BY BufferAssumption DEF OpenBuffer, Entry, Slot
  <1> HIDE DEF w
  <1>2. PICK f \in [0 .. MAX_OPS -> Nat] :
          f[0] = 0 /\ \A k \in 1 .. MAX_OPS : f[k] = f[k - 1] + w[k]
    BY <1>1, SumExists, BufferAssumption
  <1>3. f = [k \in 0 .. MAX_OPS |-> IF k = 0 THEN 0 ELSE f[k - 1] + b.entry[k - 1].size]
    <2>1. \A k \in 0 .. MAX_OPS : f[k] = IF k = 0 THEN 0 ELSE f[k - 1] + b.entry[k - 1].size
      BY <1>1, <1>2, BufferAssumption
    <2> QED
      BY <1>2, <2>1
  <1>4. sum = [k \in 0 .. MAX_OPS |-> IF k = 0 THEN 0 ELSE sum[k - 1] + b.entry[k - 1].size]
    BY <1>3
  <1>5. get_length_of_all_entries_in_buffer(b) = sum[MAX_OPS]
    BY DEF get_length_of_all_entries_in_buffer
  <1> HIDE DEF sum
  <1>6. DOMAIN sum = 0 .. MAX_OPS
    BY <1>4
  <1>7. \A k \in 0 .. MAX_OPS : sum[k] = IF k = 0 THEN 0 ELSE sum[k - 1] + b.entry[k - 1].size
    BY <1>4
  <1>8. sum[0] = 0
    BY <1>7, BufferAssumption
  <1>9. \A k \in 1 .. MAX_OPS : sum[k] = sum[k - 1] + b.entry[k - 1].size
    BY <1>7
  <1>10. \A k \in 1 .. MAX_OPS : sum[k] = sum[k - 1] + w[k]
    BY <1>9, <1>1
  <1>11. \A k \in 0 .. MAX_OPS : sum[k] \in Nat
    BY <1>1, <1>6, <1>8, <1>10, SumType, BufferAssumption
  <1>12. sum \in [0 .. MAX_OPS -> Nat]
    BY <1>4, <1>11
  <1> QED
    BY <1>5, <1>8, <1>9, <1>12

LEMMA LengthIsSum ==
  ASSUME NEW b \in Buffer
  PROVE  \E sum \in [0 .. MAX_OPS -> Nat] :
           /\ get_length_of_all_entries_in_buffer(b) = sum[MAX_OPS]
           /\ sum[0] = 0
           /\ \A k \in 1 .. MAX_OPS : sum[k] = sum[k - 1] + b.entry[k - 1].size
  BY BufferWalkable, OpenLengthIsSum

(* curr_searched_buffer_length is the sum of the sizes from out_offs on. *)
LEMMA WalkIsSum ==
  ASSUME NEW b, Walkable(b)
  PROVE  /\ SearchedLength(b) \in [0 .. MAX_OPS -> Nat]
         /\ SearchedLength(b)[0] = 0
         /\ \A k \in 1 .. MAX_OPS :
              /\ ScanSlot(b, k - 1) \in Slot
              /\ SearchedLength(b)[k] = SearchedLength(b)[k - 1] + b.entry[ScanSlot(b, k - 1)].size
  <1> DEFINE len[k \in 0 .. MAX_OPS] ==
               IF k = 0 THEN 0 ELSE len[k - 1] + b.entry[ScanSlot(b, k - 1)].size
             w == [k \in 1 .. MAX_OPS |-> b.entry[ScanSlot(b, k - 1)].size]
  <1>0. \A k \in 1 .. MAX_OPS : ScanSlot(b, k - 1) \in Slot
    BY BufferAssumption DEF Walkable, Slot, ScanSlot
  <1>1. /\ w \in [1 .. MAX_OPS -> Nat]
        /\ \A k \in 1 .. MAX_OPS : w[k] = b.entry[ScanSlot(b, k - 1)].size
    BY <1>0 DEF Walkable, OpenBuffer, Entry
  <1> HIDE DEF w
  <1>2. PICK f \in [0 .. MAX_OPS -> Nat] :
          f[0] = 0 /\ \A k \in 1 .. MAX_OPS : f[k] = f[k - 1] + w[k]
    BY <1>1, SumExists, BufferAssumption
  <1>3. f = [k \in 0 .. MAX_OPS |->
               IF k = 0 THEN 0 ELSE f[k - 1] + b.entry[ScanSlot(b, k - 1)].size]
    <2>1. \A k \in 0 .. MAX_OPS :
            f[k] = IF k = 0 THEN 0 ELSE f[k - 1] + b.entry[ScanSlot(b, k - 1)].size
      BY <1>1, <1>2, BufferAssumption
    <2> QED
      BY <1>2, <2>1
  <1>4. len = [k \in 0 .. MAX_OPS |->
                 IF k = 0 THEN 0 ELSE len[k - 1] + b.entry[ScanSlot(b, k - 1)].size]
    BY <1>3
  <1>5. SearchedLength(b) = len
    BY DEF SearchedLength
  <1> HIDE DEF len
  <1>6. \A k \in 0 .. MAX_OPS :
          len[k] = IF k = 0 THEN 0 ELSE len[k - 1] + b.entry[ScanSlot(b, k - 1)].size
    BY <1>4
  <1>7. DOMAIN len = 0 .. MAX_OPS /\ len[0] = 0
    <2>1. DOMAIN len = 0 .. MAX_OPS
      BY <1>4
    <2>2. 0 \in 0 .. MAX_OPS
      BY BufferAssumption
    <2> QED
      BY <1>6, <2>1, <2>2
  <1>8. \A k \in 1 .. MAX_OPS : len[k] = len[k - 1] + b.entry[ScanSlot(b, k - 1)].size
    BY <1>6
  <1>9. \A k \in 1 .. MAX_OPS : len[k] = len[k - 1] + w[k]
    BY <1>8, <1>1
  <1>10. \A k \in 0 .. MAX_OPS : len[k] \in Nat
    BY <1>1, <1>7, <1>9, SumType, BufferAssumption
  <1>11. len \in [0 .. MAX_OPS -> Nat]
    BY <1>4, <1>10
  <1> QED
    BY <1>0, <1>5, <1>7, <1>8, <1>11

(* The same for a struct outside add_entry. *)
LEMMA SearchedIsSum ==
  ASSUME NEW b \in Buffer
  PROVE  /\ SearchedLength(b) \in [0 .. MAX_OPS -> Nat]
         /\ SearchedLength(b)[0] = 0
         /\ \A k \in 1 .. MAX_OPS :
              /\ ScanSlot(b, k - 1) \in Slot
              /\ SearchedLength(b)[k] = SearchedLength(b)[k - 1] + b.entry[ScanSlot(b, k - 1)].size
  <1>1. Walkable(b)
    BY BufferWalkable
  <1> QED
    BY <1>1, WalkIsSum

(* A sum only grows. *)
LEMMA SumGrows ==
  ASSUME NEW n \in Nat, NEW f \in [0 .. n -> Nat],
         \A k \in 1 .. n : f[k - 1] <= f[k]
  PROVE  \A i, j \in 0 .. n : i <= j => f[i] <= f[j]
  <1> SUFFICES ASSUME NEW i \in 0 .. n PROVE \A j \in 0 .. n : i <= j => f[i] <= f[j]
    OBVIOUS
  <1> DEFINE T == {d \in Nat : i + d <= n => f[i] <= f[i + d]}
  <1>1. 0 \in T
    OBVIOUS
  <1>2. ASSUME NEW d \in Nat, d \in T PROVE d + 1 \in T
    <2> SUFFICES ASSUME i + (d + 1) <= n PROVE f[i] <= f[i + (d + 1)]
      OBVIOUS
    <2>1. f[i] <= f[i + d]
      BY <1>2
    <2>2. i + (d + 1) \in 1 .. n /\ (i + (d + 1)) - 1 = i + d /\ i + d \in 0 .. n
      OBVIOUS
    <2>3. f[i + d] <= f[i + (d + 1)]
      BY <2>2
    <2> QED
      BY <2>1, <2>2, <2>3
  <1> HIDE DEF T
  <1>3. \A d \in Nat : d \in T
    BY <1>1, <1>2, SetInduction
  <1>4. ASSUME NEW j \in 0 .. n, i <= j PROVE f[i] <= f[j]
    <2>1. j - i \in Nat /\ i + (j - i) = j
      BY <1>4
    <2>2. i + (j - i) <= n => f[i] <= f[i + (j - i)]
      BY <1>3, <2>1 DEF T
    <2> QED
      BY <2>1, <2>2
  <1> QED
    BY <1>4

(* Summing from out_offs on and wrapping, or from slot 0 on: the result is *)
(* the same, whatever the offsets.                                         *)
LEMMA LengthIsSearched ==
  ASSUME NEW b \in Buffer
  PROVE  get_length_of_all_entries_in_buffer(b) = SearchedLength(b)[MAX_OPS]
  <1> DEFINE len == SearchedLength(b)
             o == b.out_offs
  <1>1. PICK sum \in [0 .. MAX_OPS -> Nat] :
           /\ get_length_of_all_entries_in_buffer(b) = sum[MAX_OPS]
           /\ sum[0] = 0
           /\ \A k \in 1 .. MAX_OPS : sum[k] = sum[k - 1] + b.entry[k - 1].size
    BY LengthIsSum
  <1>2. /\ len \in [0 .. MAX_OPS -> Nat] /\ len[0] = 0
        /\ \A k \in 1 .. MAX_OPS : len[k] = len[k - 1] + b.entry[ScanSlot(b, k - 1)].size
    BY SearchedIsSum
  <1>3. o \in 0 .. MAX_OPS - 1 /\ \A i \in Slot : b.entry[i].size \in Nat
    BY DEF Buffer, Entry, Slot
  <1>4. \A i \in 0 .. MAX_OPS : ScanSlot(b, i) = IF o + i >= MAX_OPS THEN (o + i) - MAX_OPS ELSE o + i
    BY <1>3, BufferAssumption DEF ScanSlot
  <1> HIDE DEF len, o
  <1> DEFINE T == {k \in Nat : k <= MAX_OPS - o => len[k] = sum[o + k] - sum[o]}
  <1>5. 0 \in T
    BY <1>1, <1>2, <1>3, BufferAssumption
  <1>6. ASSUME NEW k \in Nat, k \in T PROVE k + 1 \in T
    <2> SUFFICES ASSUME k + 1 <= MAX_OPS - o PROVE len[k + 1] = sum[o + (k + 1)] - sum[o]
      OBVIOUS
    <2>1. len[k] = sum[o + k] - sum[o]
      BY <1>3, <1>6, BufferAssumption
    <2>2. k + 1 \in 1 .. MAX_OPS /\ (k + 1) - 1 = k /\ o + (k + 1) \in 1 .. MAX_OPS
          /\ (o + (k + 1)) - 1 = o + k /\ o + k \in Slot
      BY <1>3, BufferAssumption DEF Slot
    <2>3. ScanSlot(b, k) = o + k
      BY <1>4, <2>2, <1>3, BufferAssumption DEF Slot
    <2>4. len[k + 1] = len[k] + b.entry[o + k].size
      BY <1>2, <2>2, <2>3
    <2>5. sum[o + (k + 1)] = sum[o + k] + b.entry[o + k].size
      BY <1>1, <2>2
    <2>6. len[k] \in Nat /\ sum[o + k] \in Nat /\ sum[o] \in Nat /\ b.entry[o + k].size \in Nat
      BY <1>1, <1>2, <1>3, <2>2, BufferAssumption DEF Slot
    <2> QED
      BY <2>1, <2>4, <2>5, <2>6
  <1>7. \A k \in Nat : k \in T
    <2> HIDE DEF T
    <2> QED
      BY <1>5, <1>6, SetInduction
  <1>8. len[MAX_OPS - o] = sum[MAX_OPS] - sum[o]
    <2>1. MAX_OPS - o \in Nat /\ o + (MAX_OPS - o) = MAX_OPS
      BY <1>3, BufferAssumption
    <2> QED
      BY <1>7, <2>1
  <1> DEFINE U == {j \in Nat : j <= o => len[(MAX_OPS - o) + j] = (sum[MAX_OPS] - sum[o]) + sum[j]}
  <1>9. 0 \in U
    BY <1>1, <1>2, <1>3, <1>8, BufferAssumption
  <1>10. ASSUME NEW j \in Nat, j \in U PROVE j + 1 \in U
    <2> SUFFICES ASSUME j + 1 <= o
                 PROVE  len[(MAX_OPS - o) + (j + 1)] = (sum[MAX_OPS] - sum[o]) + sum[j + 1]
      OBVIOUS
    <2> DEFINE k == (MAX_OPS - o) + j
    <2>1. len[k] = (sum[MAX_OPS] - sum[o]) + sum[j]
      BY <1>3, <1>10, BufferAssumption
    <2>2. /\ k + 1 \in 1 .. MAX_OPS /\ (k + 1) - 1 = k /\ (MAX_OPS - o) + (j + 1) = k + 1
          /\ o + k = MAX_OPS + j /\ j + 1 \in 1 .. MAX_OPS /\ (j + 1) - 1 = j /\ j \in Slot
          /\ k \in 0 .. MAX_OPS
      <3>1. o \in Nat /\ MAX_OPS \in Nat /\ o < MAX_OPS /\ j < o
        BY <1>3, BufferAssumption
      <3>2. j \in Slot /\ j + 1 \in 1 .. MAX_OPS /\ (j + 1) - 1 = j
        BY <3>1 DEF Slot
      <3>3. k \in 0 .. MAX_OPS /\ k + 1 \in 1 .. MAX_OPS
        BY <3>1
      <3>4. (k + 1) - 1 = k /\ (MAX_OPS - o) + (j + 1) = k + 1 /\ o + k = MAX_OPS + j
        BY <3>1
      <3> QED
        BY <3>2, <3>3, <3>4
    <2> HIDE DEF k
    <2>3. ScanSlot(b, k) = j
      <3>1. o + k >= MAX_OPS /\ (o + k) - MAX_OPS = j
        BY <2>2, BufferAssumption
      <3> QED
        BY <1>4, <2>2, <3>1
    <2>4. len[k + 1] = len[k] + b.entry[j].size
      BY <1>2, <2>2, <2>3
    <2>5. sum[j + 1] = sum[j] + b.entry[j].size
      BY <1>1, <2>2
    <2>6. /\ len[k] \in Nat /\ sum[j] \in Nat /\ sum[o] \in Nat /\ sum[MAX_OPS] \in Nat
          /\ b.entry[j].size \in Nat
      BY <1>1, <1>2, <1>3, <2>2, BufferAssumption DEF Slot
    <2>7. len[k + 1] = (sum[MAX_OPS] - sum[o]) + sum[j + 1]
      BY <2>1, <2>4, <2>5, <2>6
    <2> QED
      BY <2>2, <2>7
  <1>11. \A j \in Nat : j \in U
    <2> HIDE DEF U
    <2> QED
      BY <1>9, <1>10, SetInduction
  <1>12. len[MAX_OPS] = sum[MAX_OPS]
    <2>1. o \in Nat /\ (MAX_OPS - o) + o = MAX_OPS /\ sum[MAX_OPS] \in Nat /\ sum[o] \in Nat
      BY <1>1, <1>3, BufferAssumption
    <2> QED
      BY <1>11, <2>1
  <1> QED
    BY <1>1, <1>12 DEF len

(* No byte is past the last command: the unused slots are empty. *)
LEMMA UnusedAreEmpty ==
  ASSUME NEW b, WellFormed(b)
  PROVE  /\ Count(b) \in 0 .. MAX_OPS
         /\ \A k \in Count(b) .. MAX_OPS : SearchedLength(b)[k] = SearchedLength(b)[Count(b)]
  <1> DEFINE len == SearchedLength(b)
             c == Count(b)
  <1>1. b \in Buffer /\ c \in 0 .. MAX_OPS
    BY ContentsSeq DEF WellFormed
  <1>2. /\ len \in [0 .. MAX_OPS -> Nat]
        /\ \A k \in 1 .. MAX_OPS : len[k] = len[k - 1] + b.entry[ScanSlot(b, k - 1)].size
    BY <1>1, SearchedIsSum
  <1>3. CASE c = MAX_OPS
    BY <1>1, <1>3, BufferAssumption
  <1>4. CASE c # MAX_OPS
    <2>1. c = b.in_offs /\ b.out_offs = 0 /\ \A i \in Slot : i >= c => b.entry[i] = EmptyEntry
      BY <1>4 DEF Count, WellFormed
    <2>2. \A k \in c + 1 .. MAX_OPS : b.entry[ScanSlot(b, k - 1)].size = 0
      BY <1>1, <2>1, BufferAssumption DEF ScanSlot, Slot, EmptyEntry
    <2> HIDE DEF len, c
    <2> DEFINE T == {d \in Nat : c + d <= MAX_OPS => len[c + d] = len[c]}
    <2>3. 0 \in T
      BY <1>1
    <2>4. ASSUME NEW d \in Nat, d \in T PROVE d + 1 \in T
      <3> SUFFICES ASSUME c + (d + 1) <= MAX_OPS PROVE len[c + (d + 1)] = len[c]
        OBVIOUS
      <3>1. len[c + d] = len[c]
        BY <1>1, <2>4, BufferAssumption
      <3> DEFINE k == c + (d + 1)
      <3>2. /\ k \in 1 .. MAX_OPS /\ k \in c + 1 .. MAX_OPS /\ k - 1 = c + d
            /\ c + d \in 0 .. MAX_OPS
        BY <1>1, BufferAssumption
      <3> HIDE DEF k
      <3>3. len[k] = len[c + d] + 0
        BY <1>2, <2>2, <3>2
      <3>4. len[k] = len[c]
        BY <1>1, <1>2, <3>1, <3>2, <3>3
      <3> QED
        BY <3>4 DEF k
    <2>5. \A d \in Nat : d \in T
      <3> HIDE DEF T
      <3> QED
        BY <2>3, <2>4, SetInduction
    <2>6. ASSUME NEW k \in c .. MAX_OPS PROVE len[k] = len[c]
      <3>1. k - c \in Nat /\ c + (k - c) = k /\ k <= MAX_OPS
        BY <1>1, BufferAssumption
      <3>2. c + (k - c) <= MAX_OPS => len[c + (k - c)] = len[c]
        BY <2>5, <3>1
      <3> QED
        BY <3>1, <3>2
    <2> QED
      BY <1>1, <2>6 DEF len, c
  <1> QED
    BY <1>3, <1>4

(* The search looks at no more entries than there are slots, and at all    *)
(* that hold a command.                                                    *)
LEMMA SearchStepsBound ==
  ASSUME NEW b
  PROVE  /\ Walkable(b) => SearchSteps(b) \in 1 .. MAX_OPS
         /\ WellFormed(b) => SearchSteps(b) = IF Count(b) = 0 THEN MAX_OPS ELSE Count(b)
  BY BufferAssumption
  DEF SearchSteps, Buffer, OpenBuffer, Walkable, Slot, WellFormed, Count

(* The position looked for is a number, and the given one when the loop    *)
(* has an end.                                                             *)
LEMMA SearchedPosition ==
  ASSUME NEW b \in OpenBuffer, NEW pos \in Nat
  PROVE  Searched(b, pos) \in Nat /\ (b.in_offs # MAX_OPS => Searched(b, pos) = pos)
  <1> DEFINE total == get_length_of_all_entries_in_buffer(b)
  <1>1. total \in Nat
    BY OpenLengthIsSum, BufferAssumption
  <1>2. Searched(b, pos) = IF b.in_offs = MAX_OPS /\ total > 0 THEN pos % total ELSE pos
    BY DEF Searched
  <1> HIDE DEF total
  <1> QED
    BY <1>1, <1>2

(* A non-empty set of natural numbers has a least one. *)
LEMMA LeastNumber ==
  ASSUME NEW T, T \subseteq Nat, T # {}
  PROVE  \E x \in T : \A y \in T : x <= y
  <1>1. PICK x \in T : \A y \in T : <<y, x>> \notin OpToRel(<, Nat)
    BY WFMin, NatLessThanWellFounded
  <1>2. \A y \in T : ~ (y < x)
    BY <1>1 DEF OpToRel
  <1> QED
    BY <1>2

(* What find_entry_offset_for_fpos returns, for any state of the struct it *)
(* can walk: the entry the position falls into, or nothing when the        *)
(* position is past all the entries it looks at.                           *)
LEMMA SearchFinds ==
  ASSUME NEW b, Walkable(b), NEW char_offset \in Nat
  PROVE  LET found == aesd_circular_buffer_find_entry_offset_for_fpos(b, char_offset)
             pos == Searched(b, char_offset)
             len == SearchedLength(b)
         IN  \/ /\ found = NotFound
                /\ \A k \in 0 .. SearchSteps(b) - 1 : len[k + 1] <= pos
             \/ \E k \in 0 .. SearchSteps(b) - 1 :
                  /\ len[k] <= pos /\ pos < len[k + 1]
                  /\ found = [slot |-> ScanSlot(b, k), byte |-> pos - len[k]]
  <1> DEFINE found == aesd_circular_buffer_find_entry_offset_for_fpos(b, char_offset)
             pos == Searched(b, char_offset)
             len == SearchedLength(b)
             hits == {k \in 0 .. SearchSteps(b) - 1 : len[k + 1] > pos}
             least == CHOOSE x \in hits : \A y \in hits : x <= y
  <1>0. pos \in Nat
    BY SearchedPosition DEF Walkable
  <1>1. /\ hits = {} => found = NotFound
        /\ hits # {} => found = [slot |-> ScanSlot(b, least), byte |-> pos - len[least]]
    BY DEF aesd_circular_buffer_find_entry_offset_for_fpos
  <1>2. /\ len \in [0 .. MAX_OPS -> Nat] /\ len[0] = 0
        /\ SearchSteps(b) \in 1 .. MAX_OPS
    BY WalkIsSum, SearchStepsBound
  <1> HIDE DEF len, found, pos
  <1>3. CASE hits = {}
    <2>1. \A k \in 0 .. SearchSteps(b) - 1 : ~ (len[k + 1] > pos)
      BY <1>3
    <2>2. \A k \in 0 .. SearchSteps(b) - 1 : len[k + 1] \in Nat
      BY <1>2, BufferAssumption
    <2>3. \A k \in 0 .. SearchSteps(b) - 1 : len[k + 1] <= pos
      BY <1>0, <2>1, <2>2
    <2> QED
      BY <1>1, <1>3, <2>3 DEF found, len, pos
  <1>4. CASE hits # {}
    <2>1. hits \subseteq Nat
      BY <1>2
    <2>2. least \in hits /\ \A y \in hits : least <= y
      <3> HIDE DEF hits
      <3> QED
        BY <1>4, <2>1, LeastNumber
    <2> HIDE DEF least
    <2>3. least \in 0 .. SearchSteps(b) - 1 /\ len[least + 1] > pos
      BY <2>2
    <2>4. len[least] <= pos
      <3>1. CASE least = 0
        BY <1>0, <1>2, <3>1
      <3>2. CASE least # 0
        <4>1. least - 1 \in 0 .. SearchSteps(b) - 1 /\ (least - 1) + 1 = least
              /\ ~ (least <= least - 1) /\ len[least] \in Nat
          BY <1>2, <2>3, <3>2, BufferAssumption
        <4>2. least - 1 \notin hits
          BY <2>2, <4>1
        <4>3. ~ (len[least] > pos)
          BY <4>1, <4>2
        <4> QED
          BY <1>0, <4>1, <4>3
      <3> QED
        BY <3>1, <3>2
    <2>5. pos < len[least + 1]
      <3>1. len[least + 1] \in Nat
        BY <1>2, <2>3, BufferAssumption
      <3> QED
        BY <1>0, <2>3, <3>1
    <2> QED
      BY <1>1, <1>4, <2>3, <2>4, <2>5 DEF found, len, pos
  <1> QED
    BY <1>3, <1>4

(* In a well-formed buffer the search finds the command the position falls *)
(* into, and nothing exactly for the positions past the end.               *)
LEMMA SearchAgrees ==
  ASSUME NEW b, WellFormed(b), NEW pos \in Nat
  PROVE  LET found == aesd_circular_buffer_find_entry_offset_for_fpos(b, pos)
             len == SearchedLength(b)
         IN  /\ len[MAX_OPS] <= pos => found = NotFound
             /\ pos < len[MAX_OPS] =>
                  \E k \in 0 .. Count(b) - 1 :
                    /\ len[k] <= pos /\ pos < len[k + 1]
                    /\ found = [slot |-> ScanSlot(b, k), byte |-> pos - len[k]]
  <1> DEFINE found == aesd_circular_buffer_find_entry_offset_for_fpos(b, pos)
             len == SearchedLength(b)
             c == Count(b)
             s == SearchSteps(b)
  <1>1. b \in Buffer
    BY DEF WellFormed
  <1>2. /\ len \in [0 .. MAX_OPS -> Nat] /\ len[0] = 0
        /\ \A k \in 1 .. MAX_OPS : len[k - 1] <= len[k]
    <2>1. /\ len \in [0 .. MAX_OPS -> Nat] /\ len[0] = 0
          /\ \A k \in 1 .. MAX_OPS : /\ ScanSlot(b, k - 1) \in Slot
                                     /\ len[k] = len[k - 1] + b.entry[ScanSlot(b, k - 1)].size
      BY <1>1, SearchedIsSum
    <2>2. \A i \in Slot : b.entry[i].size \in Nat
      BY <1>1 DEF Buffer, Entry
    <2> HIDE DEF len
    <2>3. ASSUME NEW k \in 1 .. MAX_OPS PROVE len[k - 1] <= len[k]
      <3>1. b.entry[ScanSlot(b, k - 1)].size \in Nat /\ len[k - 1] \in Nat
        <4>1. ScanSlot(b, k - 1) \in Slot
          BY <2>1, Zenon
        <4>2. k - 1 \in 0 .. MAX_OPS
          BY BufferAssumption
        <4> QED
          BY <2>1, <2>2, <4>1, <4>2
      <3> QED
        BY <2>1, <3>1
    <2> QED
      BY <2>1, <2>3
  <1>3. s \in 1 .. MAX_OPS /\ s = IF c = 0 THEN MAX_OPS ELSE c
    BY <1>1, SearchStepsBound, BufferWalkable
  <1>4. c \in 0 .. MAX_OPS /\ \A k \in c .. MAX_OPS : len[k] = len[c]
    BY UnusedAreEmpty
  <1>5. \/ found = NotFound /\ \A k \in 0 .. s - 1 : len[k + 1] <= pos
        \/ \E k \in 0 .. s - 1 :
             /\ len[k] <= pos /\ pos < len[k + 1]
             /\ found = [slot |-> ScanSlot(b, k), byte |-> pos - len[k]]
    <2>1. Walkable(b) /\ Searched(b, pos) = pos
      BY <1>1, BufferWalkable, SearchedPosition
    <2> HIDE DEF found, len, s
    <2> QED
      BY <2>1, SearchFinds DEF found, len, s
  <1> HIDE DEF found, len, c, s
  <1>6. \A i, j \in 0 .. MAX_OPS : i <= j => len[i] <= len[j]
    BY <1>2, SumGrows, BufferAssumption
  <1>7. CASE found = NotFound /\ \A k \in 0 .. s - 1 : len[k + 1] <= pos
    <2>1. s - 1 \in 0 .. s - 1 /\ (s - 1) + 1 = s /\ s \in c .. MAX_OPS /\ MAX_OPS \in c .. MAX_OPS
      BY <1>3, <1>4, BufferAssumption
    <2>2. len[s] <= pos /\ len[MAX_OPS] = len[s] /\ len[s] \in Nat
      BY <1>2, <1>3, <1>4, <1>7, <2>1
    <2> QED
      BY <1>7, <2>2 DEF found, len
  <1>8. ASSUME NEW k \in 0 .. s - 1, len[k] <= pos, pos < len[k + 1],
               found = [slot |-> ScanSlot(b, k), byte |-> pos - len[k]]
        PROVE  pos < len[MAX_OPS] /\ k \in 0 .. c - 1
    <2>1. k + 1 \in 0 .. MAX_OPS /\ MAX_OPS \in 0 .. MAX_OPS /\ k + 1 <= MAX_OPS
      BY <1>3, BufferAssumption
    <2>2. pos < len[MAX_OPS]
      <3>1. len[k + 1] <= len[MAX_OPS] /\ len[k + 1] \in Nat /\ len[MAX_OPS] \in Nat
        BY <1>2, <1>6, <2>1
      <3> QED
        BY <1>8, <3>1
    <2>3. c # 0
      <3> SUFFICES ASSUME c = 0 PROVE FALSE
        OBVIOUS
      <3>1. len[MAX_OPS] = 0
        BY <1>2, <1>4, <2>1
      <3> QED
        BY <2>2, <3>1
    <2> QED
      BY <1>3, <1>4, <2>2, <2>3
  <1>9. ASSUME NEW k \in 0 .. s - 1, len[k] <= pos, pos < len[k + 1],
               found = [slot |-> ScanSlot(b, k), byte |-> pos - len[k]]
        PROVE  /\ ~ (len[MAX_OPS] <= pos)
               /\ \E i \in 0 .. c - 1 : /\ len[i] <= pos /\ pos < len[i + 1]
                                        /\ found = [slot |-> ScanSlot(b, i), byte |-> pos - len[i]]
    <2>1. pos < len[MAX_OPS] /\ k \in 0 .. c - 1
      BY <1>8, <1>9
    <2>2. len[MAX_OPS] \in Nat
      BY <1>2, BufferAssumption
    <2> QED
      BY <1>9, <2>1, <2>2
  <1> QED
    BY <1>5, <1>7, <1>9 DEF found, len, c

-----------------------------------------------------------------------------
(* Concatenations. *)

(* n sequences, their partial concatenations, and the lengths of those. *)
Pieces(n, V) == [1 .. n -> Seq(V)]
Joins(f, w, n) == f[0] = << >> /\ \A k \in 1 .. n : f[k] = f[k - 1] \o w[k]
Lengths(len, w, n) ==
  len \in [0 .. n -> Nat] /\ len[0] = 0 /\ \A k \in 1 .. n : len[k] = len[k - 1] + Len(w[k])

(* The partial concatenations of a sequence of sequences exist. *)
LEMMA ConcatExists ==
  ASSUME NEW n \in Nat, NEW V, NEW w \in Pieces(n, V)
  PROVE  \E f \in [0 .. n -> Seq(V)] : Joins(f, w, n)
  <1> USE DEF Pieces, Joins
  <1> DEFINE step == [k \in 1 .. n |-> [v \in Seq(V) |-> v \o w[k]]]
  <1>1. \A k \in 1 .. n : \A v \in Seq(V) : v \o w[k] \in Seq(V)
    BY ConcatProperties
  <1>2. step \in Steps(n, Seq(V))
    BY <1>1 DEF Steps
  <1>3. \A k \in 1 .. n : \A v \in Seq(V) : step[k][v] = v \o w[k]
    OBVIOUS
  <1>4. << >> \in Seq(V)
    OBVIOUS
  <1> HIDE DEF step
  <1>5. PICK f \in [0 .. n -> Seq(V)] : Follows(f, n, << >>, step)
    BY <1>2, <1>4, RecursionExists
  <1>6. ASSUME NEW k \in 1 .. n PROVE f[k] = f[k - 1] \o w[k]
    <2>1. f[k - 1] \in Seq(V)
      BY <1>5
    <2> QED
      BY <1>3, <1>5, <2>1, Zenon DEF Follows
  <1> QED
    BY <1>5, <1>6 DEF Follows

(* They are sequences. *)
LEMMA ConcatType ==
  ASSUME NEW n \in Nat, NEW V, NEW w \in Pieces(n, V), NEW f, Joins(f, w, n)
  PROVE  \A k \in 0 .. n : f[k] \in Seq(V)
  <1> USE DEF Pieces, Joins
  <1> DEFINE S == Seq(V)
             T == {k \in Nat : k <= n => f[k] \in S}
  <1>1. \A k \in 1 .. n : \A v \in S : v \o w[k] \in S
    BY ConcatProperties
  <1>2. f[0] \in S
    OBVIOUS
  <1> HIDE DEF S
  <1>3. 0 \in T
    BY <1>2
  <1>4. ASSUME NEW k \in Nat, k \in T PROVE k + 1 \in T
    <2> SUFFICES ASSUME k + 1 <= n PROVE f[k + 1] \in S
      OBVIOUS
    <2>1. k + 1 \in 1 .. n /\ (k + 1) - 1 = k /\ f[k] \in S
      BY <1>4
    <2>2. f[k + 1] = f[k] \o w[k + 1]
      BY <2>1
    <2> QED
      BY <1>1, <2>1, <2>2
  <1> HIDE DEF T
  <1>5. \A k \in Nat : k \in T
    BY <1>3, <1>4, SetInduction
  <1>6. \A k \in 0 .. n : f[k] \in S
    BY <1>5 DEF T
  <1> QED
    BY <1>6 DEF S

(* A place inside a piece that ends at or before q. *)
LEMMA InsidePiece ==
  ASSUME NEW p \in Nat, NEW m \in Nat, NEW q \in Nat, NEW r \in Nat, NEW j \in 1 .. m,
         p + m <= q
  PROVE  p + j \in 1 .. q + r /\ p + j <= q
  OBVIOUS

(* Where the pieces are in a concatenation. *)
LEMMA ConcatCells ==
  ASSUME NEW n \in Nat, NEW V, NEW w \in Pieces(n, V), NEW cat, Joins(cat, w, n),
         NEW len, Lengths(len, w, n)
  PROVE  \A k \in 0 .. n :
           /\ Len(cat[k]) = len[k]
           /\ \A i \in 1 .. k : \A j \in 1 .. Len(w[i]) : cat[k][len[i - 1] + j] = w[i][j]
  <1>0. \A k \in 0 .. n : cat[k] \in Seq(V)
    BY ConcatType
  <1> SUFFICES ASSUME w \in [1 .. n -> Seq(V)],
                      cat[0] = << >>, \A k \in 1 .. n : cat[k] = cat[k - 1] \o w[k],
                      len \in [0 .. n -> Nat], len[0] = 0,
                      \A k \in 1 .. n : len[k] = len[k - 1] + Len(w[k])
               PROVE  \A k \in 0 .. n :
                        /\ Len(cat[k]) = len[k]
                        /\ \A i \in 1 .. k : \A j \in 1 .. Len(w[i]) :
                             cat[k][len[i - 1] + j] = w[i][j]
    BY DEF Pieces, Joins, Lengths
  <1> DEFINE size == [k \in 1 .. n |-> Len(w[k])]
  <1>1. size \in [1 .. n -> Nat] /\ \A k \in 1 .. n : size[k] = Len(w[k])
    <2>1. \A k \in 1 .. n : Len(w[k]) \in Nat
      BY LenProperties
    <2> QED
      BY <2>1
  <1> HIDE DEF size
  <1>2. \A k \in 1 .. n : len[k] = len[k - 1] + size[k]
    BY <1>1
  <1>3. \A k \in 1 .. n : len[k - 1] <= len[k]
    BY <1>1, <1>2
  <1>4. \A i, j \in 0 .. n : i <= j => len[i] <= len[j]
    BY <1>3, SumGrows
  <1> DEFINE P(k) == /\ Len(cat[k]) = len[k]
                     /\ \A i \in 1 .. k : \A j \in 1 .. size[i] : cat[k][len[i - 1] + j] = w[i][j]
             T == {k \in Nat : k <= n => P(k)}
  <1>5. 0 \in T
    <2>1. Len(cat[0]) = len[0]
      BY EmptySeq
    <2> QED
      BY <2>1
  <1>6. ASSUME NEW k \in Nat, k \in T PROVE k + 1 \in T
    <2> HIDE DEF P
    <2> SUFFICES ASSUME k + 1 <= n PROVE P(k + 1)
      OBVIOUS
    <2> USE DEF P
    <2>0. k + 1 \in 1 .. n /\ (k + 1) - 1 = k /\ k \in 0 .. n /\ k + 1 \in 0 .. n
      OBVIOUS
    <2>1. P(k)
      BY <1>6, <2>0
    <2>2. PICK u \in Seq(V), c \in Seq(V), d \in Seq(V) :
            u = w[k + 1] /\ c = cat[k] /\ d = cat[k + 1]
      BY <1>0, <2>0
    <2>3. d = c \o u /\ Len(c) = len[k] /\ Len(u) = size[k + 1]
      BY <1>1, <2>0, <2>1, <2>2
    <2>4. /\ Len(d) = Len(c) + Len(u)
          /\ \A i \in 1 .. Len(c) + Len(u) : d[i] = IF i <= Len(c) THEN c[i] ELSE u[i - Len(c)]
      <3>1. /\ Len(c \o u) = Len(c) + Len(u)
            /\ \A i \in 1 .. Len(c) + Len(u) :
                 (c \o u)[i] = IF i <= Len(c) THEN c[i] ELSE u[i - Len(c)]
        BY ConcatProperties
      <3> QED
        BY <2>3, <3>1
    <2> DEFINE q == len[k]
               r == size[k + 1]
    <2>5. q \in Nat /\ r \in Nat /\ len[k + 1] = q + r
      BY <1>1, <1>2, <2>0
    <2>6. Len(d) = q + r /\ \A i \in 1 .. q + r : d[i] = IF i <= q THEN c[i] ELSE u[i - q]
      BY <2>3, <2>4
    <2> HIDE DEF q, r
    <2>7. ASSUME NEW i \in 1 .. k, NEW j \in 1 .. size[i]
          PROVE  d[len[i - 1] + j] = w[i][j]
      <3>1. c[len[i - 1] + j] = w[i][j]
        BY <2>1, <2>2
      <3>2. i \in 1 .. n /\ i \in 0 .. n /\ i - 1 \in 0 .. n /\ i <= k
        BY <2>0
      <3>3. /\ len[i] = len[i - 1] + size[i] /\ len[i] <= q
            /\ len[i - 1] \in Nat /\ len[i] \in Nat /\ size[i] \in Nat
        BY <1>1, <1>2, <1>4, <2>0, <3>2 DEF q
      <3> DEFINE p == len[i - 1]
                 m == size[i]
      <3>4. p + j \in 1 .. q + r /\ p + j <= q
        <4>1. p \in Nat /\ m \in Nat /\ j \in 1 .. m /\ p + m <= q
          BY <3>3
        <4> HIDE DEF p, m
        <4> QED
          BY <2>5, <4>1, InsidePiece
      <3> QED
        BY <2>6, <3>1, <3>4
    <2>8. ASSUME NEW j \in 1 .. r
          PROVE  d[q + j] = u[j]
      <3>1. q + j \in 1 .. q + r /\ ~ (q + j <= q) /\ (q + j) - q = j
        BY <2>5
      <3> QED
        BY <2>6, <3>1
    <2>9. ASSUME NEW i \in 1 .. k + 1, NEW j \in 1 .. size[i]
          PROVE  d[len[i - 1] + j] = w[i][j]
      <3>1. CASE i = k + 1
        BY <2>0, <2>2, <2>8, <3>1 DEF q, r
      <3>2. CASE i # k + 1
        <4>1. i \in 1 .. k
          BY <3>2
        <4> QED
          BY <2>7, <4>1
      <3> QED
        BY <3>1, <3>2
    <2>10. Len(cat[k + 1]) = len[k + 1]
      BY <2>2, <2>5, <2>6
    <2> QED
      BY <2>2, <2>9, <2>10
  <1>7. \A k \in Nat : k \in T
    <2> HIDE DEF T
    <2> QED
      BY <1>5, <1>6, SetInduction
  <1>8. ASSUME NEW k \in 0 .. n PROVE P(k)
    <2> HIDE DEF P
    <2> QED
      BY <1>7
  <1> SUFFICES ASSUME NEW k \in 0 .. n
               PROVE  /\ Len(cat[k]) = len[k]
                      /\ \A i \in 1 .. k : \A j \in 1 .. Len(w[i]) :
                           cat[k][len[i - 1] + j] = w[i][j]
    OBVIOUS
  <1>9. P(k)
    BY <1>8
  <1>10. ASSUME NEW i \in 1 .. k, NEW j \in 1 .. Len(w[i])
         PROVE  cat[k][len[i - 1] + j] = w[i][j]
    <2>1. size[i] = Len(w[i])
      BY <1>1
    <2> QED
      BY <1>9, <2>1
  <1> QED
    BY <1>9, <1>10
=============================================================================

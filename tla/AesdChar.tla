------------------------------- MODULE AesdChar -------------------------------
(***************************************************************************)
(* The character driver of aesd-char-driver/main.c: its file operations    *)
(* called by any number of threads, each with one open file.               *)
(*                                                                         *)
(* aesd_write and aesd_ioctl hold dev->lock; aesd_read and aesd_llseek     *)
(* take no lock, so every assignment of add_entry and each of the five     *)
(* accesses of aesd_read to the shared struct is a step of its own.        *)
(* What a lock holder does to memory no unlocked code looks at (growing    *)
(* and filling the read_buf) is one step.                                  *)
(***************************************************************************)
EXTENDS CircularBuffer, Sequences

CONSTANTS
  Thread,    \* the calling threads; these of them call
  Writer,    \*   write(),
  Reader,    \*   read() and lseek(),
  Seeker,    \*   ioctl()
  NoThread,  \* nobody: the owner of a free lock
  Byte,      \* what a character can be
  Newline,   \* '\n', a member of Byte
  Freed,     \* the state of an address that is not allocated
  Garbage,   \* what a user buffer holds when the copy to it failed or was undefined
  Chunk,     \* the buffers a caller passes to write()
  Counts,    \* the lengths a caller passes to read()
  SeekTo,    \* the pairs <<write_cmd, write_cmd_offset>> of AESDCHAR_IOCSEEKTO
  Offsets,   \* the offsets a caller passes to lseek()
  SizeMod,   \* size_t and loff_t count modulo this (2^64 in the source)
  MaxPending,\* bound: the longest unterminated command in the model
  Faults     \* what may go wrong: a subset of
             \*   {"signal", "alloc", "copy_from", "copy_to", "register"}

ASSUME DriverAssumption ==
  /\ NoThread \notin Thread
  /\ Writer \cup Reader \cup Seeker \subseteq Thread
  /\ NULL \notin Entry
  /\ Newline \in Byte
  /\ Chunk \subseteq Seq(Byte)
  /\ Freed \notin Seq(Byte)
  /\ Garbage \notin Seq(Byte)
  /\ Counts \subseteq Nat
  /\ SeekTo \subseteq Nat \X Nat
  /\ Offsets \subseteq Int
  /\ SizeMod \in Nat \ {0}

VARIABLES
  module,    \* "new", "loaded", "removed" or "broken" (insmod died)
  lock,      \* dev->lock: the thread that holds it, or NoThread
  read_buf,  \* dev->read_buf: NULL or the entry being assembled
  circ_buf,  \* *dev->circ_buf
  heap,      \* address -> the bytes stored there, or Freed
  lost,      \* which kinds of the other blocks were dropped without kfree
  opened,    \* the threads that have the device open
  f_pos,     \* thread -> filp->f_pos
  pc,        \* thread -> where it is in a call
  frame,     \* thread -> the arguments and locals of that call
  overlap    \* history: threads whose call overlapped a change of *dev->circ_buf

dev  == <<lock, read_buf, circ_buf, heap, lost>>
vars == <<module, dev, opened, f_pos, pc, frame, overlap>>

-----------------------------------------------------------------------------
(* Types of the locals. *)

WriteFrame == [chunk : Seq(Byte), to_free : Ptr \cup {NULL}]
ReadFrame  == [count : Nat, slot : Int, byte : Int, n : Nat, buffptr : Ptr \cup {NULL}]
SeekFrame  == [write_cmd : Nat, offset : Nat]
Reply      == [call : {"read", "write", "ioctl", "error"}, arg : Nat, offset : Nat,
               data : Seq(Byte) \cup {Garbage}]
NoFrame    == << >>

Idle == "idle"

(* Blocks that hold no command's bytes: a struct aesd_buffer_entry,        *)
(* aesd_ioctl's mybuffer, and what aesd_setup_cdev allocates.              *)
Struct == {"entry", "mybuffer", "setup"}

(* The states of a call in which aesd_write and aesd_ioctl own the lock. *)
Publishing == {"add_size", "add_out", "wrap_out", "add_in", "wrap_in", "set_full"}
Critical   == {"w_store", "add_buffptr", "w_free", "w_unlock", "s_copy"} \cup Publishing

Reading == {"r_find", "r_size", "r_buffptr", "r_copy"}

Location == {Idle, "w_lock", "s_lock", "ret", "dead"} \cup Critical \cup Reading

(* Conversions between loff_t and size_t. *)
ToUnsigned(x) == x % SizeMod
ToSigned(x) ==
  IF 2 * (x % SizeMod) >= SizeMod THEN (x % SizeMod) - SizeMod ELSE x % SizeMod

-----------------------------------------------------------------------------
(* Loading and unloading the module; the external side (VFS, module        *)
(* reference count) lets it be removed only while nobody has it open.      *)

Init ==
  /\ module = "new"
  /\ lock = NoThread
  /\ read_buf = NULL
  /\ circ_buf = aesd_circular_buffer_init
  /\ heap = [p \in Ptr |-> Freed]
  /\ lost = {}
  /\ opened = {}
  /\ f_pos = [t \in Thread |-> 0]
  /\ pc = [t \in Thread |-> Idle]
  /\ frame = [t \in Thread |-> NoFrame]
  /\ overlap = {}

(* An alloc_chrdev_region that fails ends it before anything is changed. *)
aesd_init_module ==
  /\ module = "new"
  /\ module' = "loaded"
  /\ lock' = NoThread
  /\ read_buf' = EmptyEntry
  /\ circ_buf' = aesd_circular_buffer_init
  /\ UNCHANGED <<heap, lost, opened, f_pos, pc, frame, overlap>>

(* cdev_add failed: the region is given back and insmod fails, but what    *)
(* aesd_setup_cdev allocated is not freed and the next attempt forgets it. *)
RegisterFault ==
  /\ "register" \in Faults
  /\ module = "new"
  /\ lost' = lost \cup {"setup"}
  /\ UNCHANGED <<module, lock, read_buf, circ_buf, heap, opened, f_pos, pc, frame, overlap>>

(* kmalloc of the circ_buf or of the read_buf returned NULL, and insmod    *)
(* dies writing through it.                                                *)
SetupAllocFault ==
  /\ "alloc" \in Faults
  /\ module = "new"
  /\ module' = "broken"
  /\ lost' \in {lost, lost \cup {"setup"}}
  /\ UNCHANGED <<lock, read_buf, circ_buf, heap, opened, f_pos, pc, frame, overlap>>

(* Fault: the cleanup stops at in_offs, as if the array were never full. *)
aesd_cleanup_partial ==
  /\ module = "loaded" /\ opened = {}
  /\ module' = "removed"
  /\ heap' = [p \in Ptr |->
       IF \E i \in 0 .. circ_buf.in_offs - 1 : circ_buf.entry[i].buffptr = p
         THEN Freed ELSE heap[p]]
  /\ lost' = lost \cup {"setup"}
  /\ UNCHANGED <<lock, read_buf, circ_buf, opened, f_pos, pc, frame, overlap>>

(* Frees the bytes of every entry.  The circ_buf, the read_buf and its     *)
(* bytes are left allocated.                                               *)
aesd_cleanup_module ==
  /\ module = "loaded" /\ opened = {}
  /\ module' = "removed"
  /\ heap' = [p \in Ptr |->
       IF \E i \in Slot : circ_buf.entry[i].buffptr = p THEN Freed ELSE heap[p]]
  /\ lost' = lost \cup {"setup"}
  /\ UNCHANGED <<lock, read_buf, circ_buf, opened, f_pos, pc, frame, overlap>>

aesd_open(t) ==
  /\ module = "loaded"
  /\ t \notin opened /\ pc[t] = Idle
  /\ opened' = opened \cup {t}
  /\ f_pos' = [f_pos EXCEPT ![t] = 0]
  /\ UNCHANGED <<module, dev, pc, frame, overlap>>

(* close(), or the exit of a thread that died inside the driver. *)
aesd_release(t) ==
  /\ t \in opened /\ pc[t] \in {Idle, "dead"}
  /\ opened' = opened \ {t}
  /\ UNCHANGED <<module, dev, f_pos, pc, frame, overlap>>

-----------------------------------------------------------------------------
(* Calls and returns. *)

Goto(t, where, locals) ==
  /\ pc' = [pc EXCEPT ![t] = where]
  /\ frame' = [frame EXCEPT ![t] = locals]

(* A call that starts while add_entry is under way overlaps it too. *)
Begin(t, where, locals) ==
  /\ t \in opened /\ pc[t] = Idle
  /\ Goto(t, where, locals)
  /\ overlap' = IF \E u \in Thread : pc[u] \in Publishing
                  THEN overlap \cup {t} ELSE overlap \ {t}

Result(c, a, o, d) == [call |-> c, arg |-> a, offset |-> o, data |-> d]

(* The caller has the reply. *)
Return(t) ==
  /\ pc[t] = "ret"
  /\ Goto(t, Idle, NoFrame)
  /\ overlap' = overlap \ {t}
  /\ UNCHANGED <<module, dev, opened, f_pos>>

(* A step changed *dev->circ_buf under every call in progress but t's. *)
Disturb(t) == overlap' = overlap \cup {u \in Thread \ {t} : pc[u] # Idle}

(* mutex_lock_interruptible returned nonzero: -ERESTARTSYS. *)
LockInterrupted(t) ==
  /\ "signal" \in Faults
  /\ pc[t] \in {"w_lock", "s_lock"}
  /\ Goto(t, "ret", Result("error", 0, 0, << >>))
  /\ UNCHANGED <<module, dev, opened, f_pos, overlap>>

-----------------------------------------------------------------------------
(* aesd_llseek.  newpos is a size_t, so the test newpos < 0 never holds. *)

SEEK_SET == 0
SEEK_CUR == 1
SEEK_END == 2

SeekBase(t, whence) ==
  CASE whence = SEEK_SET -> 0
    [] whence = SEEK_CUR -> f_pos[t]
    [] whence = SEEK_END -> get_length_of_all_entries_in_buffer(circ_buf)

aesd_llseek(t, off, whence) ==
  LET newpos == ToUnsigned(SeekBase(t, whence) + off)
  IN  /\ t \in opened /\ pc[t] = Idle
      /\ f_pos' = [f_pos EXCEPT ![t] = ToSigned(newpos)]
      /\ UNCHANGED <<module, dev, opened, pc, frame, overlap>>

-----------------------------------------------------------------------------
(* aesd_read, which takes no lock.  The VFS refuses a negative f_pos. *)

(* count, cut down to what is left when it exceeds the whole content. *)
RemainingCount(t, count) ==
  LET total == get_length_of_all_entries_in_buffer(circ_buf)
  IN  IF count > total THEN ToUnsigned(total - f_pos[t]) ELSE count

ReadTotal(t, asked) ==
  LET count == RemainingCount(t, asked)
  IN  /\ f_pos[t] >= 0
      /\ Begin(t, IF count = 0 THEN "ret" ELSE "r_find",
               IF count = 0 THEN Result("read", asked, 0, << >>)
               ELSE [count |-> count, slot |-> -1, byte |-> 0, n |-> 0, buffptr |-> NULL])
      /\ UNCHANGED <<module, dev, opened, f_pos>>

ReadFind(t) ==
  LET found == aesd_circular_buffer_find_entry_offset_for_fpos(circ_buf, f_pos[t])
  IN  /\ pc[t] = "r_find"
      /\ circ_buf.out_offs # MAX_OPS
      /\ IF found = NotFound
           THEN Goto(t, "ret", Result("read", frame[t].count, 0, << >>))
           ELSE Goto(t, "r_size", [frame[t] EXCEPT !.slot = found.slot, !.byte = found.byte])
      /\ UNCHANGED <<module, dev, opened, f_pos, overlap>>

(* out_offs was read between its increment and its wrap: the search starts *)
(* behind the array and runs on through memory that is not the struct's.   *)
(* It kills the thread or takes what it meets there for an entry.          *)
ReadFindOutside(t) ==
  /\ pc[t] = "r_find"
  /\ circ_buf.out_offs = MAX_OPS
  /\ \/ Goto(t, "dead", NoFrame) /\ UNCHANGED f_pos
     \/ \E n \in 0 .. frame[t].count :
          /\ Goto(t, "ret", Result("read", frame[t].count, n, Garbage))
          /\ f_pos' = [f_pos EXCEPT ![t] = ToSigned(f_pos[t] + n)]
  /\ UNCHANGED <<module, dev, opened, overlap>>

(* size_of_current_buffer is read anew; bytes_to_copy is what is left of   *)
(* the entry or count, whichever is smaller, as unsigned numbers.          *)
ReadSize(t) ==
  LET rest == ToUnsigned(circ_buf.entry[frame[t].slot].size - frame[t].byte)
  IN  /\ pc[t] = "r_size"
      /\ Goto(t, "r_buffptr",
              [frame[t] EXCEPT !.n = IF rest < frame[t].count THEN rest ELSE frame[t].count])
      /\ UNCHANGED <<module, dev, opened, f_pos, overlap>>

ReadBuffptr(t) ==
  /\ pc[t] = "r_buffptr"
  /\ Goto(t, "r_copy", [frame[t] EXCEPT !.buffptr = circ_buf.entry[frame[t].slot].buffptr])
  /\ UNCHANGED <<module, dev, opened, f_pos, overlap>>

(* The bytes copy_to_user reads are allocated and inside the entry. *)
CopyInBounds(t) ==
  /\ frame[t].buffptr # NULL
  /\ heap[frame[t].buffptr] # Freed
  /\ frame[t].byte + frame[t].n <= Len(heap[frame[t].buffptr])

(* The result of copy_to_user is not looked at. *)
Copied(t) ==
  IF CopyInBounds(t)
    THEN SubSeq(heap[frame[t].buffptr], frame[t].byte + 1, frame[t].byte + frame[t].n)
    ELSE Garbage

(* Fault: the position is advanced by what was asked for. *)
AdvancedByCount(t) == ToSigned(f_pos[t] + frame[t].count)

Advanced(t) == ToSigned(f_pos[t] + frame[t].n)

ReadCopy(t) ==
  /\ pc[t] = "r_copy"
  /\ \E data \in {Copied(t)} \cup IF "copy_to" \in Faults THEN {Garbage} ELSE {} :
       Goto(t, "ret", Result("read", frame[t].count, frame[t].n, data))
  /\ f_pos' = [f_pos EXCEPT ![t] = Advanced(t)]
  /\ UNCHANGED <<module, dev, opened, overlap>>

-----------------------------------------------------------------------------
(* aesd_write.  It does not use f_pos. *)

WriteCall(t, chunk) ==
  /\ Begin(t, "w_lock", [chunk |-> chunk, to_free |-> NULL])
  /\ UNCHANGED <<module, dev, opened, f_pos>>

(* Fault: the lock is taken without looking whether it is free. *)
WriteLockUnchecked(t) ==
  /\ pc[t] = "w_lock"
  /\ lock' = t
  /\ pc' = [pc EXCEPT ![t] = "w_store"]
  /\ UNCHANGED <<module, read_buf, circ_buf, heap, lost, opened, f_pos, frame, overlap>>

WriteLock(t) ==
  /\ pc[t] = "w_lock" /\ lock = NoThread
  /\ lock' = t
  /\ pc' = [pc EXCEPT ![t] = "w_store"]
  /\ UNCHANGED <<module, read_buf, circ_buf, heap, lost, opened, f_pos, frame, overlap>>

(* The command assembled so far: nothing when there is no read_buf or it   *)
(* has no memory.                                                          *)
Pending ==
  IF read_buf = NULL THEN EmptyEntry
  ELSE IF read_buf.buffptr = NULL THEN EmptyEntry ELSE read_buf

PendingBytes ==
  IF Pending.buffptr = NULL THEN << >> ELSE heap[Pending.buffptr]

FreePtr == {p \in Ptr : heap[p] = Freed}

(* Where kmalloc or krealloc may put the command: krealloc may extend the  *)
(* old block in place.                                                     *)
NewBlock == FreePtr \cup (IF Pending.buffptr = NULL THEN {} ELSE {Pending.buffptr})

(* The read_buf's memory is now at p and holds bytes; the old block, if    *)
(* there was one elsewhere, is free.                                       *)
Reallocated(p, bytes) ==
  [q \in Ptr |-> IF q = p THEN bytes ELSE IF q = Pending.buffptr THEN Freed ELSE heap[q]]

(* Fault: only the last character is looked at. *)
TerminatedAtEnd(chunk) == chunk # << >> /\ chunk[Len(chunk)] = Newline

Terminated(chunk) == \E i \in 1 .. Len(chunk) : chunk[i] = Newline

(* The read_buf is allocated or grown, the chunk copied to its end, and    *)
(* its size advanced; a newline anywhere in the chunk ends the command.    *)
WriteStore(t) ==
  LET bytes == PendingBytes \o frame[t].chunk
  IN  /\ pc[t] = "w_store"
      /\ \E p \in NewBlock :
           /\ heap' = Reallocated(p, bytes)
           /\ read_buf' = [buffptr |-> p, size |-> Pending.size + Len(frame[t].chunk)]
      /\ pc' = [pc EXCEPT ![t] = IF Terminated(frame[t].chunk) THEN "add_buffptr" ELSE "w_unlock"]
      /\ UNCHANGED <<module, lock, circ_buf, lost, opened, f_pos, frame, overlap>>

(* copy_from_user failed: -EFAULT, with the lock still held.  The block    *)
(* has been grown but the size has not.                                    *)
WriteCopyFault(t) ==
  /\ "copy_from" \in Faults
  /\ pc[t] = "w_store"
  /\ \E p \in NewBlock :
       /\ heap' = Reallocated(p, PendingBytes)
       /\ read_buf' = [buffptr |-> p, size |-> Pending.size]
  /\ Goto(t, "ret", Result("error", 0, 0, << >>))
  /\ UNCHANGED <<module, lock, circ_buf, lost, opened, f_pos, overlap>>

(* kmalloc or krealloc returned NULL.  The entry itself is written through *)
(* the null pointer and the thread dies; a missing block makes the copy to *)
(* it fail or kill the thread.  The lock stays held either way.            *)
WriteAllocFault(t) ==
  /\ "alloc" \in Faults
  /\ pc[t] = "w_store"
  /\ \/ /\ read_buf = NULL
        /\ read_buf' = NULL
        /\ Goto(t, "dead", NoFrame)
     \/ /\ read_buf' = [buffptr |-> NULL, size |-> Pending.size]
        /\ \/ Goto(t, "dead", NoFrame)
           \/ Goto(t, "ret", Result("error", 0, 0, << >>))
  /\ UNCHANGED <<module, lock, circ_buf, heap, lost, opened, f_pos, overlap>>

(* aesd_circular_buffer_add_entry, step by step. *)
AddBuffptr(t) ==
  /\ pc[t] = "add_buffptr"
  /\ Goto(t, "add_size", [frame[t] EXCEPT !.to_free = DisplacedBuffptr(circ_buf)])
  /\ circ_buf' = StoreBuffptr(circ_buf, read_buf.buffptr)
  /\ Disturb(t)
  /\ UNCHANGED <<module, lock, read_buf, heap, lost, opened, f_pos>>

AddSize(t) ==
  /\ pc[t] = "add_size"
  /\ pc' = [pc EXCEPT ![t] = "add_out"]
  /\ circ_buf' = StoreSize(circ_buf, read_buf.size)
  /\ Disturb(t)
  /\ UNCHANGED <<module, lock, read_buf, heap, lost, opened, f_pos, frame>>

AddOut(t) ==
  /\ pc[t] = "add_out"
  /\ pc' = [pc EXCEPT ![t] =
       IF Overwrites(circ_buf) /\ OutAtEnd(circ_buf) THEN "wrap_out" ELSE "add_in"]
  /\ circ_buf' = IF Overwrites(circ_buf) THEN IncrementOut(circ_buf) ELSE circ_buf
  /\ Disturb(t)
  /\ UNCHANGED <<module, lock, read_buf, heap, lost, opened, f_pos, frame>>

AddWrapOut(t) ==
  /\ pc[t] = "wrap_out"
  /\ pc' = [pc EXCEPT ![t] = "add_in"]
  /\ circ_buf' = WrapOut(circ_buf)
  /\ Disturb(t)
  /\ UNCHANGED <<module, lock, read_buf, heap, lost, opened, f_pos, frame>>

(* Fault: in_offs is not compared with the size of the array. *)
AddInNoWrap(t) ==
  /\ pc[t] = "add_in"
  /\ pc' = [pc EXCEPT ![t] = "w_free"]
  /\ circ_buf' = IncrementIn(circ_buf)
  /\ Disturb(t)
  /\ UNCHANGED <<module, lock, read_buf, heap, lost, opened, f_pos, frame>>

AddIn(t) ==
  /\ pc[t] = "add_in"
  /\ pc' = [pc EXCEPT ![t] = IF InAtEnd(circ_buf) THEN "wrap_in" ELSE "w_free"]
  /\ circ_buf' = IncrementIn(circ_buf)
  /\ Disturb(t)
  /\ UNCHANGED <<module, lock, read_buf, heap, lost, opened, f_pos, frame>>

AddWrapIn(t) ==
  /\ pc[t] = "wrap_in"
  /\ pc' = [pc EXCEPT ![t] = "set_full"]
  /\ circ_buf' = WrapIn(circ_buf)
  /\ Disturb(t)
  /\ UNCHANGED <<module, lock, read_buf, heap, lost, opened, f_pos, frame>>

AddSetFull(t) ==
  /\ pc[t] = "set_full"
  /\ pc' = [pc EXCEPT ![t] = "w_free"]
  /\ circ_buf' = SetFull(circ_buf)
  /\ Disturb(t)
  /\ UNCHANGED <<module, lock, read_buf, heap, lost, opened, f_pos, frame>>

(* Fault: the entry just added is kept as the read_buf as well. *)
WriteFreeKeepReadBuf(t) ==
  /\ pc[t] = "w_free"
  /\ pc' = [pc EXCEPT ![t] = "w_unlock"]
  /\ heap' = [p \in Ptr |-> IF p = frame[t].to_free THEN Freed ELSE heap[p]]
  /\ UNCHANGED <<module, lock, read_buf, circ_buf, lost, opened, f_pos, frame, overlap>>

(* Fault: what add_entry hands back is not freed. *)
WriteFreeLeak(t) ==
  /\ pc[t] = "w_free"
  /\ pc' = [pc EXCEPT ![t] = "w_unlock"]
  /\ read_buf' = NULL
  /\ lost' = lost \cup {"entry"}
  /\ UNCHANGED <<module, lock, circ_buf, heap, opened, f_pos, frame, overlap>>

(* kfree(to_free) when there is one; dev->read_buf = 0, which drops the    *)
(* only pointer to the struct that add_entry copied from.                  *)
WriteFree(t) ==
  /\ pc[t] = "w_free"
  /\ pc' = [pc EXCEPT ![t] = "w_unlock"]
  /\ heap' = [p \in Ptr |-> IF p = frame[t].to_free THEN Freed ELSE heap[p]]
  /\ read_buf' = NULL
  /\ lost' = lost \cup {"entry"}
  /\ UNCHANGED <<module, lock, circ_buf, opened, f_pos, frame, overlap>>

(* Fault: the lock is released only on the path that added an entry. *)
WriteUnlockIfTerminated(t) ==
  /\ pc[t] = "w_unlock"
  /\ lock' = IF Terminated(frame[t].chunk) THEN NoThread ELSE lock
  /\ Goto(t, "ret", Result("write", Len(frame[t].chunk), 0, << >>))
  /\ UNCHANGED <<module, read_buf, circ_buf, heap, lost, opened, f_pos, overlap>>

WriteUnlock(t) ==
  /\ pc[t] = "w_unlock"
  /\ lock' = NoThread
  /\ Goto(t, "ret", Result("write", Len(frame[t].chunk), 0, << >>))
  /\ UNCHANGED <<module, read_buf, circ_buf, heap, lost, opened, f_pos, overlap>>

-----------------------------------------------------------------------------
(* aesd_ioctl, AESDCHAR_IOCSEEKTO.  It runs under the lock, so its body is *)
(* one step.  It does not move f_pos: it copies the bytes out itself.      *)

SeekCall(t, seek) ==
  /\ Begin(t, "s_lock", [write_cmd |-> seek[1], offset |-> seek[2]])
  /\ UNCHANGED <<module, dev, opened, f_pos>>

SeekLock(t) ==
  /\ pc[t] = "s_lock" /\ lock = NoThread
  /\ lock' = t
  /\ pc' = [pc EXCEPT ![t] = "s_copy"]
  /\ UNCHANGED <<module, read_buf, circ_buf, heap, lost, opened, f_pos, frame, overlap>>

(* The bytes an entry contributes from a given offset on. *)
Piece(e, from) ==
  IF from < e.size THEN SubSeq(heap[e.buffptr], from + 1, e.size) ELSE << >>

(* Fault: the offset is applied to every command, not only to the first. *)
SpecialBufferOffsetKept(write_cmd, offset) ==
  LET first == IF write_cmd = MAX_OPS THEN 0 ELSE write_cmd
      sent[k \in 0 .. MAX_OPS] ==
        IF k <= first THEN << >>
        ELSE sent[k - 1] \o Piece(circ_buf.entry[ScanSlot(circ_buf, k - 1)], offset)
  IN  sent[MAX_OPS]

(* The bytes gathered in mybuffer: command write_cmd from offset on, then  *)
(* the commands after it, until the loop is back at out_offs or has sent   *)
(* as many bytes as the whole content less the offset.  write_cmd MAX_OPS  *)
(* is let through by the range check and wraps to the oldest command.      *)
SpecialBuffer(write_cmd, offset) ==
  LET total == get_length_of_all_entries_in_buffer(circ_buf) - offset
      first == IF write_cmd = MAX_OPS THEN 0 ELSE write_cmd
      sent[k \in 0 .. MAX_OPS] ==
        IF k <= first THEN << >>
        ELSE IF Len(sent[k - 1]) >= total THEN sent[k - 1]
        ELSE sent[k - 1] \o Piece(circ_buf.entry[ScanSlot(circ_buf, k - 1)],
                                  IF k - 1 = first THEN offset ELSE 0)
  IN  sent[MAX_OPS]

(* write_cmd > MAX_OPS: -EINVAL, with the lock still held and mybuffer     *)
(* not freed.                                                              *)
SeekReject(t) ==
  /\ pc[t] = "s_copy"
  /\ frame[t].write_cmd > MAX_OPS
  /\ lost' = lost \cup {"mybuffer"}
  /\ Goto(t, "ret", Result("error", 0, 0, << >>))
  /\ UNCHANGED <<module, lock, read_buf, circ_buf, heap, opened, f_pos, overlap>>

(* The results of both copy_to_user calls are ignored. *)
SeekCopy(t) ==
  LET cmd == frame[t].write_cmd
      off == frame[t].offset
  IN  /\ pc[t] = "s_copy"
      /\ cmd <= MAX_OPS
      /\ lock' = NoThread
      /\ \E data \in {SpecialBuffer(cmd, off)}
                       \cup IF "copy_to" \in Faults THEN {Garbage} ELSE {} :
           Goto(t, "ret", Result("ioctl", cmd, off, data))
      /\ UNCHANGED <<module, read_buf, circ_buf, heap, lost, opened, f_pos, overlap>>

(* copy_from_user failed, which is not noticed: the command, the offset    *)
(* and the user's buffer are whatever was on the stack.                    *)
SeekCopyFault(t) ==
  /\ "copy_from" \in Faults
  /\ pc[t] = "s_copy"
  /\ \/ /\ lost' = lost \cup {"mybuffer"}
        /\ UNCHANGED lock
        /\ Goto(t, "ret", Result("error", 0, 0, << >>))
     \/ /\ lock' = NoThread
        /\ UNCHANGED lost
        /\ Goto(t, "ret", Result("ioctl", frame[t].write_cmd, frame[t].offset, Garbage))
  /\ UNCHANGED <<module, read_buf, circ_buf, heap, opened, f_pos, overlap>>

(* The staging buffer could not be allocated: the first byte stored        *)
(* through the null pointer kills the thread, with the lock held.          *)
SeekAllocFault(t) ==
  /\ "alloc" \in Faults
  /\ pc[t] = "s_copy"
  /\ frame[t].write_cmd <= MAX_OPS
  /\ SpecialBuffer(frame[t].write_cmd, frame[t].offset) # << >>
  /\ Goto(t, "dead", NoFrame)
  /\ UNCHANGED <<module, dev, opened, f_pos, overlap>>

-----------------------------------------------------------------------------
ReadStep(t)  == \/ ReadFind(t) \/ ReadFindOutside(t)
                \/ ReadSize(t) \/ ReadBuffptr(t) \/ ReadCopy(t)
AddStep(t)   == \/ AddBuffptr(t) \/ AddSize(t) \/ AddOut(t) \/ AddWrapOut(t)
                \/ AddIn(t) \/ AddWrapIn(t) \/ AddSetFull(t)
WriteStep(t) == \/ WriteStore(t) \/ WriteCopyFault(t) \/ WriteAllocFault(t)
                \/ AddStep(t) \/ WriteFree(t) \/ WriteUnlock(t)
SeekStep(t)  == SeekReject(t) \/ SeekCopy(t) \/ SeekCopyFault(t) \/ SeekAllocFault(t)

(* A step inside a call, other than waiting for the lock. *)
Step(t) == ReadStep(t) \/ WriteStep(t) \/ SeekStep(t) \/ Return(t)

Call(t) ==
  \/ /\ t \in Writer
     /\ \E chunk \in Chunk : Len(PendingBytes) + Len(chunk) <= MaxPending /\ WriteCall(t, chunk)
  \/ /\ t \in Reader
     /\ \/ \E count \in Counts : ReadTotal(t, count)
        \/ \E off \in Offsets, whence \in {SEEK_SET, SEEK_CUR, SEEK_END} :
             aesd_llseek(t, off, whence)
  \/ t \in Seeker /\ \E seek \in SeekTo : SeekCall(t, seek)

Next ==
  \/ aesd_init_module \/ RegisterFault \/ SetupAllocFault
  \/ aesd_cleanup_module
  \/ \E t \in Thread :
       \/ aesd_open(t) \/ aesd_release(t)
       \/ Call(t) \/ WriteLock(t) \/ SeekLock(t) \/ LockInterrupted(t) \/ Step(t)

Spec == Init /\ [][Next]_vars

(* The kernel runs a thread that is inside the driver, and its mutex is    *)
(* handed on in order, so a waiter is not passed over for ever.            *)
Fairness ==
  \A t \in Thread :
    WF_vars(Step(t)) /\ SF_vars(WriteLock(t)) /\ SF_vars(SeekLock(t))

FairSpec == Spec /\ Fairness
=============================================================================

---------------------------- MODULE AesdCharProofs ----------------------------
(***************************************************************************)
(* Proofs about the character driver, for any number of slots, threads and *)
(* addresses and whatever fails: its critical sections exclude each other; *)
(* every block of memory has exactly one owner, although readers take no   *)
(* lock; the driver implements AesdDevice; and what its calls return.      *)
(***************************************************************************)
EXTENDS AesdCharSpec, CircularBufferLemmas

-----------------------------------------------------------------------------
(* The inductive invariant. *)

WriteLocation == {"w_lock", "w_store", "add_buffptr", "w_free", "w_unlock"} \cup Publishing

(* Where the read_buf holds a terminated command or has just been given up. *)
Busy == {"add_buffptr", "w_free"} \cup Publishing

(* Who may be where, and with which locals. *)
Control ==
  /\ DOMAIN frame = Thread
  /\ module # "loaded" => opened = {}
  /\ \A t \in Thread : t \notin opened => pc[t] \in {Idle, "dead"}
  /\ \A t \in Thread : pc[t] \in WriteLocation => frame[t] \in WriteFrame
  /\ \A t \in Thread : pc[t] \in {"add_buffptr"} \cup Publishing => read_buf \in NewEntry

(* A block that holds n bytes. *)
Holds(p, n) == heap[p] \in Seq(Byte) /\ Len(heap[p]) = n

(* A well-formed buffer whose entries have a block each. *)
Sound(b) ==
  /\ WellFormed(b)
  /\ \A i \in Slot : b.entry[i].buffptr # NULL => Holds(b.entry[i].buffptr, b.entry[i].size)
  /\ \A i, j \in Slot :
       i # j /\ b.entry[i].buffptr = b.entry[j].buffptr => b.entry[i].buffptr = NULL

(* p is no entry of b. *)
Foreign(b, p) == \A i \in Slot : b.entry[i].buffptr # p

(* The command being assembled has a block of its own. *)
PendingSound(b) ==
  Pending.buffptr # NULL => Holds(Pending.buffptr, Pending.size) /\ Foreign(b, Pending.buffptr)

(* b with both fields of the new entry stored. *)
Stored(b, e) == StoreSize(StoreBuffptr(b, e.buffptr), e.size)

(* What add_entry has made of b when it is at a given place. *)
Partial(place, b, e) ==
  CASE place = "add_size" -> StoreBuffptr(b, e.buffptr)
    [] place = "add_out"  -> Stored(b, e)
    [] place = "wrap_out" -> IncrementOut(Stored(b, e))
    [] place = "add_in"   -> AdvanceOut(Stored(b, e))
    [] place = "wrap_in"  -> IncrementIn(AdvanceOut(Stored(b, e)))
    [] place = "set_full" -> WrapIn(IncrementIn(AdvanceOut(Stored(b, e))))

(* The wraps are only reached from the last slot of the array. *)
Reached(place, b) ==
  /\ place = "wrap_out" => Overwrites(b) /\ OutAtEnd(b)
  /\ place \in {"wrap_in", "set_full"} => InAtEnd(b)

(* circ_buf is on the way from a sound buffer b to b with read_buf added. *)
InFlight(b) ==
  /\ Sound(b) /\ PendingSound(b)
  /\ circ_buf = Partial(Phase, b, read_buf) /\ Reached(Phase, b)
  /\ frame[lock].to_free = DisplacedBuffptr(b)

(* add_entry is done; what it displaced is still to be freed. *)
Displaced ==
  /\ Sound(circ_buf)
  /\ frame[lock].to_free # NULL =>
       heap[frame[lock].to_free] # Freed /\ Foreign(circ_buf, frame[lock].to_free)

Memory ==
  /\ module = "new" => \A p \in Ptr : heap[p] = Freed
  /\ Loaded =>
       /\ Phase \in Publishing => \E b : InFlight(b)
       /\ Phase = "w_free" => Displaced
       /\ Phase \notin Publishing \cup {"w_free"} => Sound(circ_buf) /\ PendingSound(circ_buf)

Inv == SharedTypeOK /\ MutualExclusion /\ Control /\ Memory

-----------------------------------------------------------------------------
(* The driver starts in the invariant. *)
LEMMA InitInv == Init => Inv
  <1> SUFFICES ASSUME Init PROVE Inv
    OBVIOUS
  <1>1. circ_buf \in Buffer
    BY InitWellFormed DEF Init, WellFormed
  <1>2. SharedTypeOK
    BY <1>1, BufferWalkable DEF Init, SharedTypeOK, Location, Idle
  <1>3. MutualExclusion
    BY DEF Init, MutualExclusion, Critical, Publishing, Idle
  <1>4. Control
    BY DEF Init, Control, WriteLocation, Publishing, Idle
  <1>5. Memory
    BY DEF Init, Memory, Loaded
  <1> QED
    BY <1>2, <1>3, <1>4, <1>5 DEF Inv

-----------------------------------------------------------------------------
(* Steps that leave the shared structures alone. *)

(* t goes from one place to another, neither of which is inside the part   *)
(* of aesd_write that hands the read_buf over; at most it takes or         *)
(* releases the lock.                                                      *)
Quiet(t, where, locals) ==
  /\ pc' = [pc EXCEPT ![t] = where]
  /\ DOMAIN frame' = Thread
  /\ \A u \in Thread : frame'[u] = IF u = t THEN locals ELSE frame[u]
  /\ pc[t] \notin Busy /\ where \in Location \ Busy
  /\ where \in WriteLocation => locals \in WriteFrame
  /\ t \in opened
  /\ UNCHANGED <<module, read_buf, circ_buf, heap, opened>>
  /\ \/ lock' = lock /\ (where \in Critical => pc[t] \in Critical)
     \/ lock = NoThread /\ lock' = t
     \/ pc[t] \in Critical /\ lock' = NoThread /\ where \notin Critical

(* The memory invariant speaks about the shared structures, the lock       *)
(* holder's place and, while an entry is handed over, its to_free.         *)
LEMMA MemoryFrame ==
  ASSUME Memory, UNCHANGED <<module, read_buf, circ_buf, heap>>,
         \/ Phase' = Phase /\ (Phase \in Busy => frame'[lock'] = frame[lock])
         \/ Phase \notin Busy /\ Phase' \notin Busy
  PROVE  Memory'
  <1>1. module' = "new" => \A p \in Ptr : heap'[p] = Freed
    BY DEF Memory
  <1>2. ASSUME Loaded' PROVE Loaded
    BY <1>2 DEF Loaded
  <1>3. /\ \A b : Sound(b)' <=> Sound(b)
        /\ \A b : PendingSound(b)' <=> PendingSound(b)
    BY DEF Sound, PendingSound, Holds, Foreign, Pending
  <1>4. Sound(circ_buf)' <=> Sound(circ_buf)
    BY DEF Sound, Holds
  <1>5. PendingSound(circ_buf)' <=> PendingSound(circ_buf)
    BY DEF PendingSound, Holds, Foreign, Pending
  <1>6. ASSUME Loaded', Phase' \in Publishing PROVE \E b : InFlight(b)'
    <2>1. Phase' = Phase /\ frame'[lock'] = frame[lock]
      BY <1>6 DEF Busy
    <2>2. PICK b : InFlight(b)
      BY <1>2, <1>6, <2>1 DEF Memory
    <2>3. InFlight(b)'
      BY <1>3, <2>1, <2>2 DEF InFlight
    <2> QED
      BY <2>3
  <1>7. ASSUME Loaded', Phase' = "w_free" PROVE Displaced'
    <2>1. Phase' = Phase /\ frame'[lock'] = frame[lock]
      BY <1>7 DEF Busy
    <2>2. Displaced
      BY <1>2, <1>7, <2>1 DEF Memory
    <2> QED
      BY <1>4, <2>1, <2>2 DEF Displaced, Foreign
  <1>8. ASSUME Loaded', Phase' \notin Publishing \cup {"w_free"}
        PROVE  Sound(circ_buf)' /\ PendingSound(circ_buf)'
    <2>1. Phase \notin Publishing \cup {"w_free"}
      BY <1>8 DEF Busy
    <2> QED
      BY <1>2, <1>4, <1>5, <1>8, <2>1 DEF Memory
  <1> QED
    BY <1>1, <1>6, <1>7, <1>8 DEF Memory

(* Such a step preserves the invariant. *)
LEMMA QuietInv ==
  ASSUME Inv, NEW t \in Thread, NEW where, NEW locals, Quiet(t, where, locals)
  PROVE  Inv'
  <1>1. /\ pc \in [Thread -> Location]
        /\ DOMAIN frame = Thread
        /\ lock \in Thread \cup {NoThread}
        /\ NoThread \notin Thread
    BY DriverAssumption DEF Inv, SharedTypeOK, Control
  <1>2. \A u \in Thread : pc'[u] = IF u = t THEN where ELSE pc[u]
    BY <1>1 DEF Quiet
  <1>3. \A u \in Thread : frame'[u] = IF u = t THEN locals ELSE frame[u]
    BY <1>1 DEF Quiet
  <1>5. pc[t] \in Critical => lock = t
    BY DEF Inv, MutualExclusion
  <1>6. MutualExclusion'
    BY <1>1, <1>2, <1>5 DEF Inv, MutualExclusion, Quiet
  <1>7. Control'
    <2>1. DOMAIN frame' = Thread
      BY <1>1 DEF Quiet
    <2>2. \A u \in Thread : pc'[u] \in WriteLocation => frame'[u] \in WriteFrame
      BY <1>2, <1>3 DEF Inv, Control, Quiet
    <2>3. \A u \in Thread : pc'[u] \in {"add_buffptr"} \cup Publishing => read_buf' \in NewEntry
      BY <1>2 DEF Inv, Control, Quiet, Busy
    <2>4. \A u \in Thread : u \notin opened' => pc'[u] \in {Idle, "dead"}
      BY <1>2 DEF Inv, Control, Quiet
    <2> QED
      BY <2>1, <2>2, <2>3, <2>4 DEF Inv, Control, Quiet
  <1>8. \/ Phase' = Phase /\ frame'[lock'] = frame[lock]
        \/ Phase \notin Busy /\ Phase' \notin Busy
    <2>1. CASE lock' = lock /\ lock \in Thread \ {t}
      BY <2>1, <1>1, <1>2, <1>3 DEF Phase
    <2>2. CASE lock \in {t, NoThread} /\ lock' \in {t, NoThread}
      BY <2>2, <1>1, <1>2 DEF Phase, Quiet, Busy, Publishing
    <2> QED
      BY <2>1, <2>2, <1>1, <1>5 DEF Quiet
  <1>9. Memory'
    BY <1>8, MemoryFrame DEF Inv, Quiet
  <1>10. SharedTypeOK'
    BY <1>1, <1>8 DEF Inv, SharedTypeOK, Quiet, Busy, Publishing
  <1> QED
    BY <1>6, <1>7, <1>9, <1>10 DEF Inv

(* A thread inside a call has the device open. *)
LEMMA InsideOpened ==
  ASSUME Inv, NEW t \in Thread, pc[t] \notin {Idle, "dead"}
  PROVE  t \in opened
  BY DEF Inv, Control

(* Goto gives one thread a new place and new locals. *)
LEMMA GotoFrames ==
  ASSUME Inv, NEW t \in Thread, NEW where, NEW locals, Goto(t, where, locals)
  PROVE  /\ pc' = [pc EXCEPT ![t] = where]
         /\ DOMAIN frame' = Thread
         /\ \A u \in Thread : frame'[u] = IF u = t THEN locals ELSE frame[u]
  BY DEF Goto, Inv, Control

USE DEF Idle

(* The steps of aesd_read. *)
LEMMA ReadInv ==
  ASSUME Inv, NEW t \in Thread,
         ReadStep(t) \/ \E count \in Counts : ReadTotal(t, count)
  PROVE  Inv'
  <1>1. ASSUME NEW where, NEW locals, Goto(t, where, locals),
               where \in Reading \cup {"ret", "dead"}, t \in opened,
               pc[t] \in Reading \cup {Idle},
               UNCHANGED <<module, dev, opened>>
        PROVE  Inv'
    <2>1. Quiet(t, where, locals)
      BY <1>1, GotoFrames
      DEF Quiet, dev, Reading, Location, Busy, Publishing, WriteLocation, Critical
    <2> QED
      BY <2>1, QuietInv
  <1>2. CASE \E count \in Counts : ReadTotal(t, count)
    BY <1>1, <1>2 DEF ReadTotal, Begin, Reading
  <1>3. CASE ReadFind(t)
    <2>1. t \in opened
      BY <1>3, InsideOpened DEF ReadFind
    <2> QED
      BY <1>1, <1>3, <2>1 DEF ReadFind, Reading
  <1>4. CASE ReadSize(t)
    <2>1. t \in opened
      BY <1>4, InsideOpened DEF ReadSize
    <2> QED
      BY <1>1, <1>4, <2>1 DEF ReadSize, Reading
  <1>5. CASE ReadBuffptr(t)
    <2>1. t \in opened
      BY <1>5, InsideOpened DEF ReadBuffptr
    <2> QED
      BY <1>1, <1>5, <2>1 DEF ReadBuffptr, Reading
  <1>6. CASE ReadCopy(t)
    <2>1. t \in opened
      BY <1>6, InsideOpened DEF ReadCopy
    <2> QED
      BY <1>1, <1>6, <2>1 DEF ReadCopy, Reading
  <1>7. CASE ReadFindOutside(t)
    <2>1. t \in opened
      BY <1>7, InsideOpened DEF ReadFindOutside
    <2> QED
      BY <1>1, <1>7, <2>1 DEF ReadFindOutside, Reading
  <1> QED
    BY <1>2, <1>3, <1>4, <1>5, <1>6, <1>7 DEF ReadStep

(* Calls of write() and ioctl(), waits that are interrupted, and returns. *)
LEMMA CallInv ==
  ASSUME Inv, NEW t \in Thread,
         \/ \E chunk \in Chunk : WriteCall(t, chunk)
         \/ \E seek \in SeekTo : SeekCall(t, seek)
         \/ LockInterrupted(t)
         \/ Return(t)
  PROVE  Inv'
  <1> USE DEF Quiet, dev, Location, Busy, Publishing, WriteLocation, Critical
  <1>1. ASSUME NEW chunk \in Chunk, WriteCall(t, chunk) PROVE Inv'
    <2>1. [chunk |-> chunk, to_free |-> NULL] \in WriteFrame
      BY DriverAssumption DEF WriteFrame
    <2>2. Quiet(t, "w_lock", [chunk |-> chunk, to_free |-> NULL])
      BY <1>1, <2>1, GotoFrames DEF WriteCall, Begin
    <2> QED
      BY <2>2, QuietInv
  <1>2. ASSUME NEW seek \in SeekTo, SeekCall(t, seek) PROVE Inv'
    <2>1. Quiet(t, "s_lock", [write_cmd |-> seek[1], offset |-> seek[2]])
      BY <1>2, GotoFrames DEF SeekCall, Begin
    <2> QED
      BY <2>1, QuietInv
  <1>3. CASE LockInterrupted(t)
    <2>1. Quiet(t, "ret", Result("error", 0, 0, << >>))
      BY <1>3, GotoFrames, InsideOpened DEF LockInterrupted
    <2> QED
      BY <2>1, QuietInv
  <1>4. CASE Return(t)
    <2>1. Quiet(t, Idle, NoFrame)
      BY <1>4, GotoFrames, InsideOpened DEF Return
    <2> QED
      BY <2>1, QuietInv
  <1> QED
    BY <1>1, <1>2, <1>3, <1>4

(* Taking the lock, and giving it back at the end of aesd_write. *)
LEMMA LockInv ==
  ASSUME Inv, NEW t \in Thread, WriteLock(t) \/ SeekLock(t) \/ WriteUnlock(t)
  PROVE  Inv'
  <1> USE DEF Quiet, Location, Busy, Publishing, WriteLocation, Critical
  <1>1. DOMAIN frame = Thread /\ (pc[t] = "w_lock" => frame[t] \in WriteFrame)
    BY DEF Inv, Control
  <1>2. CASE WriteLock(t)
    <2>1. Quiet(t, "w_store", frame[t])
      BY <1>1, <1>2, InsideOpened DEF WriteLock
    <2> QED
      BY <2>1, QuietInv
  <1>3. CASE SeekLock(t)
    <2>1. Quiet(t, "s_copy", frame[t])
      BY <1>1, <1>3, InsideOpened DEF SeekLock
    <2> QED
      BY <2>1, QuietInv
  <1>4. CASE WriteUnlock(t)
    <2>1. Quiet(t, "ret", Result("write", Len(frame[t].chunk), 0, << >>))
      BY <1>4, GotoFrames, InsideOpened DEF WriteUnlock
    <2> QED
      BY <2>1, QuietInv
  <1> QED
    BY <1>2, <1>3, <1>4

(* The body of aesd_ioctl, all its exits included. *)
LEMMA SeekInv ==
  ASSUME Inv, NEW t \in Thread, SeekStep(t)
  PROVE  Inv'
  <1>1. pc[t] = "s_copy"
    BY DEF SeekStep, SeekReject, SeekCopy, SeekCopyFault, SeekAllocFault
  <1>2. t \in opened
    BY <1>1, InsideOpened
  <1>3. ASSUME NEW where \in {"ret", "dead"}, NEW locals, Goto(t, where, locals),
               lock' = lock \/ lock' = NoThread,
               UNCHANGED <<module, read_buf, circ_buf, heap, opened>>
        PROVE  Inv'
    <2>1. Quiet(t, where, locals)
      BY <1>1, <1>2, <1>3, GotoFrames
      DEF Quiet, Location, Busy, Publishing, WriteLocation, Critical
    <2> QED
      BY <2>1, QuietInv
  <1>4. CASE SeekReject(t)
    BY <1>3, <1>4 DEF SeekReject, dev
  <1>5. CASE SeekCopy(t)
    BY <1>3, <1>5 DEF SeekCopy
  <1>6. CASE SeekCopyFault(t)
    BY <1>3, <1>6 DEF SeekCopyFault
  <1>7. CASE SeekAllocFault(t)
    BY <1>3, <1>7 DEF SeekAllocFault, dev
  <1> QED
    BY <1>4, <1>5, <1>6, <1>7 DEF SeekStep

(* open(), close() and lseek(). *)
LEMMA FileInv ==
  ASSUME Inv, NEW t \in Thread,
         \/ aesd_open(t) \/ aesd_release(t)
         \/ \E off \in Offsets, whence \in {SEEK_SET, SEEK_CUR, SEEK_END} :
              aesd_llseek(t, off, whence)
  PROVE  Inv'
  <1>1. UNCHANGED <<module, lock, read_buf, circ_buf, heap, pc, frame>>
    BY DEF aesd_open, aesd_release, aesd_llseek, dev
  <1>2. /\ opened' \in {opened, opened \cup {t}, opened \ {t}}
        /\ t \notin opened' => pc[t] \in {Idle, "dead"}
        /\ opened' = opened \cup {t} => module = "loaded" \/ opened' = opened
    BY DEF aesd_open, aesd_release, aesd_llseek, Inv, Control
  <1>3. SharedTypeOK'
    BY <1>1, <1>2 DEF Inv, SharedTypeOK, Phase
  <1>4. MutualExclusion'
    BY <1>1 DEF Inv, MutualExclusion
  <1>5. Control'
    <2>1. \A u \in Thread : u \notin opened' => pc'[u] \in {Idle, "dead"}
      BY <1>1, <1>2 DEF Inv, Control
    <2>2. module' # "loaded" => opened' = {}
      BY <1>1, <1>2 DEF Inv, Control
    <2> QED
      BY <1>1, <2>1, <2>2 DEF Inv, Control
  <1>6. Phase' = Phase
    BY <1>1 DEF Phase
  <1>7. Memory'
    BY <1>1, <1>6, MemoryFrame DEF Inv
  <1> QED
    BY <1>3, <1>4, <1>5, <1>7 DEF Inv

-----------------------------------------------------------------------------
(* Loading and unloading. *)

(* Nobody is inside the driver unless the module is loaded. *)
LEMMA NobodyInside ==
  ASSUME Inv, opened = {}
  PROVE  \A t \in Thread : pc[t] \in {Idle, "dead"}
  BY DEF Inv, Control

(* Loading the module establishes the memory invariant. *)
LEMMA LoadInv ==
  ASSUME Inv, aesd_init_module
  PROVE  Inv'
  <1>1. \A t \in Thread : pc[t] \in {Idle, "dead"}
    BY NobodyInside DEF Inv, Control, aesd_init_module
  <1>2. WellFormed(circ_buf') /\ circ_buf' = aesd_circular_buffer_init
    BY InitWellFormed DEF aesd_init_module
  <1>3. SharedTypeOK'
    <2>1. read_buf' \in Entry
      BY DEF aesd_init_module, EmptyEntry, Entry
    <2>2. circ_buf' \in Buffer /\ circ_buf' \in OpenBuffer
      BY <1>2, BufferWalkable DEF WellFormed
    <2> QED
      BY <2>1, <2>2 DEF Inv, SharedTypeOK, aesd_init_module
  <1>4. MutualExclusion'
    BY <1>1 DEF MutualExclusion, aesd_init_module, Critical, Publishing
  <1>5. Control'
    BY <1>1 DEF Inv, Control, aesd_init_module, WriteLocation, Publishing
  <1>6. Sound(circ_buf)'
    BY <1>2 DEF Sound, aesd_circular_buffer_init, EmptyEntry
  <1>7. PendingSound(circ_buf)'
    BY DEF PendingSound, Pending, aesd_init_module, EmptyEntry
  <1>8. Phase' = "free"
    BY DEF Phase, aesd_init_module
  <1>9. Memory'
    BY <1>6, <1>7, <1>8 DEF Memory, aesd_init_module, Publishing
  <1> QED
    BY <1>3, <1>4, <1>5, <1>9 DEF Inv

(* An attempt to load it that fails changes nothing but lost. *)
LEMMA LoadFaultInv ==
  ASSUME Inv, RegisterFault \/ SetupAllocFault
  PROVE  Inv'
  <1>1. /\ module = "new" /\ module' \in {"new", "broken"}
        /\ UNCHANGED <<lock, read_buf, circ_buf, heap, opened, pc, frame>>
    BY DEF RegisterFault, SetupAllocFault
  <1>2. SharedTypeOK'
    BY <1>1 DEF Inv, SharedTypeOK, Phase
  <1>3. MutualExclusion'
    BY <1>1 DEF Inv, MutualExclusion
  <1>4. Control'
    BY <1>1 DEF Inv, Control
  <1>5. Memory'
    BY <1>1 DEF Inv, Memory, Loaded
  <1> QED
    BY <1>2, <1>3, <1>4, <1>5 DEF Inv

(* Removing it keeps the types. *)
LEMMA UnloadInv ==
  ASSUME Inv, aesd_cleanup_module
  PROVE  Inv'
  <1>1. heap' \in [Ptr -> Seq(Byte) \cup {Freed}]
    BY DEF Inv, SharedTypeOK, aesd_cleanup_module
  <1>2. SharedTypeOK'
    BY <1>1 DEF Inv, SharedTypeOK, aesd_cleanup_module, Phase
  <1>3. MutualExclusion'
    BY DEF Inv, MutualExclusion, aesd_cleanup_module
  <1>4. Control'
    BY DEF Inv, Control, aesd_cleanup_module
  <1>5. Memory'
    BY DEF Memory, Loaded, aesd_cleanup_module
  <1> QED
    BY <1>2, <1>3, <1>4, <1>5 DEF Inv

-----------------------------------------------------------------------------
(* The steps of aesd_write under the lock. *)

(* What the invariant says about the thread in the critical section. *)
LEMMA Holder ==
  ASSUME Inv, NEW t \in Thread, pc[t] \in Critical
  PROVE  /\ lock = t
         /\ Phase = pc[t]
         /\ Loaded
         /\ t \in opened
         /\ \A u \in Thread \ {t} : pc[u] \notin Critical
  <1>1. lock = t /\ \A u \in Thread \ {t} : pc[u] \notin Critical
    BY DriverAssumption DEF Inv, MutualExclusion
  <1>2. t \in opened
    BY InsideOpened DEF Critical, Publishing
  <1>3. Loaded
    BY <1>2 DEF Inv, Control, Loaded
  <1>4. Phase = pc[t]
    BY <1>1, DriverAssumption DEF Phase
  <1> QED
    BY <1>1, <1>2, <1>3, <1>4

(* A step of the lock holder to another place in aesd_write, or out of it. *)
Hold(t, where) ==
  /\ pc[t] \in Critical
  /\ pc' = [pc EXCEPT ![t] = where]
  /\ where \in Location \ {Idle}
  /\ DOMAIN frame' = Thread
  /\ \A u \in Thread \ {t} : frame'[u] = frame[u]
  /\ where \in WriteLocation => frame'[t] \in WriteFrame
  /\ where \in {"add_buffptr"} \cup Publishing => read_buf' \in NewEntry
  /\ UNCHANGED <<module, lock, opened>>

(* It keeps the control part of the invariant. *)
LEMMA HoldControl ==
  ASSUME Inv, NEW t \in Thread, NEW where, Hold(t, where)
  PROVE  /\ pc' \in [Thread -> Location]
         /\ MutualExclusion'
         /\ Control'
         /\ Phase' = where
         /\ Loaded'
         /\ lock' = t
  <1>1. /\ lock = t /\ Loaded /\ t \in opened
        /\ \A u \in Thread \ {t} : pc[u] \notin Critical
    BY Holder DEF Hold
  <1>2. pc \in [Thread -> Location]
    BY DEF Inv, SharedTypeOK
  <1>3. \A u \in Thread : pc'[u] = IF u = t THEN where ELSE pc[u]
    BY <1>2 DEF Hold
  <1>4. pc' \in [Thread -> Location]
    BY <1>2 DEF Hold
  <1>5. MutualExclusion'
    BY <1>1, <1>3 DEF MutualExclusion, Hold
  <1>6. Control'
    <2>1. \A u \in Thread : u \notin opened' => pc'[u] \in {Idle, "dead"}
      BY <1>1, <1>3 DEF Inv, Control, Hold
    <2>2. \A u \in Thread : pc'[u] \in WriteLocation => frame'[u] \in WriteFrame
      BY <1>3 DEF Inv, Control, Hold
    <2>3. \A u \in Thread : pc'[u] \in {"add_buffptr"} \cup Publishing => read_buf' \in NewEntry
      BY <1>1, <1>3 DEF Hold, Critical
    <2> QED
      BY <2>1, <2>2, <2>3 DEF Inv, Control, Hold
  <1>7. Phase' = where
    BY <1>1, <1>3, DriverAssumption DEF Phase, Hold
  <1> QED
    BY <1>1, <1>4, <1>5, <1>6, <1>7 DEF Hold, Loaded

(* The command assembled so far is a sequence as long as its entry says. *)
LEMMA PendingFacts ==
  ASSUME Inv, PendingSound(circ_buf)
  PROVE  /\ Pending \in Entry
         /\ PendingBytes \in Seq(Byte)
         /\ Len(PendingBytes) = Pending.size
         /\ Pending.buffptr # NULL => Foreign(circ_buf, Pending.buffptr)
  <1>1. Pending \in Entry /\ (Pending.buffptr = NULL => Pending.size = 0)
    BY DEF Inv, SharedTypeOK, Pending, EmptyEntry, Entry
  <1>2. CASE Pending.buffptr = NULL
    BY <1>1, <1>2 DEF PendingBytes
  <1>3. CASE Pending.buffptr # NULL
    BY <1>1, <1>3 DEF PendingBytes, PendingSound, Holds
  <1> QED
    BY <1>2, <1>3

(* kmalloc or krealloc, and what is then stored in the block: the entries  *)
(* keep their blocks and the read_buf has one of its own.                  *)
LEMMA Regrown ==
  ASSUME Inv, Sound(circ_buf), PendingSound(circ_buf),
         NEW p \in NewBlock, NEW bytes \in Seq(Byte),
         heap' = Reallocated(p, bytes),
         read_buf' = [buffptr |-> p, size |-> Len(bytes)],
         UNCHANGED circ_buf
  PROVE  /\ heap' \in [Ptr -> Seq(Byte) \cup {Freed}]
         /\ read_buf' \in NewEntry
         /\ Sound(circ_buf)'
         /\ PendingSound(circ_buf)'
         /\ PendingBytes' = bytes
         /\ \A i \in Slot : circ_buf.entry[i].buffptr # NULL
              => heap'[circ_buf.entry[i].buffptr] = heap[circ_buf.entry[i].buffptr]
  <1>1. /\ heap \in [Ptr -> Seq(Byte) \cup {Freed}]
        /\ Pending \in Entry
        /\ Pending.buffptr # NULL => Foreign(circ_buf, Pending.buffptr)
    BY PendingFacts DEF Inv, SharedTypeOK
  <1>2. p \in Ptr /\ (heap[p] = Freed \/ (p = Pending.buffptr /\ Pending.buffptr # NULL))
    <2>1. Pending.buffptr \in Ptr \cup {NULL}
      BY <1>1 DEF Entry
    <2>2. p \in FreePtr \/ (p = Pending.buffptr /\ Pending.buffptr # NULL)
      <3>1. CASE Pending.buffptr = NULL
        BY <3>1 DEF NewBlock
      <3>2. CASE Pending.buffptr # NULL
        BY <3>2 DEF NewBlock
      <3> QED
        BY <3>1, <3>2
    <2> QED
      BY <2>1, <2>2 DEF FreePtr
  <1>3. \A q \in Ptr : heap'[q] = IF q = p THEN bytes
                                  ELSE IF q = Pending.buffptr THEN Freed ELSE heap[q]
    BY DEF Reallocated
  <1>4. heap' \in [Ptr -> Seq(Byte) \cup {Freed}]
    BY <1>1 DEF Reallocated
  <1>5. circ_buf.entry \in [Slot -> Entry]
    BY DEF Inv, SharedTypeOK, OpenBuffer
  <1>6. Foreign(circ_buf, p)
    <2>1. CASE heap[p] = Freed
      <3> SUFFICES ASSUME NEW i \in Slot, circ_buf.entry[i].buffptr = p
                   PROVE  FALSE
        BY DEF Foreign
      <3>1. p # NULL
        BY <1>2, BufferAssumption
      <3>2. heap[p] \in Seq(Byte)
        BY <3>1 DEF Sound, Holds
      <3> QED
        BY <2>1, <3>2, DriverAssumption
    <2>2. CASE p = Pending.buffptr /\ Pending.buffptr # NULL
      BY <1>1, <2>2
    <2> QED
      BY <1>2, <2>1, <2>2
  <1>7. ASSUME NEW i \in Slot, circ_buf.entry[i].buffptr # NULL
        PROVE  /\ circ_buf.entry[i].buffptr \in Ptr
               /\ heap'[circ_buf.entry[i].buffptr] = heap[circ_buf.entry[i].buffptr]
    <2>1. circ_buf.entry[i].buffptr \in Ptr
      BY <1>5, <1>7 DEF Entry
    <2>2. circ_buf.entry[i].buffptr # p
      BY <1>6 DEF Foreign
    <2>3. circ_buf.entry[i].buffptr # Pending.buffptr
      BY <1>1, <1>7 DEF Foreign
    <2> QED
      BY <1>3, <2>1, <2>2, <2>3
  <1>8. Sound(circ_buf)'
    BY <1>7 DEF Sound, Holds
  <1>9. read_buf' \in NewEntry
    BY <1>2 DEF NewEntry
  <1>10. Pending' = read_buf'
    <2>1. read_buf' \in Entry /\ read_buf'.buffptr = p /\ p # NULL
      BY <1>2, <1>9, BufferAssumption DEF NewEntry, Entry
    <2> QED
      BY <2>1, DriverAssumption DEF Pending
  <1>11. heap'[p] = bytes
    BY <1>2, <1>3
  <1>12. PendingSound(circ_buf)'
    <2>1. Pending'.buffptr = p /\ Pending'.size = Len(bytes)
      BY <1>10
    <2> QED
      BY <1>6, <1>11, <2>1 DEF PendingSound, Holds, Foreign
  <1>13. PendingBytes' = bytes
    <2>1. Pending'.buffptr = p /\ p # NULL
      BY <1>2, <1>10, BufferAssumption
    <2> QED
      BY <1>11, <2>1 DEF PendingBytes
  <1> QED
    BY <1>4, <1>7, <1>8, <1>9, <1>12, <1>13

(* Storing the chunk, and the copy that fails. *)
LEMMA StoreInv ==
  ASSUME Inv, NEW t \in Thread, WriteStore(t) \/ WriteCopyFault(t)
  PROVE  Inv'
  <1>1. pc[t] = "w_store"
    BY DEF WriteStore, WriteCopyFault
  <1>2. pc[t] \in Critical
    BY <1>1 DEF Critical
  <1>3. Sound(circ_buf) /\ PendingSound(circ_buf)
    BY <1>1, <1>2, Holder DEF Inv, Memory, Publishing
  <1>4. /\ Pending \in Entry
        /\ PendingBytes \in Seq(Byte)
        /\ Len(PendingBytes) = Pending.size
    BY <1>3, PendingFacts
  <1>5. frame[t] \in WriteFrame /\ DOMAIN frame = Thread
    BY <1>1 DEF Inv, Control, WriteLocation
  <1>6. ASSUME NEW where \in {"add_buffptr", "w_unlock", "ret"},
               NEW p \in NewBlock, NEW bytes \in Seq(Byte),
               heap' = Reallocated(p, bytes),
               read_buf' = [buffptr |-> p, size |-> Len(bytes)],
               pc' = [pc EXCEPT ![t] = where],
               DOMAIN frame' = Thread,
               \A u \in Thread \ {t} : frame'[u] = frame[u],
               where # "ret" => frame'[t] = frame[t]
        PROVE  Inv'
    <2>1. UNCHANGED <<module, lock, circ_buf, opened>>
      BY DEF WriteStore, WriteCopyFault
    <2>2. /\ heap' \in [Ptr -> Seq(Byte) \cup {Freed}]
          /\ read_buf' \in NewEntry
          /\ Sound(circ_buf)'
          /\ PendingSound(circ_buf)'
      BY <1>3, <1>6, <2>1, Regrown
    <2>3. Hold(t, where)
      BY <1>2, <1>5, <1>6, <2>1, <2>2
      DEF Hold, Location, Critical, WriteLocation, Publishing
    <2>4. /\ pc' \in [Thread -> Location]
          /\ MutualExclusion' /\ Control'
          /\ Phase' = where /\ Loaded'
      BY <2>3, HoldControl
    <2>5. SharedTypeOK'
      BY <1>3, <2>1, <2>2, <2>4 DEF Inv, SharedTypeOK, NewEntry, Entry, Sound, WellFormed
    <2>6. Memory'
      BY <1>6, <2>2, <2>4 DEF Memory, Loaded, Publishing
    <2> QED
      BY <2>4, <2>5, <2>6 DEF Inv
  <1>7. CASE WriteStore(t)
    <2> DEFINE bytes == PendingBytes \o frame[t].chunk
               where == IF Terminated(frame[t].chunk) THEN "add_buffptr" ELSE "w_unlock"
    <2>1. frame[t].chunk \in Seq(Byte)
      BY <1>5 DEF WriteFrame
    <2>2. bytes \in Seq(Byte) /\ Len(bytes) = Pending.size + Len(frame[t].chunk)
      BY <1>4, <2>1
    <2>3. PICK p \in NewBlock :
            /\ heap' = Reallocated(p, bytes)
            /\ read_buf' = [buffptr |-> p, size |-> Pending.size + Len(frame[t].chunk)]
      BY <1>7 DEF WriteStore
    <2>4. pc' = [pc EXCEPT ![t] = where] /\ frame' = frame
      BY <1>7 DEF WriteStore
    <2>5. where \in {"add_buffptr", "w_unlock", "ret"}
      OBVIOUS
    <2> HIDE DEF bytes, where
    <2> QED
      BY <1>5, <1>6, <2>2, <2>3, <2>4, <2>5
  <1>8. CASE WriteCopyFault(t)
    <2>1. PICK p \in NewBlock :
            /\ heap' = Reallocated(p, PendingBytes)
            /\ read_buf' = [buffptr |-> p, size |-> Pending.size]
      BY <1>8 DEF WriteCopyFault
    <2>2. Goto(t, "ret", Result("error", 0, 0, << >>))
      BY <1>8 DEF WriteCopyFault
    <2> QED
      BY <1>4, <1>6, <2>1, <2>2, GotoFrames
  <1> QED
    BY <1>7, <1>8

(* An allocation that fails. *)
LEMMA AllocFaultInv ==
  ASSUME Inv, NEW t \in Thread, WriteAllocFault(t)
  PROVE  Inv'
  <1>1. pc[t] = "w_store" /\ pc[t] \in Critical
    BY DEF WriteAllocFault, Critical
  <1>2. Sound(circ_buf) /\ PendingSound(circ_buf)
    BY <1>1, Holder DEF Inv, Memory, Publishing
  <1>3. Pending \in Entry
    BY <1>2, PendingFacts
  <1>4. DOMAIN frame = Thread
    BY DEF Inv, Control
  <1>5. PICK where \in {"dead", "ret"} :
          /\ pc' = [pc EXCEPT ![t] = where]
          /\ DOMAIN frame' = Thread
          /\ \A u \in Thread \ {t} : frame'[u] = frame[u]
    BY <1>4 DEF WriteAllocFault, Goto
  <1>6. UNCHANGED <<module, lock, circ_buf, heap, opened>>
    BY DEF WriteAllocFault
  <1>7. read_buf' = NULL \/ (read_buf' \in Entry /\ read_buf'.buffptr = NULL)
    <2> DEFINE r == [buffptr |-> NULL, size |-> Pending.size]
    <2>1. r \in Entry /\ r.buffptr = NULL
      BY <1>3 DEF Entry
    <2>2. read_buf' = NULL \/ read_buf' = r
      BY DEF WriteAllocFault
    <2> HIDE DEF r
    <2> QED
      BY <2>1, <2>2, Zenon
  <1>8. Hold(t, where)
    BY <1>1, <1>5, <1>6 DEF Hold, Location, WriteLocation, Publishing
  <1>9. /\ pc' \in [Thread -> Location]
        /\ MutualExclusion' /\ Control'
        /\ Phase' = where /\ Loaded'
    BY <1>8, HoldControl
  <1>10. SharedTypeOK'
    BY <1>2, <1>6, <1>7, <1>9 DEF Inv, SharedTypeOK, Sound, WellFormed
  <1>11. Sound(circ_buf)'
    BY <1>2, <1>6 DEF Sound, Holds
  <1>12. PendingSound(circ_buf)'
    BY <1>7 DEF PendingSound, Pending, EmptyEntry
  <1>13. Memory'
    BY <1>9, <1>11, <1>12 DEF Memory, Loaded, Publishing
  <1> QED
    BY <1>9, <1>10, <1>13 DEF Inv

-----------------------------------------------------------------------------
(* Handing the read_buf over to the circular buffer. *)

(* The struct between two assignments of add_entry: its type, and what it  *)
(* holds.                                                                  *)
LEMMA PartialShape ==
  ASSUME NEW place \in Publishing, NEW b \in Buffer, NEW e \in NewEntry
  PROVE  /\ Partial(place, b, e) \in OpenBuffer
         /\ place \notin {"wrap_out", "wrap_in"} => Partial(place, b, e) \in Buffer
         /\ place = "add_size" =>
              /\ Partial(place, b, e).in_offs = b.in_offs
              /\ Partial(place, b, e).entry = [b.entry EXCEPT ![b.in_offs].buffptr = e.buffptr]
         /\ place # "add_size" =>
              Partial(place, b, e).entry = [b.entry EXCEPT ![b.in_offs] = e]
  <1> DEFINE s1 == StoreBuffptr(b, e.buffptr)
             s2 == Stored(b, e)
             s3 == AdvanceOut(s2)
  <1>1. /\ s1 \in Buffer /\ s2 \in Buffer /\ s3 \in Buffer
        /\ s1.in_offs = b.in_offs
        /\ s1.entry = [b.entry EXCEPT ![b.in_offs].buffptr = e.buffptr]
        /\ s2.entry = [b.entry EXCEPT ![b.in_offs] = e]
        /\ s3.entry = [b.entry EXCEPT ![b.in_offs] = e]
    BY PartialFields DEF Stored
  <1>2. /\ s1 \in OpenBuffer /\ s2 \in OpenBuffer /\ s3 \in OpenBuffer
        /\ IncrementOut(s2) \in OpenBuffer /\ IncrementOut(s2).entry = s2.entry
        /\ IncrementIn(s3) \in OpenBuffer /\ IncrementIn(s3).entry = s3.entry
        /\ WrapIn(IncrementIn(s3)) \in Buffer /\ WrapIn(IncrementIn(s3)).entry = s3.entry
    <2> HIDE DEF s1, s2, s3
    <2> QED
      BY <1>1, OpenSteps, BufferWalkable
  <1>3. WrapIn(IncrementIn(s3)) \in OpenBuffer
    <2> HIDE DEF s3
    <2> QED
      BY <1>2, BufferWalkable
  <1>4. /\ place = "add_size" => Partial(place, b, e) = s1
        /\ place = "add_out" => Partial(place, b, e) = s2
        /\ place = "wrap_out" => Partial(place, b, e) = IncrementOut(s2)
        /\ place = "add_in" => Partial(place, b, e) = s3
        /\ place = "wrap_in" => Partial(place, b, e) = IncrementIn(s3)
        /\ place = "set_full" => Partial(place, b, e) = WrapIn(IncrementIn(s3))
    BY DEF Partial
  <1>5. place \in {"add_size", "add_out", "wrap_out", "add_in", "wrap_in", "set_full"}
    BY DEF Publishing
  <1> HIDE DEF s1, s2, s3
  <1> QED
    BY <1>1, <1>2, <1>3, <1>4, <1>5

(* A step from one assignment of add_entry to the next. *)
LEMMA FlightInv ==
  ASSUME Inv, NEW t \in Thread, NEW where \in Publishing, Hold(t, where),
         UNCHANGED <<read_buf, heap>>, read_buf \in NewEntry,
         NEW b, Sound(b), PendingSound(b),
         circ_buf' = Partial(where, b, read_buf), Reached(where, b),
         frame'[t].to_free = DisplacedBuffptr(b)
  PROVE  Inv'
  <1>1. /\ pc' \in [Thread -> Location]
        /\ MutualExclusion' /\ Control'
        /\ Phase' = where /\ Loaded' /\ lock' = t
    BY HoldControl
  <1>2. b \in Buffer
    BY DEF Sound, WellFormed
  <1>3. /\ circ_buf' \in OpenBuffer
        /\ where \notin {"wrap_out", "wrap_in"} => circ_buf' \in Buffer
    BY <1>2, PartialShape
  <1>4. SharedTypeOK'
    BY <1>1, <1>3 DEF Inv, SharedTypeOK, Hold
  <1>5. Sound(b)'
    BY DEF Sound, Holds
  <1>6. PendingSound(b)'
    BY DEF PendingSound, Holds, Foreign, Pending
  <1>7. InFlight(b)'
    BY <1>1, <1>5, <1>6 DEF InFlight
  <1>8. Memory'
    BY <1>1, <1>7 DEF Memory, Loaded, Publishing
  <1> QED
    BY <1>1, <1>4, <1>8 DEF Inv

(* The assignments of add_entry, from the first one on. *)
LEMMA AddBuffptrInv ==
  ASSUME Inv, NEW t \in Thread, AddBuffptr(t)
  PROVE  Inv'
  <1>1. pc[t] = "add_buffptr" /\ pc[t] \in Critical
    BY DEF AddBuffptr, Critical
  <1>2. Sound(circ_buf) /\ PendingSound(circ_buf)
    BY <1>1, Holder DEF Inv, Memory, Publishing
  <1>3. read_buf \in NewEntry /\ frame[t] \in WriteFrame /\ DOMAIN frame = Thread
    BY <1>1 DEF Inv, Control, WriteLocation
  <1>4. PICK b : b = circ_buf
    OBVIOUS
  <1>5. circ_buf' = Partial("add_size", b, read_buf) /\ Reached("add_size", b)
    BY <1>4 DEF AddBuffptr, Partial, Reached
  <1>6. circ_buf \in Buffer /\ DisplacedBuffptr(b) \in Ptr \cup {NULL}
    BY <1>2, <1>4 DEF Sound, WellFormed, Buffer, Entry, DisplacedBuffptr
  <1>7. frame'[t] = [frame[t] EXCEPT !.to_free = DisplacedBuffptr(b)]
    BY <1>3, <1>4 DEF AddBuffptr, Goto
  <1>8. frame'[t] \in WriteFrame /\ frame'[t].to_free = DisplacedBuffptr(b)
    BY <1>3, <1>6, <1>7 DEF WriteFrame
  <1>9. Hold(t, "add_size")
    BY <1>1, <1>3, <1>8 DEF AddBuffptr, Goto, Hold, Location, Critical, Publishing
  <1>10. "add_size" \in Publishing /\ UNCHANGED <<read_buf, heap>>
    BY DEF Publishing, AddBuffptr
  <1> QED
    BY <1>2, <1>3, <1>4, <1>5, <1>8, <1>9, <1>10, FlightInv

(* The lock holder inside add_entry: circ_buf is b with part of read_buf. *)
LEMMA Flying ==
  ASSUME Inv, NEW t \in Thread, pc[t] \in Publishing
  PROVE  /\ pc[t] \in Critical
         /\ read_buf \in NewEntry
         /\ frame[t] \in WriteFrame
         /\ DOMAIN frame = Thread
         /\ \E b : /\ Sound(b) /\ PendingSound(b)
                   /\ circ_buf = Partial(pc[t], b, read_buf) /\ Reached(pc[t], b)
                   /\ frame[t].to_free = DisplacedBuffptr(b)
  <1>1. pc[t] \in Critical
    BY DEF Critical
  <1>2. read_buf \in NewEntry /\ frame[t] \in WriteFrame /\ DOMAIN frame = Thread
    BY DEF Inv, Control, WriteLocation
  <1>3. lock = t /\ Phase = pc[t] /\ Loaded
    BY <1>1, Holder
  <1>4. PICK b : InFlight(b)
    BY <1>3 DEF Inv, Memory
  <1> QED
    BY <1>1, <1>2, <1>3, <1>4 DEF InFlight

(* Storing the fields leaves the tests about the offsets as they were. *)
LEMMA StoredTests ==
  ASSUME NEW b \in Buffer, NEW e \in NewEntry
  PROVE  /\ Overwrites(Stored(b, e)) <=> Overwrites(b)
         /\ OutAtEnd(Stored(b, e)) <=> OutAtEnd(b)
         /\ InAtEnd(AdvanceOut(Stored(b, e))) <=> InAtEnd(b)
  <1>1. /\ Stored(b, e).in_offs = b.in_offs
        /\ Stored(b, e).out_offs = b.out_offs
        /\ Stored(b, e).full = b.full
        /\ AdvanceOut(Stored(b, e)).in_offs = b.in_offs
    BY PartialFields DEF Stored
  <1> QED
    BY <1>1 DEF Overwrites, OutAtEnd, InAtEnd

(* A step of add_entry to the place where comes after circ_buf has got one *)
(* assignment further.                                                     *)
AddTo(t, where) ==
  /\ pc[t] \in Publishing
  /\ where \in Publishing
  /\ pc' = [pc EXCEPT ![t] = where]
  /\ \A b \in Buffer : read_buf \in NewEntry /\ Reached(pc[t], b)
       /\ circ_buf = Partial(pc[t], b, read_buf)
         => circ_buf' = Partial(where, b, read_buf) /\ Reached(where, b)
  /\ UNCHANGED <<module, lock, read_buf, heap, opened, frame>>

LEMMA AddToInv ==
  ASSUME Inv, NEW t \in Thread, NEW where, AddTo(t, where)
  PROVE  Inv'
  <1>1. /\ pc[t] \in Critical
        /\ read_buf \in NewEntry
        /\ frame[t] \in WriteFrame
        /\ DOMAIN frame = Thread
    BY Flying DEF AddTo
  <1>2. PICK b : /\ Sound(b) /\ PendingSound(b)
                 /\ circ_buf = Partial(pc[t], b, read_buf) /\ Reached(pc[t], b)
                 /\ frame[t].to_free = DisplacedBuffptr(b)
    BY Flying DEF AddTo
  <1>3. b \in Buffer
    BY <1>2 DEF Sound, WellFormed
  <1>4. circ_buf' = Partial(where, b, read_buf) /\ Reached(where, b)
    BY <1>1, <1>2, <1>3 DEF AddTo
  <1>5. where \in Publishing /\ UNCHANGED <<read_buf, heap, frame>>
    BY DEF AddTo
  <1>6. Hold(t, where)
    BY <1>1, <1>5 DEF AddTo, Hold, Location, Critical, Publishing
  <1> QED
    BY <1>1, <1>2, <1>4, <1>5, <1>6, FlightInv

(* The steps of add_entry after the first. *)
AddRest(t) ==
  \/ AddSize(t) \/ AddOut(t) \/ AddWrapOut(t)
  \/ AddIn(t) \/ AddWrapIn(t) \/ AddSetFull(t)

(* They go on inside aesd_write and change nothing but the struct. *)
LEMMA AddRestMoves ==
  ASSUME NEW t \in Thread, AddRest(t)
  PROVE  /\ pc[t] \in Publishing
         /\ \E where \in Publishing \cup {"w_free"} :
              where # "add_size" /\ pc' = [pc EXCEPT ![t] = where]
         /\ overlap' = overlap \cup {u \in Thread \ {t} : pc[u] # Idle}
         /\ UNCHANGED <<module, lock, read_buf, heap, lost, opened, f_pos, frame>>
  BY DEF AddRest, AddSize, AddOut, AddWrapOut, AddIn, AddWrapIn, AddSetFull, Publishing, Disturb

(* Those of them that are not its end get circ_buf one assignment further. *)
LEMMA AddSteps ==
  ASSUME NEW t \in Thread
  PROVE  /\ AddSize(t) => AddTo(t, "add_out")
         /\ AddOut(t) => AddTo(t, "wrap_out") \/ AddTo(t, "add_in")
         /\ AddWrapOut(t) => AddTo(t, "add_in")
         /\ AddIn(t) /\ InAtEnd(circ_buf) => AddTo(t, "wrap_in")
         /\ AddWrapIn(t) => AddTo(t, "set_full")
  <1>1. ASSUME AddSize(t) PROVE AddTo(t, "add_out")
    BY <1>1 DEF AddSize, AddTo, Partial, Reached, Stored, Publishing
  <1>2. ASSUME AddOut(t) PROVE AddTo(t, "wrap_out") \/ AddTo(t, "add_in")
    <2>1. /\ pc[t] = "add_out"
          /\ UNCHANGED <<module, lock, read_buf, heap, opened, frame>>
      BY <1>2 DEF AddOut
    <2>2. ASSUME NEW b \in Buffer, read_buf \in NewEntry, circ_buf = Partial(pc[t], b, read_buf)
          PROVE  /\ circ_buf = Stored(b, read_buf)
                 /\ Overwrites(circ_buf) <=> Overwrites(b)
                 /\ OutAtEnd(circ_buf) <=> OutAtEnd(b)
      <3>1. circ_buf = Stored(b, read_buf)
        BY <2>1, <2>2 DEF Partial
      <3> QED
        BY <2>2, <3>1, StoredTests
    <2>3. CASE Overwrites(circ_buf) /\ OutAtEnd(circ_buf)
      <3>1. pc' = [pc EXCEPT ![t] = "wrap_out"] /\ circ_buf' = IncrementOut(circ_buf)
        BY <1>2, <2>3 DEF AddOut
      <3>2. ASSUME NEW b \in Buffer, read_buf \in NewEntry,
                   circ_buf = Partial(pc[t], b, read_buf)
            PROVE  circ_buf' = Partial("wrap_out", b, read_buf) /\ Reached("wrap_out", b)
        <4>1. circ_buf = Stored(b, read_buf) /\ Overwrites(b) /\ OutAtEnd(b)
          BY <2>2, <2>3, <3>2
        <4>2. circ_buf' = IncrementOut(Stored(b, read_buf))
          BY <3>1, <4>1
        <4> QED
          BY <4>1, <4>2 DEF Partial, Reached
      <3> QED
        BY <2>1, <3>1, <3>2 DEF AddTo, Publishing
    <2>4. CASE ~ (Overwrites(circ_buf) /\ OutAtEnd(circ_buf))
      <3>1. pc' = [pc EXCEPT ![t] = "add_in"] /\ circ_buf' = AdvanceOut(circ_buf)
        BY <1>2, <2>4 DEF AddOut, AdvanceOut
      <3>2. ASSUME NEW b \in Buffer, read_buf \in NewEntry,
                   circ_buf = Partial(pc[t], b, read_buf)
            PROVE  circ_buf' = Partial("add_in", b, read_buf) /\ Reached("add_in", b)
        <4>1. circ_buf' = AdvanceOut(Stored(b, read_buf))
          BY <2>2, <3>1, <3>2
        <4> QED
          BY <4>1 DEF Partial, Reached
      <3> QED
        BY <2>1, <3>1, <3>2 DEF AddTo, Publishing
    <2> QED
      BY <2>3, <2>4
  <1>3. ASSUME AddWrapOut(t) PROVE AddTo(t, "add_in")
    <2>1. /\ pc[t] = "wrap_out"
          /\ pc' = [pc EXCEPT ![t] = "add_in"]
          /\ circ_buf' = WrapOut(circ_buf)
          /\ UNCHANGED <<module, lock, read_buf, heap, opened, frame>>
      BY <1>3 DEF AddWrapOut
    <2>2. ASSUME NEW b \in Buffer, read_buf \in NewEntry, Reached(pc[t], b),
                 circ_buf = Partial(pc[t], b, read_buf)
          PROVE  circ_buf' = Partial("add_in", b, read_buf) /\ Reached("add_in", b)
      <3>1. Overwrites(Stored(b, read_buf)) /\ OutAtEnd(Stored(b, read_buf))
        BY <2>1, <2>2, StoredTests DEF Reached
      <3>2. circ_buf = IncrementOut(Stored(b, read_buf))
        BY <2>1, <2>2 DEF Partial
      <3>3. circ_buf' = AdvanceOut(Stored(b, read_buf))
        BY <2>1, <3>1, <3>2 DEF AdvanceOut
      <3> QED
        BY <3>3 DEF Partial, Reached
    <2> QED
      BY <2>1, <2>2 DEF AddTo, Publishing
  <1>4. ASSUME AddIn(t), InAtEnd(circ_buf) PROVE AddTo(t, "wrap_in")
    <2>1. /\ pc[t] = "add_in"
          /\ pc' = [pc EXCEPT ![t] = "wrap_in"]
          /\ circ_buf' = IncrementIn(circ_buf)
          /\ UNCHANGED <<module, lock, read_buf, heap, opened, frame>>
      BY <1>4 DEF AddIn
    <2>2. ASSUME NEW b \in Buffer, read_buf \in NewEntry,
                 circ_buf = Partial(pc[t], b, read_buf)
          PROVE  circ_buf' = Partial("wrap_in", b, read_buf) /\ Reached("wrap_in", b)
      <3>1. circ_buf = AdvanceOut(Stored(b, read_buf))
        BY <2>1, <2>2 DEF Partial
      <3>2. InAtEnd(b)
        BY <1>4, <2>2, <3>1, StoredTests
      <3> QED
        BY <2>1, <3>1, <3>2 DEF Partial, Reached
    <2> QED
      BY <2>1, <2>2 DEF AddTo, Publishing
  <1>5. ASSUME AddWrapIn(t) PROVE AddTo(t, "set_full")
    BY <1>5 DEF AddWrapIn, AddTo, Partial, Reached, Publishing
  <1> QED
    BY <1>1, <1>2, <1>3, <1>4, <1>5

(* A sound buffer with the assembled command added is sound, and what it   *)
(* displaced is a block that no entry points to any more.                  *)
LEMMA AddEntrySound ==
  ASSUME read_buf \in NewEntry, NEW b, Sound(b), PendingSound(b)
  PROVE  LET a == aesd_circular_buffer_add_entry(b, read_buf)
             d == DisplacedBuffptr(b)
         IN  /\ Sound(a)
             /\ d # NULL => heap[d] # Freed /\ Foreign(a, d)
  <1> DEFINE a == aesd_circular_buffer_add_entry(b, read_buf)
             d == DisplacedBuffptr(b)
  <1>1. b \in Buffer /\ WellFormed(b)
    BY DEF Sound, WellFormed
  <1>2. WellFormed(a) /\ a.entry = [b.entry EXCEPT ![b.in_offs] = read_buf]
    BY <1>1, AddEntryWellFormed, AddEntryFields
  <1>3. b.entry \in [Slot -> Entry] /\ b.in_offs \in Slot
    BY <1>1 DEF Buffer
  <1> HIDE DEF a
  <1>4. \A i \in Slot : a.entry[i] = IF i = b.in_offs THEN read_buf ELSE b.entry[i]
    BY <1>2, <1>3
  <1>5. read_buf.buffptr # NULL /\ read_buf # NULL
    BY BufferAssumption, DriverAssumption DEF NewEntry, Entry
  <1>6. Pending = read_buf
    BY <1>5 DEF Pending
  <1>7. Holds(read_buf.buffptr, read_buf.size) /\ Foreign(b, read_buf.buffptr)
    BY <1>5, <1>6 DEF PendingSound
  <1>8. \A i \in Slot : a.entry[i].buffptr # NULL => Holds(a.entry[i].buffptr, a.entry[i].size)
    BY <1>4, <1>7 DEF Sound
  <1>9. \A i, j \in Slot :
          i # j /\ a.entry[i].buffptr = a.entry[j].buffptr => a.entry[i].buffptr = NULL
    BY <1>4, <1>7 DEF Sound, Foreign
  <1>10. ASSUME d # NULL PROVE heap[d] # Freed /\ Foreign(a, d)
    <2>1. heap[d] # Freed
      BY <1>3, <1>10, DriverAssumption DEF DisplacedBuffptr, Sound, Holds
    <2>2. ASSUME NEW i \in Slot PROVE a.entry[i].buffptr # d
      <3>1. CASE i = b.in_offs
        BY <1>3, <1>4, <1>7, <3>1 DEF Foreign, DisplacedBuffptr
      <3>2. CASE i # b.in_offs
        BY <1>3, <1>4, <1>10, <3>2 DEF Sound, DisplacedBuffptr
      <3> QED
        BY <3>1, <3>2
    <2> QED
      BY <2>1, <2>2 DEF Foreign
  <1>11. Sound(a)
    BY <1>2, <1>8, <1>9 DEF Sound
  <1> QED
    BY <1>10, <1>11 DEF a

(* The last assignment of add_entry: in_offs or full. *)
AddDone(t) == AddSetFull(t) \/ (AddIn(t) /\ ~ InAtEnd(circ_buf))

(* It makes circ_buf the buffer with the command added. *)
LEMMA AddDoneStep ==
  ASSUME NEW t \in Thread, AddDone(t)
  PROVE  /\ pc[t] \in Publishing
         /\ pc' = [pc EXCEPT ![t] = "w_free"]
         /\ UNCHANGED <<module, lock, read_buf, heap, opened, frame>>
         /\ \A b \in Buffer : read_buf \in NewEntry /\ Reached(pc[t], b)
              /\ circ_buf = Partial(pc[t], b, read_buf)
                => circ_buf' = aesd_circular_buffer_add_entry(b, read_buf)
  <1>1. /\ pc[t] \in Publishing
        /\ pc' = [pc EXCEPT ![t] = "w_free"]
        /\ UNCHANGED <<module, lock, read_buf, heap, opened, frame>>
    BY DEF AddDone, AddSetFull, AddIn, Publishing
  <1>2. ASSUME NEW b \in Buffer, read_buf \in NewEntry, Reached(pc[t], b),
               circ_buf = Partial(pc[t], b, read_buf)
        PROVE  circ_buf' = aesd_circular_buffer_add_entry(b, read_buf)
    <2> DEFINE c == AdvanceOut(Stored(b, read_buf))
    <2>1. InAtEnd(c) <=> InAtEnd(b)
      BY <1>2, StoredTests
    <2>2. aesd_circular_buffer_add_entry(b, read_buf) = AdvanceIn(c)
      BY DEF aesd_circular_buffer_add_entry, Stored
    <2>3. CASE AddSetFull(t)
      <3>1. pc[t] = "set_full" /\ circ_buf' = SetFull(circ_buf)
        BY <2>3 DEF AddSetFull
      <3>2. circ_buf = WrapIn(IncrementIn(c)) /\ InAtEnd(b)
        BY <1>2, <3>1 DEF Partial, Reached
      <3> HIDE DEF c
      <3> QED
        BY <2>1, <2>2, <3>1, <3>2 DEF AdvanceIn
    <2>4. CASE AddIn(t) /\ ~ InAtEnd(circ_buf)
      <3>1. pc[t] = "add_in" /\ circ_buf' = IncrementIn(circ_buf)
        BY <2>4 DEF AddIn
      <3>2. circ_buf = c
        BY <1>2, <3>1 DEF Partial
      <3> HIDE DEF c
      <3> QED
        BY <2>2, <2>4, <3>1, <3>2 DEF AdvanceIn
    <2> QED
      BY <2>3, <2>4 DEF AddDone
  <1> QED
    BY <1>1, <1>2

(* The command is in. *)
LEMMA AddDoneInv ==
  ASSUME Inv, NEW t \in Thread, AddDone(t)
  PROVE  Inv'
  <1>1. pc[t] \in Publishing
    BY AddDoneStep
  <1>2. /\ pc[t] \in Critical
        /\ read_buf \in NewEntry
        /\ frame[t] \in WriteFrame
        /\ DOMAIN frame = Thread
    BY <1>1, Flying
  <1>3. PICK b : /\ Sound(b) /\ PendingSound(b)
                 /\ circ_buf = Partial(pc[t], b, read_buf) /\ Reached(pc[t], b)
                 /\ frame[t].to_free = DisplacedBuffptr(b)
    BY <1>1, Flying
  <1> DEFINE a == aesd_circular_buffer_add_entry(b, read_buf)
             d == DisplacedBuffptr(b)
  <1>4. circ_buf' = a
    <2>1. b \in Buffer
      BY <1>3 DEF Sound, WellFormed
    <2> QED
      BY <1>2, <1>3, <2>1, AddDoneStep
  <1>5. Sound(a) /\ (d # NULL => heap[d] # Freed /\ Foreign(a, d))
    BY <1>2, <1>3, AddEntrySound
  <1>6. Hold(t, "w_free") /\ UNCHANGED <<read_buf, heap, frame>>
    BY <1>2, AddDoneStep DEF Hold, Location, Critical, Publishing, WriteLocation
  <1>7. /\ pc' \in [Thread -> Location]
        /\ MutualExclusion' /\ Control'
        /\ Phase' = "w_free" /\ Loaded' /\ lock' = t
    BY <1>6, HoldControl
  <1> HIDE DEF a, d
  <1>8. SharedTypeOK'
    BY <1>4, <1>5, <1>6, <1>7, BufferWalkable DEF Inv, SharedTypeOK, Hold, Sound, WellFormed
  <1>9. Sound(circ_buf)'
    BY <1>4, <1>5, <1>6 DEF Sound, Holds
  <1>10. Displaced'
    BY <1>3, <1>4, <1>5, <1>6, <1>7, <1>9 DEF Displaced, Foreign, d
  <1>11. Memory'
    BY <1>7, <1>10 DEF Memory, Loaded, Publishing
  <1> QED
    BY <1>7, <1>8, <1>11 DEF Inv

(* Freeing what was displaced. *)
LEMMA FreeInv ==
  ASSUME Inv, NEW t \in Thread, WriteFree(t)
  PROVE  Inv'
  <1>1. pc[t] = "w_free" /\ pc[t] \in Critical
    BY DEF WriteFree, Critical
  <1>2. lock = t /\ Phase = "w_free" /\ Loaded
    BY <1>1, Holder
  <1>3. /\ Sound(circ_buf)
        /\ frame[t].to_free # NULL => Foreign(circ_buf, frame[t].to_free)
    BY <1>2 DEF Inv, Memory, Displaced
  <1>4. frame[t] \in WriteFrame /\ DOMAIN frame = Thread
    BY <1>1 DEF Inv, Control, WriteLocation
  <1>5. Hold(t, "w_unlock") /\ UNCHANGED <<circ_buf, frame>> /\ read_buf' = NULL
    BY <1>1, <1>4 DEF WriteFree, Hold, Location, Critical, Publishing
  <1>6. /\ pc' \in [Thread -> Location]
        /\ MutualExclusion' /\ Control'
        /\ Phase' = "w_unlock" /\ Loaded' /\ lock' = t
    BY <1>5, HoldControl
  <1>7. heap \in [Ptr -> Seq(Byte) \cup {Freed}]
    BY DEF Inv, SharedTypeOK
  <1>8. heap' \in [Ptr -> Seq(Byte) \cup {Freed}]
    BY <1>7 DEF WriteFree
  <1>9. SharedTypeOK'
    BY <1>3, <1>5, <1>6, <1>8 DEF Inv, SharedTypeOK, Hold, Sound, WellFormed
  <1>10. ASSUME NEW i \in Slot, circ_buf.entry[i].buffptr # NULL
         PROVE  heap'[circ_buf.entry[i].buffptr] = heap[circ_buf.entry[i].buffptr]
    <2>1. circ_buf.entry[i].buffptr \in Ptr
      BY <1>10 DEF Inv, SharedTypeOK, OpenBuffer, Entry
    <2>2. circ_buf.entry[i].buffptr # frame[t].to_free
      BY <1>3, <1>10 DEF Foreign
    <2> QED
      BY <2>1, <2>2 DEF WriteFree
  <1>11. Sound(circ_buf)'
    BY <1>3, <1>5, <1>10 DEF Sound, Holds
  <1>12. PendingSound(circ_buf)'
    BY <1>5 DEF PendingSound, Pending, EmptyEntry
  <1>13. Memory'
    BY <1>6, <1>11, <1>12 DEF Memory, Loaded, Publishing
  <1> QED
    BY <1>6, <1>9, <1>13 DEF Inv

-----------------------------------------------------------------------------
(* Every step preserves the invariant. *)
LEMMA NextInv == Inv /\ [Next]_vars => Inv'
  <1> SUFFICES ASSUME Inv, [Next]_vars PROVE Inv'
    OBVIOUS
  <1>1. CASE UNCHANGED vars
    <2>1. UNCHANGED <<module, lock, read_buf, circ_buf, heap, opened, pc, frame>>
      BY <1>1 DEF vars, dev
    <2>2. SharedTypeOK' /\ MutualExclusion' /\ Control'
      BY <2>1 DEF Inv, SharedTypeOK, MutualExclusion, Control, Phase
    <2>3. Phase' = Phase
      BY <2>1 DEF Phase
    <2>4. Memory'
      BY <2>1, <2>3, MemoryFrame DEF Inv
    <2> QED
      BY <2>2, <2>4 DEF Inv
  <1>2. CASE aesd_init_module \/ RegisterFault \/ SetupAllocFault
    BY <1>2, LoadInv, LoadFaultInv
  <1>3. CASE aesd_cleanup_module
    BY <1>3, UnloadInv
  <1>4. ASSUME NEW t \in Thread,
               \/ aesd_open(t) \/ aesd_release(t)
               \/ Call(t) \/ WriteLock(t) \/ SeekLock(t) \/ LockInterrupted(t) \/ Step(t)
        PROVE  Inv'
    <2>1. CASE aesd_open(t) \/ aesd_release(t)
      BY <2>1, FileInv
    <2>2. CASE Call(t)
      BY <2>2, CallInv, ReadInv, FileInv DEF Call
    <2>3. CASE WriteLock(t) \/ SeekLock(t)
      BY <2>3, LockInv
    <2>4. CASE LockInterrupted(t) \/ Return(t)
      BY <2>4, CallInv
    <2>5. CASE ReadStep(t)
      BY <2>5, ReadInv
    <2>6. CASE SeekStep(t)
      BY <2>6, SeekInv
    <2>7. CASE WriteStep(t)
      <3>1. CASE AddStep(t)
        BY <3>1, AddBuffptrInv, AddSteps, AddToInv, AddDoneInv DEF AddStep, AddDone
      <3> QED
        BY <2>7, <3>1, StoreInv, AllocFaultInv, FreeInv, LockInv DEF WriteStep
    <2> QED
      BY <1>4, <2>1, <2>2, <2>3, <2>4, <2>5, <2>6, <2>7 DEF Step
  <1> QED
    BY <1>1, <1>2, <1>3, <1>4 DEF Next

(* At every moment the driver's blocks have one owner each. *)
LEMMA InvOneOwner == Inv => OneOwner
  <1> SUFFICES ASSUME Inv, Loaded PROVE OneOwner
    BY DEF OneOwner
  <1>1. /\ lock \in Thread \cup {NoThread}
        /\ circ_buf.entry \in [Slot -> Entry]
        /\ NoThread \notin Thread
        /\ Freed \notin Seq(Byte)
    BY DriverAssumption DEF Inv, SharedTypeOK, OpenBuffer
  <1>2. CASE Phase \in Publishing
    <2>1. lock \in Thread /\ Phase = pc[lock]
      BY <1>1, <1>2 DEF Phase, Publishing
    <2>2. read_buf \in NewEntry
      BY <1>2, <2>1 DEF Inv, Control
    <2>3. PICK b : InFlight(b)
      BY <1>2 DEF Inv, Memory
    <2>4. b \in Buffer /\ b.entry \in [Slot -> Entry] /\ b.in_offs \in Slot
      BY <2>3 DEF InFlight, Sound, WellFormed, Buffer
    <2>5. \/ circ_buf.entry = [b.entry EXCEPT ![b.in_offs] = read_buf]
          \/ /\ Phase = "add_size" /\ circ_buf.in_offs = b.in_offs
             /\ circ_buf.entry = [b.entry EXCEPT ![b.in_offs].buffptr = read_buf.buffptr]
      BY <1>2, <2>2, <2>3, <2>4, PartialShape DEF InFlight
    <2>6. \A i \in Slot : /\ i = b.in_offs => circ_buf.entry[i].buffptr = read_buf.buffptr
                          /\ i = b.in_offs /\ Phase # "add_size" => circ_buf.entry[i] = read_buf
                          /\ i # b.in_offs => circ_buf.entry[i] = b.entry[i]
      BY <2>2, <2>4, <2>5 DEF Entry, NewEntry
    <2>7. Pending = read_buf /\ read_buf.buffptr # NULL
      BY <2>2, BufferAssumption, DriverAssumption DEF Pending, NewEntry, Entry
    <2>8. Holds(read_buf.buffptr, read_buf.size) /\ Foreign(b, read_buf.buffptr) /\ Sound(b)
      BY <2>3, <2>7 DEF InFlight, PendingSound
    <2>9. /\ ToFree = {b.entry[b.in_offs].buffptr} \ {NULL}
          /\ Assembled = {}
      BY <1>2, <2>3 DEF ToFree, Assembled, InFlight, DisplacedBuffptr
    <2>10. \A p \in Entries \cup ToFree \cup Assembled : heap[p] # Freed
      BY <1>1, <2>4, <2>6, <2>8, <2>9 DEF Entries, Sound, Holds
    <2>11. ToFree \cap Entries = {} /\ Assembled \cap (Entries \cup ToFree) = {}
      BY <2>4, <2>6, <2>8, <2>9 DEF Entries, Sound, Foreign
    <2>12. \A i, j \in Slot :
             i # j /\ circ_buf.entry[i].buffptr = circ_buf.entry[j].buffptr
               => circ_buf.entry[i].buffptr = NULL
      BY <2>6, <2>8 DEF Sound, Foreign
    <2>13. \A i \in Slot :
             circ_buf.entry[i].buffptr # NULL /\ ~ (Phase = "add_size" /\ i = circ_buf.in_offs)
               => Len(heap[circ_buf.entry[i].buffptr]) = circ_buf.entry[i].size
      <3> SUFFICES ASSUME NEW i \in Slot, circ_buf.entry[i].buffptr # NULL,
                          ~ (Phase = "add_size" /\ i = circ_buf.in_offs)
                   PROVE  Len(heap[circ_buf.entry[i].buffptr]) = circ_buf.entry[i].size
        OBVIOUS
      <3>1. CASE i = b.in_offs
        <4>1. circ_buf.entry[i] = read_buf
          BY <2>2, <2>4, <2>5, <2>6, <3>1
        <4> QED
          BY <2>8, <4>1 DEF Holds
      <3>2. CASE i # b.in_offs
        BY <2>6, <2>8, <3>2 DEF Sound, Holds
      <3> QED
        BY <3>1, <3>2
    <2> QED
      BY <2>10, <2>11, <2>12, <2>13 DEF OneOwner
  <1>3. CASE Phase = "w_free"
    <2>1. /\ Sound(circ_buf)
          /\ frame[lock].to_free # NULL =>
               heap[frame[lock].to_free] # Freed /\ Foreign(circ_buf, frame[lock].to_free)
      BY <1>3 DEF Inv, Memory, Displaced
    <2>2. ToFree = {frame[lock].to_free} \ {NULL} /\ Assembled = {}
      BY <1>3 DEF ToFree, Assembled
    <2> QED
      BY <1>1, <2>1, <2>2 DEF OneOwner, Entries, Sound, Holds, Foreign
  <1>4. CASE Phase \notin Publishing \cup {"w_free"}
    <2>1. Sound(circ_buf) /\ PendingSound(circ_buf)
      BY <1>4 DEF Inv, Memory
    <2>2. ToFree = {} /\ Assembled = {Pending.buffptr} \ {NULL}
      BY <1>4 DEF ToFree, Assembled
    <2> QED
      BY <1>1, <2>1, <2>2 DEF OneOwner, Entries, Sound, PendingSound, Holds, Foreign
  <1> QED
    BY <1>2, <1>3, <1>4

(* The critical sections of aesd_write and aesd_ioctl never overlap, for   *)
(* any number of threads and whatever fails: a thread between mutex_lock   *)
(* and mutex_unlock holds the lock, although several error returns keep it *)
(* locked for ever.  What the threads share keeps its type.                *)
THEOREM DriverMutualExclusion == Spec => [](SharedTypeOK /\ MutualExclusion)
  <1>1. Inv => SharedTypeOK /\ MutualExclusion
    BY DEF Inv
  <1> QED
    BY <1>1, InitInv, NextInv, PTL DEF Spec

(* aesd_write, krealloc, add_entry and kfree never free a block twice,     *)
(* never let two slots or a slot and the read_buf share one, and never     *)
(* leave a slot pointing to freed memory or to a block of another length,  *)
(* for any array size, any number of threads and whatever fails.           *)
THEOREM DriverOneOwner == Spec => []OneOwner
  BY InitInv, NextInv, InvOneOwner, PTL DEF Spec

-----------------------------------------------------------------------------
(***************************************************************************)
(* The driver leaks no command's bytes while its allocations succeed, and  *)
(* its cleanup frees those of every command, for any number of slots,      *)
(* threads and addresses and whatever else fails.  What it does leak are   *)
(* entry structs, and mybuffers together with the lock.                    *)
(***************************************************************************)

(* What is allocated has an owner while the module is loaded and is the    *)
(* unterminated command once it is gone.                                   *)
LeakFree == BytesOwned /\ CleanupFreesCommands

(* Where the owner of the to_free pointer is. *)
HandingOver == Publishing \cup {"w_free"}

(* Nothing is allocated before the module is loaded. *)
LEMMA InitLeakFree == Init => LeakFree
  BY DEF Init, LeakFree, BytesOwned, CleanupFreesCommands, Loaded

-----------------------------------------------------------------------------
(* Steps that leave the shared structures alone. *)

(* The owners are a function of the shared structures, of the lock         *)
(* holder's place and, while an entry is handed over, of its to_free.      *)
LEMMA SameOwners ==
  ASSUME LeakFree, UNCHANGED <<module, read_buf, circ_buf, heap>>,
         \/ Phase' = Phase /\ frame'[lock'] = frame[lock]
         \/ Phase \notin Busy /\ Phase' \notin Busy
  PROVE  LeakFree'
  <1>1. Entries' = Entries /\ Pending' = Pending /\ (Loaded' <=> Loaded)
    BY DEF Entries, Pending, Loaded
  <1>2. ToFree' = ToFree /\ Assembled' = Assembled
    <2>1. CASE Phase' = Phase /\ frame'[lock'] = frame[lock]
      BY <1>1, <2>1 DEF ToFree, Assembled
    <2>2. CASE Phase \notin Busy /\ Phase' \notin Busy
      BY <1>1, <2>2 DEF ToFree, Assembled, Busy
    <2> QED
      BY <2>1, <2>2
  <1> QED
    BY <1>1, <1>2 DEF LeakFree, BytesOwned, CleanupFreesCommands

(* t moves outside the part of aesd_write that hands the read_buf over; at *)
(* most it takes or releases the lock, or leaves its critical section with *)
(* the lock held and mybuffer lost.                                        *)
Aside(t) ==
  /\ UNCHANGED <<module, read_buf, circ_buf, heap, opened>>
  /\ pc[t] \notin Busy /\ pc'[t] \notin Busy
  /\ \A u \in Thread \ {t} : pc'[u] = pc[u] /\ frame'[u] = frame[u]
  /\ \/ lock' = lock /\ (pc'[t] \in Critical => pc[t] \in Critical)
     \/ lock = NoThread /\ lock' = t
     \/ lock = t /\ lock' = NoThread /\ pc[t] \in Critical
  /\ \/ lost' = lost
     \/ /\ lost' = lost \cup {"mybuffer"}
        /\ lock' = t /\ pc[t] \in Critical /\ pc'[t] \notin Critical

(* Such a step keeps the owners. *)
LEMMA AsideLeakFree ==
  ASSUME Inv, LeakFree, NEW t \in Thread, Aside(t)
  PROVE  LeakFree'
  <1>1. lock \in Thread \cup {NoThread} /\ NoThread \notin Thread
    BY DriverAssumption DEF Inv, SharedTypeOK
  <1>2. \/ Phase' = Phase /\ frame'[lock'] = frame[lock]
        \/ Phase \notin Busy /\ Phase' \notin Busy
    <2>1. CASE lock' = lock /\ lock \in Thread \ {t}
      BY <1>1, <2>1 DEF Phase, Aside
    <2>2. CASE lock \in {t, NoThread} /\ lock' \in {t, NoThread}
      BY <1>1, <2>2 DEF Phase, Aside, Busy, Publishing
    <2> QED
      BY <1>1, <2>1, <2>2 DEF Aside
  <1> QED
    BY <1>2, SameOwners DEF Aside

(* Reads, calls, returns, taking and giving back the lock, and the body of *)
(* aesd_ioctl are such steps.                                              *)
LEMMA AsideSteps ==
  ASSUME Inv, NEW t \in Thread,
         \/ ReadStep(t) \/ SeekStep(t) \/ Return(t) \/ LockInterrupted(t)
         \/ WriteLock(t) \/ SeekLock(t) \/ WriteUnlock(t)
         \/ \E count \in Counts : ReadTotal(t, count)
         \/ \E chunk \in Chunk : WriteCall(t, chunk)
         \/ \E seek \in SeekTo : SeekCall(t, seek)
  PROVE  Aside(t)
  <1> USE DEF Busy, Publishing, Critical, Idle
  <1>1. /\ pc \in [Thread -> Location]
        /\ DOMAIN frame = Thread
    BY DEF Inv, SharedTypeOK, Control
  <1>2. ASSUME NEW where, NEW locals, Goto(t, where, locals), where \notin Busy,
               pc[t] \notin Busy, UNCHANGED <<module, read_buf, circ_buf, heap, lost, opened>>,
               where \notin Critical,
               lock' = lock \/ (lock = t /\ lock' = NoThread /\ pc[t] \in Critical)
        PROVE  Aside(t)
    BY <1>1, <1>2 DEF Aside, Goto
  <1>3. CASE ReadStep(t)
    <2>1. CASE ReadFind(t)
      <3>1. PICK where, locals : where \in {"ret", "r_size"} /\ Goto(t, where, locals)
        BY <2>1 DEF ReadFind
      <3> QED
        BY <1>2, <2>1, <3>1 DEF ReadFind, dev
    <2>2. CASE ReadSize(t)
      BY <1>2, <2>2 DEF ReadSize, dev
    <2>3. CASE ReadBuffptr(t)
      BY <1>2, <2>3 DEF ReadBuffptr, dev
    <2>4. CASE ReadCopy(t)
      BY <1>2, <2>4 DEF ReadCopy, dev
    <2>5. CASE ReadFindOutside(t)
      <3>1. PICK where, locals : where \in {"ret", "dead"} /\ Goto(t, where, locals)
        BY <2>5 DEF ReadFindOutside
      <3> QED
        BY <1>2, <2>5, <3>1 DEF ReadFindOutside, dev
    <2> QED
      BY <1>3, <2>1, <2>2, <2>3, <2>4, <2>5 DEF ReadStep
  <1>4. CASE SeekStep(t)
    <2>1. pc[t] = "s_copy"
      BY <1>4 DEF SeekStep, SeekReject, SeekCopy, SeekCopyFault, SeekAllocFault
    <2>2. lock = t
      BY <2>1, Holder
    <2>3. ASSUME NEW locals, Goto(t, "ret", locals),
                 UNCHANGED <<module, lock, read_buf, circ_buf, heap, opened>>,
                 lost' = lost \cup {"mybuffer"}
          PROVE  Aside(t)
      BY <1>1, <2>1, <2>2, <2>3 DEF Aside, Goto
    <2>4. CASE SeekReject(t)
      BY <2>3, <2>4 DEF SeekReject
    <2>5. CASE SeekCopy(t)
      BY <1>2, <2>1, <2>2, <2>5 DEF SeekCopy
    <2>7. CASE SeekCopyFault(t)
      BY <1>2, <2>1, <2>2, <2>3, <2>7 DEF SeekCopyFault
    <2>6. CASE SeekAllocFault(t)
      BY <1>2, <2>1, <2>6 DEF SeekAllocFault, dev
    <2> QED
      BY <1>4, <2>4, <2>5, <2>6, <2>7 DEF SeekStep
  <1>5. CASE Return(t)
    BY <1>2, <1>5 DEF Return, dev
  <1>6. CASE LockInterrupted(t)
    BY <1>2, <1>6 DEF LockInterrupted, dev
  <1>7. CASE WriteLock(t)
    BY <1>1, <1>7 DEF WriteLock, Aside
  <1>8. CASE SeekLock(t)
    BY <1>1, <1>8 DEF SeekLock, Aside
  <1>9. CASE WriteUnlock(t)
    <2>1. lock = t
      BY <1>9, Holder DEF WriteUnlock
    <2> QED
      BY <1>2, <1>9, <2>1 DEF WriteUnlock
  <1>10. ASSUME NEW count \in Counts, ReadTotal(t, count) PROVE Aside(t)
    <2>1. PICK where, locals : where \in {"ret", "r_find"} /\ Goto(t, where, locals)
      BY <1>10 DEF ReadTotal, Begin
    <2> QED
      BY <1>2, <1>10, <2>1 DEF ReadTotal, Begin, dev
  <1>11. ASSUME NEW chunk \in Chunk, WriteCall(t, chunk) PROVE Aside(t)
    BY <1>2, <1>11 DEF WriteCall, Begin, dev
  <1>12. ASSUME NEW seek \in SeekTo, SeekCall(t, seek) PROVE Aside(t)
    BY <1>2, <1>12 DEF SeekCall, Begin, dev
  <1> QED
    BY <1>3, <1>4, <1>5, <1>6, <1>7, <1>8, <1>9, <1>10, <1>11, <1>12

-----------------------------------------------------------------------------
(* The steps of aesd_write under the lock. *)

(* While a thread is in its critical section the module stays loaded, so   *)
(* only the owners are to be looked at.                                    *)
LEMMA StillLoaded ==
  ASSUME Inv, NEW t \in Thread, pc[t] \in Critical, UNCHANGED module, BytesOwned'
  PROVE  LeakFree'
  BY Holder DEF Loaded, LeakFree, CleanupFreesCommands

(* Storing the chunk, and the copy that fails: the block that krealloc     *)
(* left is free.                                                           *)
LEMMA StoreLeakFree ==
  ASSUME Inv, LeakFree, NEW t \in Thread, WriteStore(t) \/ WriteCopyFault(t)
  PROVE  LeakFree'
  <1>1. pc[t] = "w_store" /\ pc[t] \in Critical /\ UNCHANGED <<module, lock, circ_buf>>
    BY DEF WriteStore, WriteCopyFault, Critical
  <1>2. lock = t /\ Phase = "w_store" /\ Loaded
    BY <1>1, Holder
  <1>3. PICK p, bytes, n : /\ p \in NewBlock /\ n \in Nat
                           /\ heap' = Reallocated(p, bytes)
                           /\ read_buf' = [buffptr |-> p, size |-> n]
    <2>1. Sound(circ_buf) /\ PendingSound(circ_buf)
      BY <1>2 DEF Inv, Memory, Publishing
    <2>2. Pending.size \in Nat
      BY <2>1, PendingFacts DEF Entry
    <2>3. Len(frame[t].chunk) \in Nat
      BY <1>1 DEF Inv, Control, WriteLocation, WriteFrame
    <2>4. Pending.size + Len(frame[t].chunk) \in Nat
      BY <2>2, <2>3
    <2> QED
      BY <2>2, <2>4 DEF WriteStore, WriteCopyFault
  <1>4. Phase' \notin HandingOver
    <2>1. pc \in [Thread -> Location]
      BY DEF Inv, SharedTypeOK
    <2>2. pc'[t] \in {"add_buffptr", "w_unlock", "ret"}
      BY <2>1 DEF WriteStore, WriteCopyFault, Goto
    <2>3. Phase' = pc'[t]
      BY <1>1, <1>2, DriverAssumption DEF Phase
    <2> QED
      BY <2>2, <2>3 DEF HandingOver, Publishing
  <1>5. \A q \in Ptr : heap'[q] # Freed => q = p \/ (q # Pending.buffptr /\ heap[q] # Freed)
    BY <1>3 DEF Reallocated
  <1>6. ToFree = {} /\ Assembled = {Pending.buffptr} \ {NULL} /\ Entries' = Entries
    BY <1>1, <1>2 DEF ToFree, Assembled, Entries, Publishing
  <1>7. p = Pending'.buffptr \/ p = NULL
    <2> SUFFICES ASSUME p # NULL PROVE p = Pending'.buffptr
      OBVIOUS
    <2>1. Pending.buffptr \in Ptr \cup {NULL}
      BY <1>2, PendingFacts DEF Inv, Memory, Entry, Publishing
    <2>2. p \in Ptr \cup {NULL}
      BY <1>3, <2>1 DEF NewBlock, FreePtr
    <2>3. read_buf' \in Entry /\ read_buf'.buffptr = p
      BY <1>3, <2>2 DEF Entry
    <2>4. read_buf' # NULL
      BY <2>3, DriverAssumption
    <2> QED
      BY <2>3, <2>4 DEF Pending
  <1>8. Assembled' = {Pending'.buffptr} \ {NULL}
    BY <1>4 DEF Assembled, HandingOver
  <1>9. BytesOwned'
    BY <1>2, <1>5, <1>6, <1>7, <1>8, BufferAssumption DEF LeakFree, BytesOwned
  <1> QED
    BY <1>1, <1>9, StillLoaded

(* The first assignment of add_entry: the slot takes the read_buf's block  *)
(* and the writer the one the slot had.                                    *)
LEMMA AddBuffptrLeakFree ==
  ASSUME Inv, LeakFree, NEW t \in Thread, AddBuffptr(t)
  PROVE  LeakFree'
  <1>1. pc[t] = "add_buffptr" /\ pc[t] \in Critical /\ UNCHANGED <<module, lock, heap>>
    BY DEF AddBuffptr, Critical
  <1>2. lock = t /\ Phase = "add_buffptr" /\ Loaded
    BY <1>1, Holder
  <1>3. /\ read_buf \in NewEntry
        /\ frame[t] \in WriteFrame
        /\ DOMAIN frame = Thread
        /\ pc \in [Thread -> Location]
        /\ circ_buf \in Buffer
        /\ circ_buf.entry \in [Slot -> Entry] /\ circ_buf.in_offs \in Slot
    BY <1>1, <1>2 DEF Inv, Control, SharedTypeOK, WriteLocation, Buffer
  <1> DEFINE d == circ_buf.entry[circ_buf.in_offs].buffptr
  <1>4. Phase' = "add_size" /\ frame'[lock'].to_free = d
    <2>1. pc'[t] = "add_size" /\ frame'[t] = [frame[t] EXCEPT !.to_free = d]
      BY <1>3 DEF AddBuffptr, Goto, DisplacedBuffptr
    <2>2. frame'[t].to_free = d
      BY <1>3, <2>1 DEF WriteFrame
    <2> QED
      BY <1>1, <1>2, <2>1, <2>2, DriverAssumption DEF Phase
  <1>5. ToFree' = {d} \ {NULL}
    BY <1>4 DEF ToFree, Publishing
  <1>6. ToFree = {} /\ Assembled = {Pending.buffptr} \ {NULL}
    BY <1>2 DEF ToFree, Assembled, Publishing
  <1>7. Pending = read_buf
    BY <1>3, BufferAssumption, DriverAssumption DEF Pending, NewEntry, Entry
  <1>8. circ_buf'.entry = [circ_buf.entry EXCEPT ![circ_buf.in_offs].buffptr = read_buf.buffptr]
    BY <1>3, PartialFields DEF AddBuffptr
  <1>9. \A i \in Slot : circ_buf'.entry[i].buffptr =
          IF i = circ_buf.in_offs THEN read_buf.buffptr ELSE circ_buf.entry[i].buffptr
    BY <1>3, <1>8 DEF Entry, NewEntry
  <1>10. read_buf.buffptr \in Entries'
    BY <1>3, <1>9, BufferAssumption DEF Entries, NewEntry
  <1>11. ASSUME NEW q \in Entries PROVE q \in Entries' \cup ToFree'
    <2>1. PICK i \in Slot : q = circ_buf.entry[i].buffptr /\ q # NULL
      BY DEF Entries
    <2>2. CASE i = circ_buf.in_offs
      BY <1>5, <2>1, <2>2
    <2>3. CASE i # circ_buf.in_offs
      BY <1>9, <2>1, <2>3 DEF Entries
    <2> QED
      BY <2>2, <2>3
  <1> HIDE DEF d
  <1>12. BytesOwned'
    BY <1>1, <1>2, <1>6, <1>7, <1>10, <1>11 DEF LeakFree, BytesOwned
  <1> QED
    BY <1>1, <1>12, StillLoaded

(* The other assignments of add_entry change no pointer. *)
LEMMA AddLeakFree ==
  ASSUME Inv, LeakFree, NEW t \in Thread, AddRest(t)
  PROVE  LeakFree'
  <1>1. /\ pc[t] \in Publishing /\ pc[t] \in Critical
        /\ UNCHANGED <<module, lock, heap, frame>>
        /\ pc'[t] \in HandingOver
    BY AddRestMoves DEF Critical, HandingOver, Inv, SharedTypeOK
  <1>2. lock = t /\ Phase = pc[t] /\ Loaded
    BY <1>1, Holder
  <1>4. Phase' \in HandingOver /\ Phase \in HandingOver
    BY <1>1, <1>2, DriverAssumption DEF Phase, HandingOver
  <1>5. ToFree' = ToFree /\ Assembled' = Assembled
    BY <1>1, <1>4 DEF ToFree, Assembled, HandingOver
  <1>6. circ_buf \in OpenBuffer /\ (AddSize(t) => circ_buf \in Buffer)
    BY <1>2 DEF Inv, SharedTypeOK, AddSize
  <1>7. \A i \in Slot : circ_buf'.entry[i].buffptr = circ_buf.entry[i].buffptr
    <2>1. CASE AddSize(t)
      BY <1>6, <2>1 DEF AddSize, StoreSize, Buffer, Entry
    <2>2. CASE AddOut(t)
      BY <1>6, <2>2 DEF AddOut, IncrementOut, OpenBuffer
    <2>3. CASE AddWrapOut(t)
      BY <1>6, <2>3 DEF AddWrapOut, WrapOut, OpenBuffer
    <2>4. CASE AddIn(t)
      BY <1>6, <2>4 DEF AddIn, IncrementIn, OpenBuffer
    <2>5. CASE AddWrapIn(t)
      BY <1>6, <2>5 DEF AddWrapIn, WrapIn, OpenBuffer
    <2>6. CASE AddSetFull(t)
      BY <1>6, <2>6 DEF AddSetFull, SetFull, OpenBuffer
    <2> QED
      BY <2>1, <2>2, <2>3, <2>4, <2>5, <2>6 DEF AddRest
  <1>8. Entries' = Entries
    BY <1>7 DEF Entries
  <1>9. BytesOwned'
    BY <1>1, <1>2, <1>5, <1>8 DEF LeakFree, BytesOwned
  <1> QED
    BY <1>1, <1>9, StillLoaded

(* What was displaced is freed, so its owner may forget it. *)
LEMMA FreeLeakFree ==
  ASSUME Inv, LeakFree, NEW t \in Thread, WriteFree(t)
  PROVE  LeakFree'
  <1>1. pc[t] = "w_free" /\ pc[t] \in Critical /\ UNCHANGED <<module, lock, circ_buf>>
    BY DEF WriteFree, Critical
  <1>2. lock = t /\ Phase = "w_free" /\ Loaded
    BY <1>1, Holder
  <1>3. ToFree = {frame[t].to_free} \ {NULL} /\ Assembled = {} /\ Entries' = Entries
    BY <1>1, <1>2 DEF ToFree, Assembled, Entries
  <1>4. \A q \in Ptr : heap'[q] # Freed => q # frame[t].to_free /\ heap[q] # Freed
    BY DEF WriteFree
  <1>5. BytesOwned'
    BY <1>2, <1>3, <1>4 DEF LeakFree, BytesOwned
  <1> QED
    BY <1>1, <1>5, StillLoaded

-----------------------------------------------------------------------------
(* Loading and unloading. *)

(* A newly loaded module owns nothing, and nothing is allocated. *)
LEMMA LoadLeakFree ==
  ASSUME Inv, aesd_init_module
  PROVE  LeakFree'
  <1>1. \A p \in Ptr : heap'[p] = Freed
    BY DEF Inv, Memory, aesd_init_module
  <1> QED
    BY <1>1 DEF LeakFree, BytesOwned, CleanupFreesCommands, aesd_init_module

(* The cleanup runs when nobody is inside the driver, so that every block  *)
(* belongs to a slot or is the unterminated command.                       *)
LEMMA UnloadLeakFree ==
  ASSUME Inv, LeakFree, aesd_cleanup_module
  PROVE  LeakFree'
  <1>1. Loaded /\ opened = {} /\ ~ Loaded' /\ UNCHANGED read_buf
    BY DEF aesd_cleanup_module, Loaded
  <1>2. Phase \notin HandingOver
    <2>1. \A u \in Thread : pc[u] \in {Idle, "dead"}
      BY <1>1, NobodyInside
    <2>2. lock \in Thread \cup {NoThread}
      BY DEF Inv, SharedTypeOK
    <2> QED
      BY <2>1, <2>2 DEF Phase, HandingOver, Publishing, Idle
  <1>3. ToFree = {} /\ Assembled = {Pending.buffptr} \ {NULL}
    BY <1>2 DEF ToFree, Assembled, HandingOver
  <1>4. ASSUME NEW q \in Ptr, heap'[q] # Freed PROVE q = Pending.buffptr
    <2>1. heap[q] # Freed /\ q \notin Entries
      BY <1>4 DEF aesd_cleanup_module, Entries
    <2> QED
      BY <1>1, <1>3, <2>1 DEF LeakFree, BytesOwned
  <1>5. Pending' = Pending
    BY <1>1 DEF Pending
  <1>6. CleanupFreesCommands'
    BY <1>4, <1>5 DEF CleanupFreesCommands
  <1> QED
    BY <1>1, <1>6 DEF LeakFree, BytesOwned

-----------------------------------------------------------------------------
(* Every step keeps the owners, unless an allocation fails. *)
LEMMA NextLeakFree ==
  ASSUME "alloc" \notin Faults, Inv, LeakFree, [Next]_vars
  PROVE  LeakFree'
  <1>1. CASE UNCHANGED <<module, dev, pc, frame>>
    <2>1. UNCHANGED <<module, lock, read_buf, circ_buf, heap, pc, frame>>
      BY <1>1 DEF dev
    <2>2. Phase' = Phase /\ frame'[lock'] = frame[lock]
      BY <2>1 DEF Phase
    <2> QED
      BY <2>1, <2>2, SameOwners
  <1>2. CASE UNCHANGED vars
    BY <1>1, <1>2 DEF vars
  <1>3. CASE aesd_init_module
    BY <1>3, LoadLeakFree
  <1>4. CASE aesd_cleanup_module
    BY <1>4, UnloadLeakFree
  <1>6. CASE RegisterFault
    <2>1. UNCHANGED <<module, lock, read_buf, circ_buf, heap, pc, frame>>
      BY <1>6 DEF RegisterFault
    <2>2. Phase' = Phase /\ frame'[lock'] = frame[lock]
      BY <2>1 DEF Phase
    <2> QED
      BY <2>1, <2>2, SameOwners
  <1>7. ~ SetupAllocFault
    BY DEF SetupAllocFault
  <1>5. ASSUME NEW t \in Thread,
               \/ aesd_open(t) \/ aesd_release(t)
               \/ Call(t) \/ WriteLock(t) \/ SeekLock(t) \/ LockInterrupted(t) \/ Step(t)
        PROVE  LeakFree'
    <2>1. CASE aesd_open(t) \/ aesd_release(t)
      BY <1>1, <2>1 DEF aesd_open, aesd_release
    <2>2. CASE Call(t)
      <3>1. CASE \E off \in Offsets, whence \in {SEEK_SET, SEEK_CUR, SEEK_END} :
                   aesd_llseek(t, off, whence)
        BY <1>1, <3>1 DEF aesd_llseek
      <3>2. CASE \/ \E count \in Counts : ReadTotal(t, count)
                 \/ \E chunk \in Chunk : WriteCall(t, chunk)
                 \/ \E seek \in SeekTo : SeekCall(t, seek)
        BY <3>2, AsideSteps, AsideLeakFree
      <3> QED
        BY <2>2, <3>1, <3>2 DEF Call
    <2>3. CASE WriteLock(t) \/ SeekLock(t) \/ LockInterrupted(t) \/ Return(t)
      BY <2>3, AsideSteps, AsideLeakFree
    <2>4. CASE ReadStep(t) \/ SeekStep(t)
      BY <2>4, AsideSteps, AsideLeakFree
    <2>5. CASE WriteStep(t)
      <3>1. ~ WriteAllocFault(t)
        BY DEF WriteAllocFault
      <3>2. CASE WriteUnlock(t)
        BY <3>2, AsideSteps, AsideLeakFree
      <3> QED
        BY <2>5, <3>1, <3>2, StoreLeakFree, AddBuffptrLeakFree, AddLeakFree, FreeLeakFree
        DEF WriteStep, AddStep, AddRest
    <2> QED
      BY <1>5, <2>1, <2>2, <2>3, <2>4, <2>5 DEF Step
  <1> QED
    BY <1>2, <1>3, <1>4, <1>5, <1>6, <1>7 DEF Next

(* The structs that are lost: an entry struct with every command, and a    *)
(* mybuffer by a call that goes on holding the lock outside its critical   *)
(* section.                                                                *)
LostOK ==
  /\ module = "new" => lost \subseteq {"setup"}
  /\ Phase = "w_free" => Count(circ_buf) > 0
  /\ Phase \notin HandingOver => ("entry" \in lost <=> Count(circ_buf) > 0)
  /\ "mybuffer" \in lost => lock # NoThread /\ pc[lock] \notin Critical

(* The initial struct holds no command. *)
LEMMA InitCount == Count(aesd_circular_buffer_init) = 0
  BY DEF Count, aesd_circular_buffer_init

(* Nothing is lost at first. *)
LEMMA InitLost == Init => LostOK
  BY InitCount DEF Init, LostOK, Phase

(* A buffer to which an entry has been added holds one. *)
LEMMA AddedCount ==
  ASSUME NEW b \in Buffer, NEW e \in NewEntry
  PROVE  Count(aesd_circular_buffer_add_entry(b, e)) > 0
  <1> DEFINE a == aesd_circular_buffer_add_entry(b, e)
  <1>1. /\ a \in Buffer
        /\ a.in_offs = NextSlot(b.in_offs)
        /\ b.in_offs + 1 = MAX_OPS => a.full = TRUE
    BY AddEntryFields
  <1>2. b.in_offs \in Nat
    BY BufferAssumption DEF Buffer, Slot
  <1> HIDE DEF a
  <1>3. Count(a) > 0
    <2>1. CASE b.in_offs + 1 = MAX_OPS
      BY <1>1, <2>1, BufferAssumption DEF Count
    <2>2. CASE b.in_offs + 1 # MAX_OPS
      BY <1>1, <1>2, <2>2, BufferAssumption DEF Count, NextSlot
    <2> QED
      BY <2>1, <2>2
  <1> QED
    BY <1>3 DEF a

(* A thread that takes no part in handing the read_buf over. *)
LEMMA AsideLost ==
  ASSUME Inv, LostOK, NEW t \in Thread, Aside(t)
  PROVE  LostOK'
  <1>1. lock \in Thread \cup {NoThread} /\ NoThread \notin Thread
    BY DriverAssumption DEF Inv, SharedTypeOK
  <1>2. Phase' = Phase \/ (Phase \notin HandingOver /\ Phase' \notin HandingOver)
    <2>1. CASE lock' = lock /\ lock \in Thread \ {t}
      BY <1>1, <2>1 DEF Phase, Aside
    <2>2. CASE lock \in {t, NoThread} /\ lock' \in {t, NoThread}
      BY <1>1, <2>2 DEF Phase, Aside, Busy, HandingOver, Publishing
    <2> QED
      BY <1>1, <2>1, <2>2 DEF Aside
  <1>3. "entry" \in lost' <=> "entry" \in lost
    BY DEF Aside
  <1>4. module # "new" \/ lost' = lost
    BY Holder DEF Aside, Loaded
  <1>5. "mybuffer" \in lost' => lock' # NoThread /\ pc'[lock'] \notin Critical
    BY <1>1 DEF Aside, LostOK
  <1>6. Count(circ_buf)' = Count(circ_buf)
    BY DEF Aside, Count
  <1>7. module' = module
    BY DEF Aside
  <1>8. /\ Phase' = "w_free" => Count(circ_buf)' > 0
        /\ Phase' \notin HandingOver => ("entry" \in lost' <=> Count(circ_buf)' > 0)
    <2>1. "w_free" \in HandingOver
      BY DEF HandingOver
    <2> QED
      BY <1>2, <1>3, <1>6, <2>1 DEF LostOK
  <1>9. module' = "new" => lost' \subseteq {"setup"}
    BY <1>4, <1>7 DEF LostOK
  <1> QED
    BY <1>5, <1>8, <1>9 DEF LostOK

(* A step of the lock holder. *)
LEMMA HolderLost ==
  ASSUME Inv, LostOK, NEW t \in Thread, pc[t] \in Critical, UNCHANGED <<module, lock>>,
         NEW where \in HandingOver \cup {"add_buffptr", "w_unlock", "ret"},
         \A u \in Thread : pc'[u] = IF u = t THEN where ELSE pc[u],
         lost' = lost \/ lost' = lost \cup {"entry"},
         where = "w_free" => Count(circ_buf)' > 0,
         where \notin HandingOver => ("entry" \in lost' <=> Count(circ_buf)' > 0)
  PROVE  LostOK'
  <1>1. lock = t /\ module # "new" /\ Phase' = where
    BY Holder, DriverAssumption DEF Phase, Loaded
  <1>2. "mybuffer" \notin lost'
    BY <1>1 DEF LostOK
  <1> QED
    BY <1>1, <1>2 DEF LostOK

(* Every step keeps account of what is lost. *)
LEMMA NextLost ==
  ASSUME "alloc" \notin Faults, Inv, LostOK, [Next]_vars
  PROVE  LostOK'
  <1>0. pc \in [Thread -> Location] /\ lock \in Thread \cup {NoThread} /\ NoThread \notin Thread
    BY DriverAssumption DEF Inv, SharedTypeOK
  <1>1. CASE UNCHANGED <<module, dev, pc>>
    BY <1>1 DEF dev, LostOK, Phase, Count
  <1>2. CASE UNCHANGED vars
    BY <1>1, <1>2 DEF vars
  <1>3. CASE aesd_init_module
    <2>1. Phase' = "free" /\ "entry" \notin lost' /\ "mybuffer" \notin lost'
      BY <1>3 DEF aesd_init_module, LostOK, Phase
    <2>2. Count(circ_buf)' = 0
      BY <1>3, InitCount DEF aesd_init_module, Count
    <2> QED
      BY <1>3, <2>1, <2>2 DEF aesd_init_module, LostOK
  <1>4. CASE aesd_cleanup_module \/ RegisterFault
    <2>1. /\ UNCHANGED <<lock, circ_buf, pc>>
          /\ lost' = lost \cup {"setup"}
          /\ module' = "new" => module = "new"
      BY <1>4 DEF aesd_cleanup_module, RegisterFault
    <2> QED
      BY <2>1 DEF LostOK, Phase, Count
  <1>5. ~ SetupAllocFault
    BY DEF SetupAllocFault
  <1>6. ASSUME NEW t \in Thread,
               \/ aesd_open(t) \/ aesd_release(t)
               \/ Call(t) \/ WriteLock(t) \/ SeekLock(t) \/ LockInterrupted(t) \/ Step(t)
        PROVE  LostOK'
    <2>1. CASE aesd_open(t) \/ aesd_release(t)
      BY <1>1, <2>1 DEF aesd_open, aesd_release
    <2>2. CASE Call(t)
      <3>1. CASE \E off \in Offsets, whence \in {SEEK_SET, SEEK_CUR, SEEK_END} :
                   aesd_llseek(t, off, whence)
        BY <1>1, <3>1 DEF aesd_llseek
      <3>2. CASE \/ \E count \in Counts : ReadTotal(t, count)
                 \/ \E chunk \in Chunk : WriteCall(t, chunk)
                 \/ \E seek \in SeekTo : SeekCall(t, seek)
        BY <3>2, AsideSteps, AsideLost
      <3> QED
        BY <2>2, <3>1, <3>2 DEF Call
    <2>3. CASE WriteLock(t) \/ SeekLock(t) \/ LockInterrupted(t) \/ Return(t) \/ WriteUnlock(t)
      BY <2>3, AsideSteps, AsideLost
    <2>4. CASE ReadStep(t) \/ SeekStep(t)
      BY <2>4, AsideSteps, AsideLost
    <2>5. CASE WriteStore(t) \/ WriteCopyFault(t) \/ AddBuffptr(t)
      <3>1. /\ pc[t] \in {"w_store", "add_buffptr"} /\ pc[t] \in Critical
            /\ UNCHANGED <<module, lock, lost>>
            /\ Count(circ_buf)' = Count(circ_buf) \/ AddBuffptr(t)
        BY <2>5 DEF WriteStore, WriteCopyFault, AddBuffptr, Critical, Count
      <3>2. PICK where \in {"add_size", "add_buffptr", "w_unlock", "ret"} :
              /\ \A u \in Thread : pc'[u] = IF u = t THEN where ELSE pc[u]
              /\ AddBuffptr(t) => where = "add_size"
        BY <1>0, <2>5 DEF WriteStore, WriteCopyFault, AddBuffptr, Goto
      <3>3. where # "add_size" => Count(circ_buf)' = Count(circ_buf)
        BY <2>5, <3>1, <3>2
      <3>4. "entry" \in lost <=> Count(circ_buf) > 0
        BY <3>1, Holder DEF LostOK, HandingOver, Publishing
      <3>5. where \in HandingOver \cup {"add_buffptr", "w_unlock", "ret"}
        BY DEF HandingOver, Publishing
      <3>6. where # "w_free" /\ (where \notin HandingOver => where # "add_size")
        BY DEF HandingOver, Publishing
      <3> QED
        BY <3>1, <3>2, <3>3, <3>4, <3>5, <3>6, HolderLost
    <2>6. CASE AddRest(t)
      <3>1. PICK where \in HandingOver :
              /\ pc[t] \in Critical
              /\ UNCHANGED <<module, lock, lost>>
              /\ \A u \in Thread : pc'[u] = IF u = t THEN where ELSE pc[u]
        BY <1>0, <2>6, AddRestMoves DEF HandingOver, Critical
      <3>2. where = "w_free" => Count(circ_buf)' > 0
        <4> SUFFICES ASSUME where = "w_free" PROVE Count(circ_buf)' > 0
          OBVIOUS
        <4>1. AddDone(t)
          BY <1>0, <2>6, <3>1
          DEF AddRest, AddDone, AddSize, AddOut, AddWrapOut, AddIn, AddWrapIn
        <4>2. pc[t] \in Publishing
          BY <4>1, AddDoneStep
        <4>3. PICK b : /\ Sound(b) /\ read_buf \in NewEntry
                       /\ circ_buf = Partial(pc[t], b, read_buf) /\ Reached(pc[t], b)
          BY <4>2, Flying
        <4>4. b \in Buffer
          BY <4>3 DEF Sound, WellFormed
        <4>5. circ_buf' = aesd_circular_buffer_add_entry(b, read_buf)
          BY <4>1, <4>3, <4>4, AddDoneStep
        <4>6. Count(aesd_circular_buffer_add_entry(b, read_buf)) > 0
          BY <4>3, <4>4, AddedCount
        <4> QED
          BY <4>5, <4>6 DEF Count
      <3> QED
        BY <3>1, <3>2, HolderLost
    <2>7. CASE WriteFree(t)
      <3>1. /\ pc[t] = "w_free" /\ pc[t] \in Critical
            /\ UNCHANGED <<module, lock, circ_buf>>
            /\ lost' = lost \cup {"entry"}
            /\ \A u \in Thread : pc'[u] = IF u = t THEN "w_unlock" ELSE pc[u]
        BY <1>0, <2>7 DEF WriteFree, Critical
      <3>2. Count(circ_buf)' > 0
        BY <3>1, Holder DEF LostOK, Count
      <3> QED
        BY <3>1, <3>2, HolderLost
    <2>8. ~ WriteAllocFault(t)
      BY DEF WriteAllocFault
    <2> QED
      BY <1>6, <2>1, <2>2, <2>3, <2>4, <2>5, <2>6, <2>7, <2>8
      DEF Step, WriteStep, AddStep, AddRest
  <1> QED
    BY <1>2, <1>3, <1>4, <1>5, <1>6 DEF Next

(* While its allocations succeed the driver leaks no command's bytes:      *)
(* every block of them is a slot's, the read_buf's or about to be freed.   *)
(* It leaks the entry struct of each command, and a mybuffer only together *)
(* with the lock, whatever copies and lock waits fail.                     *)
THEOREM DriverLeaksOnlyStructs ==
  ASSUME "alloc" \notin Faults
  PROVE  Spec => []LeaksOnlyStructs
  <1>1. Init => Inv /\ LeakFree /\ LostOK
    BY InitInv, InitLeakFree, InitLost
  <1>2. (Inv /\ LeakFree /\ LostOK) /\ [Next]_vars => (Inv /\ LeakFree /\ LostOK)'
    BY NextInv, NextLeakFree, NextLost
  <1>3. LeakFree /\ LostOK => LeaksOnlyStructs
    BY DEF LeakFree, LostOK, LeaksOnlyStructs, HandingOver
  <1> QED
    BY <1>1, <1>2, <1>3, PTL DEF Spec

(* aesd_cleanup_module frees the bytes of every command, those of a full   *)
(* and wrapped array included: only an unterminated command outlives it.   *)
THEOREM DriverCleanupFreesCommands ==
  ASSUME "alloc" \notin Faults
  PROVE  Spec => []CleanupFreesCommands
  <1>1. Init => Inv /\ LeakFree
    BY InitInv, InitLeakFree
  <1>2. (Inv /\ LeakFree) /\ [Next]_vars => (Inv /\ LeakFree)'
    BY NextInv, NextLeakFree
  <1>3. LeakFree => CleanupFreesCommands
    BY DEF LeakFree
  <1> QED
    BY <1>1, <1>2, <1>3, PTL DEF Spec

-----------------------------------------------------------------------------
(* The lock. *)

(* A seek that waits for the lock or is inside the ioctl is in range. *)
SeeksInRange ==
  \A t \in Thread : pc[t] \in {"s_lock", "s_copy"} =>
    frame[t].write_cmd \in Nat /\ frame[t].write_cmd <= MAX_OPS

(* t goes somewhere and keeps or takes the lock, or lets go of it.         *)
Moves(t, where) ==
  /\ pc' = [pc EXCEPT ![t] = where]
  /\ \A u \in Thread \ {t} : frame'[u] = frame[u]
  /\ \/ lock' = lock /\ (pc[t] \in Critical => where \in Critical)
     \/ lock' = t /\ where \in Critical
     \/ lock' = NoThread

(* Such a step leaves no lock behind. *)
LEMMA MovesKeepLock ==
  ASSUME Inv, NoReturnWithLock, SeeksInRange, NEW t \in Thread, NEW where, Moves(t, where),
         where \in {"s_lock", "s_copy"} =>
           frame'[t].write_cmd \in Nat /\ frame'[t].write_cmd <= MAX_OPS
  PROVE  (NoReturnWithLock /\ SeeksInRange)'
  <1>1. pc \in [Thread -> Location] /\ lock \in Thread \cup {NoThread} /\ NoThread \notin Thread
    BY DriverAssumption DEF Inv, SharedTypeOK
  <1>2. NoReturnWithLock'
    BY <1>1 DEF Moves, NoReturnWithLock
  <1>3. SeeksInRange'
    BY <1>1 DEF Moves, SeeksInRange
  <1> QED
    BY <1>2, <1>3

(* Every step of a thread is such a step, when no copy from the user and   *)
(* no allocation fails and no seek is out of range.                        *)
LEMMA ThreadKeepsLock ==
  ASSUME Faults \cap {"alloc", "copy_from"} = {},
         \A seek \in SeekTo : seek[1] <= MAX_OPS,
         Inv, NoReturnWithLock, SeeksInRange, NEW t \in Thread,
         \/ Call(t) \/ WriteLock(t) \/ SeekLock(t) \/ LockInterrupted(t) \/ Step(t)
  PROVE  (NoReturnWithLock /\ SeeksInRange)'
  <1> USE DEF Critical, Publishing, Reading, dev, Idle
  <1>1. DOMAIN frame = Thread
    BY DEF Inv, Control
  <1>2. ASSUME NEW where, NEW locals, Goto(t, where, locals),
               \/ lock' = lock /\ (pc[t] \in Critical => where \in Critical)
               \/ lock' = NoThread,
               where \notin {"s_lock", "s_copy"}
        PROVE  (NoReturnWithLock /\ SeeksInRange)'
    <2>1. Moves(t, where)
      BY <1>1, <1>2 DEF Moves, Goto
    <2> QED
      BY <1>2, <2>1, MovesKeepLock
  <1>3. ASSUME NEW where, pc' = [pc EXCEPT ![t] = where], frame' = frame, lock' \in {lock, t},
               where \in Critical, where = "s_copy" => pc[t] = "s_lock"
        PROVE  (NoReturnWithLock /\ SeeksInRange)'
    <2>1. Moves(t, where)
      BY <1>3 DEF Moves
    <2>2. where = "s_copy" => frame'[t].write_cmd \in Nat /\ frame'[t].write_cmd <= MAX_OPS
      BY <1>3 DEF SeeksInRange
    <2>3. where # "s_lock"
      BY <1>3
    <2> QED
      BY <2>1, <2>2, <2>3, MovesKeepLock
  <1>4. CASE Call(t)
    <2>1. ASSUME NEW chunk \in Chunk, WriteCall(t, chunk)
          PROVE  (NoReturnWithLock /\ SeeksInRange)'
      BY <1>2, <2>1 DEF WriteCall, Begin
    <2>2. ASSUME NEW count \in Counts, ReadTotal(t, count)
          PROVE  (NoReturnWithLock /\ SeeksInRange)'
      BY <1>2, <2>2 DEF ReadTotal, Begin
    <2>3. ASSUME NEW seek \in SeekTo, SeekCall(t, seek)
          PROVE  (NoReturnWithLock /\ SeeksInRange)'
      <3>1. Moves(t, "s_lock") /\ frame'[t] = [write_cmd |-> seek[1], offset |-> seek[2]]
        BY <1>1, <2>3 DEF SeekCall, Begin, Goto, Moves
      <3>2. seek[1] \in Nat /\ seek[1] <= MAX_OPS
        BY DriverAssumption
      <3> QED
        BY <3>1, <3>2, MovesKeepLock
    <2>4. CASE \E off \in Offsets, whence \in {SEEK_SET, SEEK_CUR, SEEK_END} :
                 aesd_llseek(t, off, whence)
      BY <2>4 DEF aesd_llseek, NoReturnWithLock, SeeksInRange
    <2> QED
      BY <1>4, <2>1, <2>2, <2>3, <2>4 DEF Call
  <1>5. CASE WriteLock(t)
    BY <1>3, <1>5 DEF WriteLock
  <1>6. CASE SeekLock(t)
    BY <1>3, <1>6 DEF SeekLock
  <1>7. CASE LockInterrupted(t)
    BY <1>2, <1>7 DEF LockInterrupted
  <1>8. CASE Return(t)
    BY <1>2, <1>8 DEF Return
  <1>9. CASE ReadStep(t)
    <2>1. CASE ReadFind(t)
      BY <1>2, <2>1 DEF ReadFind
    <2>2. CASE ReadSize(t)
      BY <1>2, <2>2 DEF ReadSize
    <2>3. CASE ReadBuffptr(t)
      BY <1>2, <2>3 DEF ReadBuffptr
    <2>4. CASE ReadCopy(t)
      BY <1>2, <2>4 DEF ReadCopy
    <2>5. CASE ReadFindOutside(t)
      BY <1>2, <2>5 DEF ReadFindOutside
    <2> QED
      BY <1>9, <2>1, <2>2, <2>3, <2>4, <2>5 DEF ReadStep
  <1>10. CASE WriteStep(t)
    <2>1. ~ WriteCopyFault(t) /\ ~ WriteAllocFault(t)
      BY DEF WriteCopyFault, WriteAllocFault
    <2>2. CASE WriteStore(t)
      BY <1>3, <2>2 DEF WriteStore
    <2>3. CASE AddBuffptr(t)
      BY <1>2, <2>3 DEF AddBuffptr
    <2>4. CASE AddRest(t)
      <3>1. PICK where \in Publishing \cup {"w_free"} :
              pc' = [pc EXCEPT ![t] = where] /\ UNCHANGED <<lock, frame>>
        BY <2>4, AddRestMoves
      <3> QED
        BY <1>3, <3>1
    <2>5. CASE WriteFree(t)
      BY <1>3, <2>5 DEF WriteFree
    <2>6. CASE WriteUnlock(t)
      BY <1>2, <2>6 DEF WriteUnlock
    <2> QED
      BY <1>10, <2>1, <2>2, <2>3, <2>4, <2>5, <2>6 DEF WriteStep, AddStep, AddRest
  <1>11. CASE SeekStep(t)
    <2>1. ~ SeekCopyFault(t) /\ ~ SeekAllocFault(t)
      BY DEF SeekCopyFault, SeekAllocFault
    <2>2. ~ SeekReject(t)
      BY BufferAssumption DEF SeekReject, SeeksInRange
    <2>3. CASE SeekCopy(t)
      BY <1>2, <2>3 DEF SeekCopy
    <2> QED
      BY <1>11, <2>1, <2>2, <2>3 DEF SeekStep
  <1> QED
    BY <1>4, <1>5, <1>6, <1>7, <1>8, <1>9, <1>10, <1>11 DEF Step

(* A lock that is held belongs to a call that will release it, whatever    *)
(* signals and copies to the user do: the only exits of the driver that    *)
(* keep the lock are a failed copy from the user, a failed allocation and  *)
(* a seek past the number of slots.                                        *)
THEOREM DriverNoReturnWithLock ==
  ASSUME Faults \cap {"alloc", "copy_from"} = {},
         \A seek \in SeekTo : seek[1] <= MAX_OPS
  PROVE  Spec => []NoReturnWithLock
  <1> DEFINE LockKept == Inv /\ NoReturnWithLock /\ SeeksInRange
  <1>1. Init => LockKept
    BY InitInv DEF Init, NoReturnWithLock, SeeksInRange, Idle
  <1>2. LockKept /\ [Next]_vars => LockKept'
    <2> SUFFICES ASSUME LockKept, [Next]_vars PROVE LockKept'
      OBVIOUS
    <2>1. Inv'
      BY NextInv
    <2>2. CASE UNCHANGED <<lock, pc, frame>>
      BY <2>1, <2>2 DEF NoReturnWithLock, SeeksInRange
    <2>3. CASE UNCHANGED vars
      BY <2>2, <2>3 DEF vars, dev
    <2>4. CASE aesd_init_module
      <3>1. NoReturnWithLock' /\ SeeksInRange'
        BY <2>4 DEF aesd_init_module, NoReturnWithLock, SeeksInRange
      <3> QED
        BY <2>1, <3>1
    <2>5. CASE aesd_cleanup_module \/ RegisterFault \/ SetupAllocFault
      BY <2>2, <2>5 DEF aesd_cleanup_module, RegisterFault, SetupAllocFault
    <2>6. ASSUME NEW t \in Thread, aesd_open(t) \/ aesd_release(t)
          PROVE  LockKept'
      BY <2>2, <2>6 DEF aesd_open, aesd_release, dev
    <2>7. ASSUME NEW t \in Thread,
                 \/ Call(t) \/ WriteLock(t) \/ SeekLock(t) \/ LockInterrupted(t) \/ Step(t)
          PROVE  LockKept'
      BY <2>1, <2>7, ThreadKeepsLock
    <2> QED
      BY <2>3, <2>4, <2>5, <2>6, <2>7 DEF Next
  <1>3. LockKept => NoReturnWithLock
    OBVIOUS
  <1> QED
    BY <1>1, <1>2, <1>3, PTL DEF Spec

-----------------------------------------------------------------------------
(***************************************************************************)
(* The character driver implements the device of AesdDevice, for any       *)
(* number of slots, threads and addresses and whatever fails, as long as   *)
(* its allocations succeed.                                                *)
(***************************************************************************)

(* The commands in a buffer, as a sequence of byte strings. *)

(* The bytes of entries s, in the heap h. *)
Bytes(h, s) == [k \in 1 .. Len(s) |-> h[s[k].buffptr]]

Heap == [Ptr -> Seq(Byte) \cup {Freed}]

(* The commands of a well-formed buffer have addresses. *)
LEMMA ContentsNew ==
  ASSUME NEW b, WellFormed(b)
  PROVE  /\ Contents(b) \in Seq(NewEntry)
         /\ Len(Contents(b)) = Count(b) /\ Count(b) \in Nat
         /\ \A k \in 1 .. Count(b) : \E i \in Slot :
              Contents(b)[k] = b.entry[i] /\ b.entry[i].buffptr # NULL
  <1>1. /\ Count(b) \in 0 .. MAX_OPS
        /\ \A k \in 1 .. Count(b) : ScanSlot(b, k - 1) \in Slot
        /\ Len(Contents(b)) = Count(b)
    BY ContentsSeq
  <1>2. b.entry \in [Slot -> Entry] /\ b.in_offs \in Slot /\ b.out_offs \in Slot
    BY DEF WellFormed, Buffer
  <1>3. ASSUME NEW k \in 1 .. Count(b)
        PROVE  /\ Contents(b)[k] = b.entry[ScanSlot(b, k - 1)]
               /\ b.entry[ScanSlot(b, k - 1)].buffptr # NULL
    <2>1. Contents(b)[k] = b.entry[ScanSlot(b, k - 1)]
      BY DEF Contents
    <2>2. b.full \/ ScanSlot(b, k - 1) < b.in_offs
      <3>1. CASE ~b.full
        <4>1. b.out_offs = 0 /\ Count(b) = b.in_offs
          BY <3>1 DEF WellFormed, Count
        <4> QED
          BY <1>2, <4>1, BufferAssumption DEF ScanSlot, Slot
      <3> QED
        BY <3>1
    <2> QED
      BY <1>1, <2>1, <2>2 DEF WellFormed
  <1>4. Contents(b) \in [1 .. Count(b) -> NewEntry]
    <2>1. \A k \in 1 .. Count(b) : b.entry[ScanSlot(b, k - 1)] \in NewEntry
      BY <1>1, <1>2, <1>3 DEF Entry, NewEntry
    <2> QED
      BY <2>1 DEF Contents
  <1>5. Contents(b) \in Seq(NewEntry)
    BY <1>1, <1>4
  <1> QED
    BY <1>1, <1>3, <1>5

(* The commands of a buffer are the bytes of its entries, in order. *)
LEMMA CommandsAreBytes ==
  ASSUME NEW b, WellFormed(b)
  PROVE  Commands(b) = Bytes(heap, Contents(b))
  BY ContentsNew DEF Commands, Bytes

(* Adding an entry adds its bytes. *)
LEMMA BytesKeepLast ==
  ASSUME NEW h \in Heap, NEW s \in Seq(NewEntry), NEW e \in NewEntry
  PROVE  Bytes(h, KeepLast(s, e)) = KeepLast(Bytes(h, s), h[e.buffptr])
  <1> DEFINE V == Seq(Byte) \cup {Freed}
             n == Len(s)
             v == Bytes(h, s)
             x == h[e.buffptr]
             a == Append(s, e)
             w == Append(v, x)
  <1>1. n \in Nat /\ \A k \in 1 .. n : s[k] \in NewEntry
    BY LenProperties, ElementOfSeq
  <1>2. \A r \in NewEntry : h[r.buffptr] \in V
    BY DEF Heap, NewEntry
  <1>3. v \in [1 .. n -> V] /\ \A k \in 1 .. n : v[k] = h[s[k].buffptr]
    BY <1>1, <1>2 DEF Bytes
  <1>4. v \in Seq(V) /\ Len(v) = n /\ x \in V
    BY <1>1, <1>2, <1>3
  <1>5. /\ a \in Seq(NewEntry) /\ Len(a) = n + 1 /\ a # << >>
        /\ \A k \in 1 .. n : a[k] = s[k]
        /\ a[n + 1] = e
    BY AppendProperties
  <1>6. /\ w \in Seq(V) /\ Len(w) = n + 1 /\ w # << >>
        /\ \A k \in 1 .. n : w[k] = v[k]
        /\ w[n + 1] = x
    BY <1>4, AppendProperties
  <1> HIDE DEF n, v, x, a, w
  <1>7. \A k \in 1 .. n + 1 : w[k] = h[a[k].buffptr]
    BY <1>1, <1>3, <1>5, <1>6 DEF x
  <1>8. CASE n < MAX_OPS
    <2>1. KeepLast(s, e) = a /\ KeepLast(v, x) = w
      BY <1>4, <1>8 DEF KeepLast, n, a, w
    <2>2. Bytes(h, a) = w
      <3>1. w = [k \in 1 .. n + 1 |-> w[k]]
        BY <1>6
      <3> QED
        BY <1>5, <1>7, <3>1 DEF Bytes
    <2> QED
      BY <2>1, <2>2 DEF v, x
  <1>9. CASE ~(n < MAX_OPS)
    <2>1. KeepLast(s, e) = Tail(a) /\ KeepLast(v, x) = Tail(w)
      BY <1>4, <1>9 DEF KeepLast, n, a, w
    <2>2. /\ Tail(a) \in Seq(NewEntry) /\ Len(Tail(a)) = n /\ \A k \in 1 .. n : Tail(a)[k] = a[k + 1]
      BY <1>1, <1>5, HeadTailProperties
    <2>3. /\ Tail(w) \in Seq(V) /\ Len(Tail(w)) = n /\ \A k \in 1 .. n : Tail(w)[k] = w[k + 1]
      BY <1>1, <1>6, HeadTailProperties
    <2>4. Bytes(h, Tail(a)) = Tail(w)
      <3>0. PICK u \in Seq(V) : u = Tail(w) /\ Len(u) = n
        BY <2>3
      <3>1. u = [k \in 1 .. Len(u) |-> u[k]]
        BY LenProperties
      <3>2. \A k \in 1 .. n : u[k] = h[Tail(a)[k].buffptr]
        BY <1>1, <1>7, <2>2, <2>3, <3>0
      <3>3. Bytes(h, Tail(a)) = u
        BY <2>2, <3>0, <3>1, <3>2 DEF Bytes
      <3> QED
        BY <3>0, <3>3
    <2> QED
      BY <2>1, <2>4 DEF v, x
  <1> QED
    BY <1>8, <1>9

(* The bytes of a buffer depend on its entries' blocks only. *)
LEMMA SameBytes ==
  ASSUME NEW b, WellFormed(b), NEW g, NEW h,
         \A i \in Slot : b.entry[i].buffptr # NULL => g[b.entry[i].buffptr] = h[b.entry[i].buffptr]
  PROVE  Bytes(g, Contents(b)) = Bytes(h, Contents(b))
  BY ContentsNew DEF Bytes


-----------------------------------------------------------------------------
(* The device's state, and the steps that leave it alone. *)

PendingMap == IF ~ Loaded \/ Committed \/ Phase = "w_free" THEN << >> ELSE PendingBytes
LogMap == IF ~ Loaded THEN << >> ELSE Commands(Settled)
Same == PendingMap' = PendingMap /\ LogMap' = LogMap

DeviceMap == <<opened, PendingMap, LogMap>>

(* Outside the part of aesd_write that hands the read_buf over. *)
LEMMA NotBusy ==
  ASSUME Phase \notin Busy
  PROVE  /\ LogMap = IF ~Loaded THEN << >> ELSE Commands(circ_buf)
         /\ PendingMap = IF ~Loaded THEN << >> ELSE PendingBytes
  BY DEF Busy, Publishing, LogMap, PendingMap, Settled, Committed

(* Where nobody is between the store and the unlock, the device is what the *)
(* structs say.                                                             *)
LEMMA NotBusyNext ==
  ASSUME Phase' \notin Busy
  PROVE  /\ LogMap' = IF ~Loaded' THEN << >> ELSE Commands(circ_buf)'
         /\ PendingMap' = IF ~Loaded' THEN << >> ELSE PendingBytes'
  BY DEF Busy, Publishing, LogMap, PendingMap, Settled, Committed

(* A step that leaves the structs and the lock holder's place alone leaves  *)
(* the device alone.                                                        *)
LEMMA SameDevice ==
  ASSUME UNCHANGED <<module, read_buf, circ_buf, heap>>,
         Phase' = Phase \/ (Phase \notin Busy /\ Phase' \notin Busy)
  PROVE  Same
  <1>1. PendingBytes' = PendingBytes /\ (Loaded' <=> Loaded)
    BY DEF PendingBytes, Pending, Loaded
  <1>2. CASE Phase' = Phase
    <2>1. Settled' = Settled /\ (Committed' <=> Committed)
      BY <1>2 DEF Settled, Committed
    <2>2. Commands(Settled)' = Commands(Settled)
      BY <2>1 DEF Commands, Contents, ScanSlot, Count
    <2> QED
      BY <1>1, <1>2, <2>1, <2>2 DEF Same, PendingMap, LogMap
  <1>3. CASE Phase \notin Busy /\ Phase' \notin Busy
    <2>1. Commands(circ_buf)' = Commands(circ_buf)
      BY DEF Commands, Contents, ScanSlot, Count
    <2> QED
      BY <1>1, <1>3, <2>1, NotBusy, NotBusyNext DEF Same
  <1> QED
    BY <1>2, <1>3

(* A step of a thread beside the lock holder leaves the device alone. *)
LEMMA AsideSame ==
  ASSUME Inv, NEW t \in Thread, Aside(t)
  PROVE  Same
  <1>1. lock \in Thread \cup {NoThread} /\ NoThread \notin Thread
    BY DriverAssumption DEF Inv, SharedTypeOK
  <1>2. Phase' = Phase \/ (Phase \notin Busy /\ Phase' \notin Busy)
    <2>1. CASE lock' = lock /\ lock \in Thread \ {t}
      BY <1>1, <2>1 DEF Phase, Aside
    <2>2. CASE lock \in {t, NoThread} /\ lock' \in {t, NoThread}
      BY <1>1, <2>2 DEF Phase, Aside, Busy, Publishing
    <2> QED
      BY <1>1, <2>1, <2>2 DEF Aside
  <1> QED
    BY <1>2, SameDevice DEF Aside

(* The device when the lock holder is inside add_entry. *)
LEMMA SameSettled ==
  ASSUME Inv, NEW t \in Thread, pc[t] \in Critical,
         Phase \in {"add_buffptr"} \cup Publishing, Phase' \in HandingOver,
         UNCHANGED <<module, heap>>, Settled' = Settled
  PROVE  Same
  <1>1. Loaded /\ Loaded'
    BY Holder DEF Loaded
  <1>2. Commands(Settled)' = Commands(Settled)
    BY DEF Commands, Contents, Count, ScanSlot
  <1> QED
    BY <1>1, <1>2 DEF Same, PendingMap, LogMap, Committed, HandingOver

(* The assignments of add_entry: the command is in the log from the first  *)
(* on.                                                                     *)
LEMMA AddSame ==
  ASSUME Inv, NEW t \in Thread, AddStep(t)
  PROVE  Same
  <1>1. /\ pc[t] \in {"add_buffptr"} \cup Publishing /\ pc[t] \in Critical
        /\ UNCHANGED <<module, lock, read_buf, heap>>
    BY AddRestMoves DEF AddStep, AddRest, AddBuffptr, Critical
  <1>2. lock = t /\ Phase = pc[t]
    BY <1>1, Holder
  <1>3. pc \in [Thread -> Location]
    BY DEF Inv, SharedTypeOK
  <1>4. Phase' = pc'[t]
    BY <1>1, <1>2, DriverAssumption DEF Phase
  <1>5. ASSUME Phase' \in HandingOver, Settled' = Settled PROVE Same
    BY <1>1, <1>2, <1>5, SameSettled
  <1> USE DEF HandingOver, Publishing
  <1>6. CASE AddBuffptr(t)
    <2>1. Phase = "add_buffptr" /\ Phase' = "add_size" /\ circ_buf' = StoreBuffptr(circ_buf, read_buf.buffptr)
      BY <1>2, <1>3, <1>4, <1>6 DEF AddBuffptr, Goto
    <2> QED
      BY <1>1, <1>5, <2>1 DEF Settled, aesd_circular_buffer_add_entry
  <1>7. CASE AddSize(t)
    <2>1. Phase = "add_size" /\ Phase' = "add_out" /\ circ_buf' = StoreSize(circ_buf, read_buf.size)
      BY <1>2, <1>3, <1>4, <1>7 DEF AddSize
    <2> QED
      BY <1>1, <1>5, <2>1 DEF Settled
  <1>8. CASE AddOut(t)
    <2>1. CASE Overwrites(circ_buf) /\ OutAtEnd(circ_buf)
      <3>1. Phase = "add_out" /\ Phase' = "wrap_out" /\ circ_buf' = IncrementOut(circ_buf)
        BY <1>2, <1>3, <1>4, <1>8, <2>1 DEF AddOut
      <3>2. AdvanceOut(circ_buf) = WrapOut(IncrementOut(circ_buf))
        BY <2>1 DEF AdvanceOut
      <3> QED
        BY <1>5, <3>1, <3>2 DEF Settled
    <2>2. CASE ~ (Overwrites(circ_buf) /\ OutAtEnd(circ_buf))
      <3>1. Phase = "add_out" /\ Phase' = "add_in" /\ circ_buf' = AdvanceOut(circ_buf)
        BY <1>2, <1>3, <1>4, <1>8, <2>2 DEF AddOut, AdvanceOut
      <3> QED
        BY <1>5, <3>1 DEF Settled
    <2> QED
      BY <2>1, <2>2
  <1>9. CASE AddWrapOut(t)
    <2>1. Phase = "wrap_out" /\ Phase' = "add_in" /\ circ_buf' = WrapOut(circ_buf)
      BY <1>2, <1>3, <1>4, <1>9 DEF AddWrapOut
    <2> QED
      BY <1>5, <2>1 DEF Settled
  <1>10. CASE AddIn(t)
    <2>1. CASE InAtEnd(circ_buf)
      <3>1. Phase = "add_in" /\ Phase' = "wrap_in" /\ circ_buf' = IncrementIn(circ_buf)
        BY <1>2, <1>3, <1>4, <1>10, <2>1 DEF AddIn
      <3> QED
        BY <1>5, <2>1, <3>1 DEF Settled, AdvanceIn
    <2>2. CASE ~ InAtEnd(circ_buf)
      <3>1. Phase = "add_in" /\ Phase' = "w_free" /\ circ_buf' = IncrementIn(circ_buf)
        BY <1>2, <1>3, <1>4, <1>10, <2>2 DEF AddIn
      <3> QED
        BY <1>5, <2>2, <3>1 DEF Settled, AdvanceIn
    <2> QED
      BY <2>1, <2>2
  <1>11. CASE AddWrapIn(t)
    <2>1. Phase = "wrap_in" /\ Phase' = "set_full" /\ circ_buf' = WrapIn(circ_buf)
      BY <1>2, <1>3, <1>4, <1>11 DEF AddWrapIn
    <2> QED
      BY <1>5, <2>1 DEF Settled
  <1>12. CASE AddSetFull(t)
    <2>1. Phase = "set_full" /\ Phase' = "w_free" /\ circ_buf' = SetFull(circ_buf)
      BY <1>2, <1>3, <1>4, <1>12 DEF AddSetFull
    <2> QED
      BY <1>5, <2>1 DEF Settled
  <1> QED
    BY <1>6, <1>7, <1>8, <1>9, <1>10, <1>11, <1>12 DEF AddStep

(* Freeing what was displaced. *)
LEMMA FreeSame ==
  ASSUME Inv, NEW t \in Thread, WriteFree(t)
  PROVE  Same
  <1>1. pc[t] = "w_free" /\ pc[t] \in Critical /\ UNCHANGED <<module, lock, circ_buf>> /\ read_buf' = NULL
    BY DEF WriteFree, Critical
  <1>2. lock = t /\ Phase = "w_free" /\ Loaded /\ Loaded'
    BY <1>1, Holder DEF Loaded
  <1>3. Phase' = "w_unlock"
    <2>1. pc \in [Thread -> Location]
      BY DEF Inv, SharedTypeOK
    <2> QED
      BY <1>1, <1>2, <2>1, DriverAssumption DEF Phase, WriteFree
  <1>4. /\ Sound(circ_buf) /\ WellFormed(circ_buf)
        /\ frame[t].to_free # NULL => Foreign(circ_buf, frame[t].to_free)
    BY <1>2 DEF Inv, Memory, Displaced, Sound
  <1>5. ASSUME NEW i \in Slot, circ_buf.entry[i].buffptr # NULL
        PROVE  heap'[circ_buf.entry[i].buffptr] = heap[circ_buf.entry[i].buffptr]
    <2>1. circ_buf.entry[i].buffptr \in Ptr
      BY <1>5 DEF Inv, SharedTypeOK, OpenBuffer, Entry
    <2>2. circ_buf.entry[i].buffptr # frame[t].to_free
      BY <1>4, <1>5 DEF Foreign
    <2> QED
      BY <2>1, <2>2 DEF WriteFree
  <1>6. Bytes(heap', Contents(circ_buf)) = Bytes(heap, Contents(circ_buf))
    BY <1>4, <1>5, SameBytes
  <1>7. Commands(circ_buf)' = Commands(circ_buf)
    BY <1>1, <1>4, <1>6, ContentsNew DEF Commands, Bytes
  <1>8. PendingBytes' = << >>
    BY <1>1 DEF PendingBytes, Pending, EmptyEntry
  <1>9. LogMap' = Commands(circ_buf)' /\ PendingMap' = PendingBytes'
    BY <1>2, <1>3, NotBusyNext DEF Busy, Publishing
  <1>10. LogMap = Commands(circ_buf) /\ PendingMap = << >>
    BY <1>2 DEF LogMap, PendingMap, Settled
  <1> QED
    BY <1>7, <1>8, <1>9, <1>10 DEF Same

(* The step at which a write takes effect, and the copy that fails. *)
LEMMA StoreWrites ==
  ASSUME Inv, NEW t \in Thread, WriteStore(t)
  PROVE  /\ frame[t].chunk \in Seq(Byte) /\ pc[t] = "w_store"
         /\ Terminated(frame[t].chunk) =>
              PendingMap' = << >> /\ LogMap' = KeepLast(LogMap, PendingMap \o frame[t].chunk)
         /\ ~Terminated(frame[t].chunk) =>
              PendingMap' = PendingMap \o frame[t].chunk /\ UNCHANGED LogMap
  <1> DEFINE chunk == frame[t].chunk
             bytes == PendingBytes \o chunk
  <1>1. pc[t] = "w_store" /\ pc[t] \in Critical /\ UNCHANGED <<module, lock, circ_buf>>
    BY DEF WriteStore, Critical
  <1>2. lock = t /\ Phase = "w_store" /\ Loaded /\ Loaded'
    BY <1>1, Holder DEF Loaded
  <1>3. Sound(circ_buf) /\ PendingSound(circ_buf) /\ WellFormed(circ_buf)
    BY <1>2 DEF Inv, Memory, Publishing, Sound
  <1>4. PendingBytes \in Seq(Byte) /\ Len(PendingBytes) = Pending.size /\ Pending \in Entry
    BY <1>3, PendingFacts
  <1>5. chunk \in Seq(Byte)
    BY <1>1 DEF Inv, Control, WriteLocation, WriteFrame
  <1>6. bytes \in Seq(Byte) /\ Len(bytes) = Pending.size + Len(chunk)
    BY <1>4, <1>5
  <1>7. PICK p \in NewBlock : /\ heap' = Reallocated(p, bytes)
                              /\ read_buf' = [buffptr |-> p, size |-> Pending.size + Len(chunk)]
    BY DEF WriteStore
  <1>8. Phase' = IF Terminated(chunk) THEN "add_buffptr" ELSE "w_unlock"
    <2>1. pc \in [Thread -> Location]
      BY DEF Inv, SharedTypeOK
    <2> QED
      BY <1>1, <1>2, <2>1, DriverAssumption DEF Phase, WriteStore
  <1> HIDE DEF bytes, chunk
  <1>9. /\ heap' \in Heap /\ read_buf' \in NewEntry /\ PendingBytes' = bytes
        /\ \A i \in Slot : circ_buf.entry[i].buffptr # NULL
             => heap'[circ_buf.entry[i].buffptr] = heap[circ_buf.entry[i].buffptr]
    BY <1>1, <1>3, <1>6, <1>7, Regrown DEF Heap
  <1>10. Bytes(heap', Contents(circ_buf)) = Bytes(heap, Contents(circ_buf))
    BY <1>3, <1>9, SameBytes
  <1>11. LogMap = Bytes(heap, Contents(circ_buf)) /\ PendingMap = PendingBytes
    BY <1>2, <1>3, NotBusy, CommandsAreBytes DEF Busy, Publishing
  <1>12. CASE Terminated(chunk)
    <2> DEFINE e == read_buf'
               a == aesd_circular_buffer_add_entry(circ_buf, e)
    <2>1. Phase' = "add_buffptr"
      BY <1>8, <1>12
    <2>2. PendingMap' = << >>
      BY <2>1 DEF PendingMap, Committed
    <2>3. Settled' = a
      BY <1>1, <2>1 DEF Settled
    <2>4. WellFormed(a) /\ Contents(a) = KeepLast(Contents(circ_buf), e)
      BY <1>3, <1>9, AddEntryWellFormed, AddEntryKeeps
    <2>5. LogMap' = Bytes(heap', Contents(a))
      <3>1. LogMap' = [k \in 1 .. Count(Settled') |-> heap'[Contents(Settled')[k].buffptr]]
        BY <1>2 DEF LogMap, Commands, Contents, Count, ScanSlot
      <3> HIDE DEF a
      <3>2. LogMap' = [k \in 1 .. Count(a) |-> heap'[Contents(a)[k].buffptr]]
        BY <2>3, <3>1
      <3> QED
        BY <2>4, <3>2, ContentsNew DEF Bytes
    <2> HIDE DEF a
    <2>6. LogMap' = KeepLast(Bytes(heap', Contents(circ_buf)), heap'[e.buffptr])
      BY <1>3, <1>9, <2>4, <2>5, ContentsNew, BytesKeepLast
    <2>7. heap'[e.buffptr] = bytes
      <3>1. e.buffptr = p
        BY <1>7
      <3>2. p \in Ptr
        BY <1>9, <3>1 DEF NewEntry
      <3> QED
        BY <1>7, <3>1, <3>2 DEF Reallocated
    <2> QED
      BY <1>1, <1>5, <1>10, <1>11, <1>12, <2>2, <2>6, <2>7 DEF bytes, chunk
  <1>13. CASE ~Terminated(chunk)
    <2>1. Phase' = "w_unlock"
      BY <1>8, <1>13
    <2>2. LogMap' = Commands(circ_buf)' /\ PendingMap' = PendingBytes'
      BY <1>2, <2>1, NotBusyNext DEF Busy, Publishing
    <2>3. Commands(circ_buf)' = Bytes(heap', Contents(circ_buf))
      BY <1>1, <1>3, ContentsNew DEF Commands, Bytes
    <2> QED
      BY <1>1, <1>5, <1>9, <1>10, <1>11, <1>13, <2>2, <2>3 DEF bytes, chunk
  <1> QED
    BY <1>12, <1>13

(* A failed copy_from_user in aesd_write may move the assembled command and *)
(* keeps its bytes.                                                         *)
LEMMA CopyFaultSame ==
  ASSUME Inv, NEW t \in Thread, WriteCopyFault(t)
  PROVE  Same
  <1>1. pc[t] = "w_store" /\ pc[t] \in Critical /\ UNCHANGED <<module, lock, circ_buf>>
    BY DEF WriteCopyFault, Critical
  <1>2. lock = t /\ Phase = "w_store" /\ Loaded /\ Loaded'
    BY <1>1, Holder DEF Loaded
  <1>3. Sound(circ_buf) /\ PendingSound(circ_buf) /\ WellFormed(circ_buf)
    BY <1>2 DEF Inv, Memory, Publishing, Sound
  <1>4. PendingBytes \in Seq(Byte) /\ Len(PendingBytes) = Pending.size
    BY <1>3, PendingFacts
  <1>5. PICK p \in NewBlock : /\ heap' = Reallocated(p, PendingBytes)
                              /\ read_buf' = [buffptr |-> p, size |-> Pending.size]
    BY DEF WriteCopyFault
  <1>6. Phase' = "ret"
    <2>1. pc \in [Thread -> Location]
      BY DEF Inv, SharedTypeOK
    <2> QED
      BY <1>1, <1>2, <2>1, DriverAssumption DEF Phase, WriteCopyFault, Goto
  <1>7. /\ PendingBytes' = PendingBytes
        /\ \A i \in Slot : circ_buf.entry[i].buffptr # NULL
             => heap'[circ_buf.entry[i].buffptr] = heap[circ_buf.entry[i].buffptr]
    BY <1>1, <1>3, <1>4, <1>5, Regrown
  <1>8. Bytes(heap', Contents(circ_buf)) = Bytes(heap, Contents(circ_buf))
    BY <1>3, <1>7, SameBytes
  <1>9. Commands(circ_buf)' = Commands(circ_buf)
    BY <1>1, <1>3, <1>8, ContentsNew DEF Commands, Bytes
  <1> QED
    BY <1>2, <1>6, <1>7, <1>9, NotBusy, NotBusyNext DEF Same, Busy, Publishing


-----------------------------------------------------------------------------
(* What a writer stores is what it was called with. *)

Chunks == \A t \in Thread : pc[t] \in {"w_lock", "w_store"} => frame[t].chunk \in Chunk

(* What a thread is about to write stays one of the inputs. *)
LEMMA ChunksStep ==
  ASSUME Inv, Chunks, [Next]_vars
  PROVE  Chunks'
  <1>0. pc \in [Thread -> Location] /\ DOMAIN frame = Thread
    BY DEF Inv, SharedTypeOK, Control
  <1>1. ASSUME NEW t \in Thread, NEW where, NEW locals, Goto(t, where, locals), where \notin {"w_lock", "w_store"}
        PROVE  Chunks'
    <2>1. \A u \in Thread : /\ pc'[u] = IF u = t THEN where ELSE pc[u]
                            /\ u # t => frame'[u] = frame[u]
      BY <1>0, <1>1 DEF Goto
    <2> QED
      BY <1>1, <2>1 DEF Chunks
  <1>2. ASSUME NEW t \in Thread, NEW where, pc' = [pc EXCEPT ![t] = where], UNCHANGED frame,
               where \in {"w_lock", "w_store"} => pc[t] \in {"w_lock", "w_store"}
        PROVE  Chunks'
    <2>1. \A u \in Thread : pc'[u] = IF u = t THEN where ELSE pc[u]
      BY <1>0, <1>2
    <2> QED
      BY <1>2, <2>1 DEF Chunks
  <1>3. CASE UNCHANGED <<pc, frame>>
    BY <1>3 DEF Chunks
  <1>4. ASSUME NEW t \in Thread, Call(t) PROVE Chunks'
    <2>1. ASSUME NEW chunk \in Chunk, WriteCall(t, chunk) PROVE Chunks'
      <3> DEFINE locals == [chunk |-> chunk, to_free |-> NULL]
      <3>1. Goto(t, "w_lock", locals) /\ locals.chunk = chunk
        BY <2>1 DEF WriteCall, Begin
      <3> HIDE DEF locals
      <3>2. \A u \in Thread : /\ pc'[u] = IF u = t THEN "w_lock" ELSE pc[u]
                              /\ frame'[u] = IF u = t THEN locals ELSE frame[u]
        BY <1>0, <3>1 DEF Goto
      <3> QED
        BY <3>1, <3>2 DEF Chunks
    <2>2. ASSUME NEW count \in Counts, ReadTotal(t, count) PROVE Chunks'
      <3>1. PICK where, locals : where \in {"ret", "r_find"} /\ Goto(t, where, locals)
        BY <2>2 DEF ReadTotal, Begin
      <3> QED
        BY <1>1, <3>1
    <2>3. ASSUME NEW seek \in SeekTo, SeekCall(t, seek) PROVE Chunks'
      BY <1>1, <2>3 DEF SeekCall, Begin
    <2>4. ASSUME NEW off \in Offsets, NEW whence \in {SEEK_SET, SEEK_CUR, SEEK_END}, aesd_llseek(t, off, whence)
          PROVE  Chunks'
      BY <1>3, <2>4 DEF aesd_llseek
    <2> QED
      BY <1>4, <2>1, <2>2, <2>3, <2>4 DEF Call
  <1>5. ASSUME NEW t \in Thread, WriteLock(t) \/ SeekLock(t) \/ LockInterrupted(t) \/ Return(t) PROVE Chunks'
    <2>1. CASE WriteLock(t)
      BY <1>2, <2>1 DEF WriteLock
    <2>2. CASE SeekLock(t)
      BY <1>2, <2>2 DEF SeekLock
    <2>3. CASE LockInterrupted(t) \/ Return(t)
      BY <1>1, <2>3 DEF LockInterrupted, Return, Idle
    <2> QED
      BY <1>5, <2>1, <2>2, <2>3
  <1>6. ASSUME NEW t \in Thread, ReadStep(t) PROVE Chunks'
    <2>1. CASE ReadFind(t)
      <3>1. PICK where, locals : where \in {"ret", "r_size"} /\ Goto(t, where, locals)
        BY <2>1 DEF ReadFind
      <3> QED
        BY <1>1, <3>1
    <2>2. CASE ReadSize(t) \/ ReadBuffptr(t) \/ ReadCopy(t)
      BY <1>1, <2>2 DEF ReadSize, ReadBuffptr, ReadCopy
    <2>3. CASE ReadFindOutside(t)
      <3>1. PICK where, locals : where \in {"ret", "dead"} /\ Goto(t, where, locals)
        BY <2>3 DEF ReadFindOutside
      <3> QED
        BY <1>1, <3>1
    <2> QED
      BY <1>6, <2>1, <2>2, <2>3 DEF ReadStep
  <1>7. ASSUME NEW t \in Thread, SeekStep(t) PROVE Chunks'
    <2>1. PICK where, locals : where \in {"ret", "dead"} /\ Goto(t, where, locals)
      BY <1>7 DEF SeekStep, SeekReject, SeekCopy, SeekCopyFault, SeekAllocFault
    <2> QED
      BY <1>1, <2>1
  <1>8. ASSUME NEW t \in Thread, WriteStep(t) PROVE Chunks'
    <2>1. CASE WriteStore(t)
      <3>1. PICK where : where \in {"add_buffptr", "w_unlock"} /\ pc' = [pc EXCEPT ![t] = where] /\ UNCHANGED frame
        BY <2>1 DEF WriteStore
      <3> QED
        BY <1>2, <3>1
    <2>2. CASE WriteCopyFault(t) \/ WriteAllocFault(t) \/ WriteUnlock(t) \/ AddBuffptr(t)
      <3>1. PICK where, locals : where \in {"ret", "dead", "add_size"} /\ Goto(t, where, locals)
        BY <2>2 DEF WriteCopyFault, WriteAllocFault, WriteUnlock, AddBuffptr
      <3> QED
        BY <1>1, <3>1
    <2>3. CASE AddRest(t) \/ WriteFree(t)
      <3>1. PICK where \in Publishing \cup {"w_free", "w_unlock"} :
              pc' = [pc EXCEPT ![t] = where] /\ UNCHANGED frame
        BY <2>3, AddRestMoves DEF WriteFree
      <3>2. where \notin {"w_lock", "w_store"}
        BY DEF Publishing
      <3> QED
        BY <1>2, <3>1, <3>2
    <2> QED
      BY <1>8, <2>1, <2>2, <2>3 DEF WriteStep, AddStep, AddRest
  <1>9. CASE \/ aesd_init_module \/ RegisterFault \/ SetupAllocFault \/ aesd_cleanup_module
             \/ \E t \in Thread : aesd_open(t) \/ aesd_release(t)
    BY <1>3, <1>9
    DEF aesd_init_module, RegisterFault, SetupAllocFault, aesd_cleanup_module,
        aesd_open, aesd_release
  <1>10. CASE UNCHANGED vars
    BY <1>3, <1>10 DEF vars
  <1> QED
    BY <1>4, <1>5, <1>6, <1>7, <1>8, <1>9, <1>10 DEF Next, Step

-----------------------------------------------------------------------------
(* Refinement. *)

(* Every step of the driver is one of the device, or changes nothing of it. *)
LEMMA DeviceStep ==
  ASSUME "alloc" \notin Faults, Inv, Chunks, [Next]_vars
  PROVE  [Device!Next]_DeviceMap
  <1>0. ASSUME Same, UNCHANGED opened PROVE [Device!Next]_DeviceMap
    BY <1>0 DEF Same, DeviceMap
  <1>1. ASSUME UNCHANGED <<module, read_buf, circ_buf, heap, lock, pc>> PROVE Same
    BY <1>1, SameDevice DEF Phase
  <1>2. CASE aesd_init_module
    <2>1. ~Loaded /\ Loaded' /\ lock' = NoThread /\ read_buf' = EmptyEntry /\ circ_buf' = aesd_circular_buffer_init
      BY <1>2 DEF aesd_init_module, Loaded
    <2>2. Phase' = "free"
      BY <2>1 DEF Phase
    <2>3. LogMap' = Commands(circ_buf)' /\ PendingMap' = PendingBytes'
      BY <2>1, <2>2, NotBusyNext DEF Busy, Publishing
    <2>4. Count(circ_buf)' = 0
      BY <2>1 DEF Count, aesd_circular_buffer_init
    <2>5. Commands(circ_buf)' = << >>
      BY <2>4 DEF Commands
    <2>6. PendingBytes' = << >>
      BY <2>1 DEF PendingBytes, Pending, EmptyEntry
    <2>7. LogMap = << >> /\ PendingMap = << >>
      BY <2>1 DEF LogMap, PendingMap
    <2> QED
      BY <1>0, <1>2, <2>3, <2>5, <2>6, <2>7 DEF Same, aesd_init_module
  <1>3. CASE aesd_cleanup_module
    <2>1. ~Loaded' /\ opened = {} /\ UNCHANGED opened
      BY <1>3 DEF aesd_cleanup_module, Loaded
    <2>2. LogMap' = << >> /\ PendingMap' = << >>
      BY <2>1 DEF LogMap, PendingMap
    <2> QED
      BY <2>1, <2>2 DEF LogMap, PendingMap, Device!Next, Device!Remove
  <1>4. ASSUME NEW t \in Thread, Aside(t) PROVE [Device!Next]_DeviceMap
    BY <1>0, <1>4, AsideSame DEF Aside
  <1>5. ASSUME NEW t \in Thread, WriteStore(t) PROVE Device!Next
    <2> DEFINE chunk == frame[t].chunk
    <2>1. /\ chunk \in Seq(Byte) /\ pc[t] = "w_store"
          /\ Terminated(chunk) => PendingMap' = << >> /\ LogMap' = KeepLast(LogMap, PendingMap \o chunk)
          /\ ~Terminated(chunk) => PendingMap' = PendingMap \o chunk /\ UNCHANGED LogMap
      BY <1>5, StoreWrites
    <2>2. chunk \in Chunk /\ t \in opened /\ UNCHANGED opened
      BY <1>5, <2>1, InsideOpened DEF Chunks, WriteStore, Idle
    <2> HIDE DEF chunk
    <2>3. Device!Write(t, chunk)
      BY <2>1, <2>2 DEF Device!Write, Device!Take, Device!Kept, KeepLast, Terminated, PendingMap, LogMap
    <2> QED
      BY <2>2, <2>3 DEF Device!Next
  <1>6. ASSUME NEW t \in Thread,
               \/ aesd_open(t) \/ aesd_release(t)
               \/ Call(t) \/ WriteLock(t) \/ SeekLock(t) \/ LockInterrupted(t) \/ Step(t)
        PROVE  [Device!Next]_DeviceMap
    <2>1. CASE aesd_open(t) \/ aesd_release(t)
      <3>1. Same
        BY <1>1, <2>1 DEF aesd_open, aesd_release, dev
      <3>2. Device!Open(t) \/ Device!Close(t)
        BY <2>1, <3>1
        DEF aesd_open, aesd_release, Device!Open, Device!Close, Same, PendingMap, LogMap
      <3> QED
        BY <3>2 DEF Device!Next
    <2>2. CASE Call(t)
      <3>1. CASE \E off \in Offsets, whence \in {SEEK_SET, SEEK_CUR, SEEK_END} :
                   aesd_llseek(t, off, whence)
        BY <1>0, <1>1, <3>1 DEF aesd_llseek, dev
      <3>2. CASE \/ \E count \in Counts : ReadTotal(t, count)
                 \/ \E chunk \in Chunk : WriteCall(t, chunk)
                 \/ \E seek \in SeekTo : SeekCall(t, seek)
        BY <1>4, <3>2, AsideSteps
      <3> QED
        BY <2>2, <3>1, <3>2 DEF Call
    <2>3. CASE WriteLock(t) \/ SeekLock(t) \/ LockInterrupted(t) \/ Return(t) \/ WriteUnlock(t)
      BY <1>4, <2>3, AsideSteps
    <2>4. CASE ReadStep(t) \/ SeekStep(t)
      BY <1>4, <2>4, AsideSteps
    <2>5. CASE WriteCopyFault(t) \/ AddStep(t) \/ WriteFree(t)
      <3>1. Same
        BY <2>5, CopyFaultSame, AddSame, FreeSame
      <3>2. UNCHANGED opened
        BY <2>5, AddRestMoves DEF WriteCopyFault, WriteFree, AddStep, AddRest, AddBuffptr
      <3> QED
        BY <1>0, <3>1, <3>2
    <2>6. ~WriteAllocFault(t)
      BY DEF WriteAllocFault
    <2> QED
      BY <1>5, <1>6, <2>1, <2>2, <2>3, <2>4, <2>5, <2>6 DEF Step, WriteStep
  <1>7. CASE UNCHANGED vars
    BY <1>0, <1>1, <1>7 DEF vars, dev
  <1>8. CASE RegisterFault
    BY <1>0, <1>1, <1>8 DEF RegisterFault
  <1>9. ~ SetupAllocFault
    BY DEF SetupAllocFault
  <1> QED
    BY <1>2, <1>3, <1>6, <1>7, <1>8, <1>9 DEF Next

(* The driver implements the device: whatever the writers' interleaving    *)
(* and whichever copies and lock waits fail, a write takes effect whole    *)
(* and at once, and the log holds the last MAX_OPS commands in order, for  *)
(* any number of slots, threads and addresses.                             *)
THEOREM DriverRefinesDevice ==
  ASSUME "alloc" \notin Faults
  PROVE  Spec => RefinesDevice
  <1>1. Init => Inv /\ Chunks
    <2>1. Init => Chunks
      BY DEF Init, Chunks, Idle
    <2> QED
      BY <2>1, InitInv
  <1>2. (Inv /\ Chunks) /\ [Next]_vars => (Inv /\ Chunks)'
    BY NextInv, ChunksStep
  <1>3. Init => Device!Init
    BY DEF Init, Device!Init, Loaded
  <1>4. (Inv /\ Chunks) /\ [Next]_vars => [Device!Next]_(Device!vars)
    BY DeviceStep DEF Device!vars, DeviceMap, PendingMap, LogMap
  <1> QED
    BY <1>1, <1>2, <1>3, <1>4, PTL DEF Spec, RefinesDevice, Device!Spec

-----------------------------------------------------------------------------
(* Conversions. *)

(* Conversion to size_t stays in its range and keeps what is in it. *)
LEMMA Unsigned ==
  ASSUME NEW x \in Int
  PROVE  /\ ToUnsigned(x) \in 0 .. SizeMod - 1
         /\ x \in 0 .. SizeMod - 1 => ToUnsigned(x) = x
  BY DriverAssumption DEF ToUnsigned

(* Conversion to loff_t is an integer and keeps what is below half the      *)
(* range.                                                                   *)
LEMMA Signed ==
  ASSUME NEW x \in Int
  PROVE  /\ ToSigned(x) \in Int
         /\ 0 <= x /\ 2 * x < SizeMod => ToSigned(x) = x
  <1>1. x % SizeMod \in 0 .. SizeMod - 1 /\ (x \in 0 .. SizeMod - 1 => x % SizeMod = x)
    BY DriverAssumption
  <1> DEFINE y == x % SizeMod
  <1>2. ToSigned(x) = IF 2 * y >= SizeMod THEN y - SizeMod ELSE y
    BY DEF ToSigned
  <1> HIDE DEF y
  <1> QED
    BY <1>1, <1>2, DriverAssumption DEF y

-----------------------------------------------------------------------------
(* Types. *)

(* The locals of a call that is at a given place, and its file position. *)
LocalsOf(where, locals, pos) ==
  /\ where \in Reading => locals \in ReadFrame /\ pos \in Nat
  /\ where \in Reading \ {"r_find"} => locals.slot \in Slot /\ locals.byte \in Nat
  /\ where \in {"s_lock", "s_copy"} => locals \in SeekFrame
  /\ where = "ret" => locals \in Reply
  /\ where \in {Idle, "dead"} => locals = NoFrame

Locals ==
  /\ f_pos \in [Thread -> Int]
  /\ overlap \subseteq Thread
  /\ frame = [t \in Thread |-> frame[t]]
  /\ \A t \in Thread : LocalsOf(pc[t], frame[t], f_pos[t])

(* The two invariants and lost's type are the driver's type correctness. *)
LEMMA LocalsTypeOK ==
  ASSUME Inv, Locals, lost \subseteq Struct
  PROVE  TypeOK
  <1>1. ASSUME NEW t \in Thread
        PROVE  frame[t] \in WriteFrame \cup ReadFrame \cup SeekFrame \cup Reply \cup {NoFrame}
    <2>1. pc[t] \in Location /\ LocalsOf(pc[t], frame[t], f_pos[t])
      BY DEF Locals, Inv, SharedTypeOK
    <2>2. pc[t] \in WriteLocation => frame[t] \in WriteFrame
      BY DEF Inv, Control
    <2> QED
      BY <2>1, <2>2 DEF LocalsOf, Location, Critical, WriteLocation, Publishing, Reading
  <1>2. frame \in [Thread -> WriteFrame \cup ReadFrame \cup SeekFrame \cup Reply \cup {NoFrame}]
    BY <1>1 DEF Locals
  <1> QED
    BY <1>2 DEF TypeOK, Locals, Inv


-----------------------------------------------------------------------------
(* The bytes of the device, slot by slot in the order of reading. *)

Block(h, b, k) ==
  IF b.entry[ScanSlot(b, k - 1)].buffptr = NULL THEN << >>
  ELSE h[b.entry[ScanSlot(b, k - 1)].buffptr]

Blocks(h, b) == [k \in 1 .. MAX_OPS |-> Block(h, b, k)]

(* The blocks depend on the entries' memory only. *)
LEMMA SameBlocks ==
  ASSUME NEW b \in Buffer, NEW g, NEW h,
         \A i \in Slot : b.entry[i].buffptr # NULL => g[b.entry[i].buffptr] = h[b.entry[i].buffptr]
  PROVE  Blocks(g, b) = Blocks(h, b)
  <1>1. \A k \in 1 .. MAX_OPS : ScanSlot(b, k - 1) \in Slot
    BY SearchedIsSum
  <1>2. \A k \in 1 .. MAX_OPS : Block(g, b, k) = Block(h, b, k)
    BY <1>1 DEF Block
  <1> QED
    BY <1>2 DEF Blocks

(* In a sound buffer each block is as long as its entry says. *)
LEMMA BlocksSound ==
  ASSUME Sound(circ_buf), NEW k \in 1 .. MAX_OPS
  PROVE  LET e == circ_buf.entry[ScanSlot(circ_buf, k - 1)]
             s == Blocks(heap, circ_buf)[k]
         IN  /\ e \in Entry /\ s \in Seq(Byte) /\ Len(s) = e.size
             /\ e.buffptr = NULL => s = << >>
             /\ e.buffptr # NULL => e.buffptr \in Ptr /\ s = heap[e.buffptr]
             /\ k <= Count(circ_buf) => e.buffptr # NULL
  <1> DEFINE b == circ_buf
             i == ScanSlot(circ_buf, k - 1)
             e == b.entry[i]
             s == Blocks(heap, b)[k]
  <1>1. b \in Buffer /\ WellFormed(b)
    BY DEF Sound, WellFormed
  <1>2. i \in Slot
    BY <1>1, SearchedIsSum
  <1>3. e \in Entry
    BY <1>1, <1>2 DEF Buffer
  <1>4. s = IF e.buffptr = NULL THEN << >> ELSE heap[e.buffptr]
    BY DEF Blocks, Block
  <1>5. e.buffptr = NULL => e.size = 0
    <2>1. e.buffptr = NULL => ~ (b.full \/ i < b.in_offs)
      BY <1>1, <1>2 DEF WellFormed
    <2>2. i \in Int /\ b.in_offs \in Int
      BY <1>1, <1>2 DEF Buffer, Slot
    <2>3. e.buffptr = NULL => ~ b.full /\ i >= b.in_offs
      BY <2>1, <2>2
    <2>4. ~ b.full /\ i >= b.in_offs => e = EmptyEntry
      BY <1>1, <1>2 DEF WellFormed
    <2> QED
      BY <2>3, <2>4 DEF EmptyEntry
  <1>6. e.buffptr # NULL => heap[e.buffptr] \in Seq(Byte) /\ Len(heap[e.buffptr]) = e.size
    BY <1>2 DEF Sound, Holds
  <1>7. k <= Count(b) => e.buffptr # NULL
    <2>1. k <= Count(b) => k \in 1 .. Count(b)
      BY <1>1, ContentsSeq
    <2>2. k \in 1 .. Count(b) => Contents(b)[k] = e
      BY DEF Contents
    <2>3. k \in 1 .. Count(b) => \E j \in Slot : Contents(b)[k] = b.entry[j] /\ b.entry[j].buffptr # NULL
      BY <1>1, ContentsNew
    <2> QED
      BY <2>1, <2>2, <2>3
  <1>8. e.buffptr # NULL => e.buffptr \in Ptr
    BY <1>3 DEF Entry
  <1> HIDE DEF e, s
  <1>9. e.buffptr = NULL => s = << >> /\ s \in Seq(Byte) /\ Len(s) = e.size
    BY <1>4, <1>5, EmptySeq
  <1>10. e.buffptr # NULL => s = heap[e.buffptr] /\ s \in Seq(Byte) /\ Len(s) = e.size
    BY <1>4, <1>6
  <1> QED
    BY <1>3, <1>7, <1>8, <1>9, <1>10 DEF e, s

(* The lengths the search adds up are those of the blocks. *)
LEMMA BlocksLengths ==
  ASSUME Sound(circ_buf)
  PROVE  /\ circ_buf \in Buffer /\ WellFormed(circ_buf)
         /\ Blocks(heap, circ_buf) \in Pieces(MAX_OPS, Byte)
         /\ Lengths(SearchedLength(circ_buf), Blocks(heap, circ_buf), MAX_OPS)
         /\ \A i, j \in 0 .. MAX_OPS : i <= j => SearchedLength(circ_buf)[i] <= SearchedLength(circ_buf)[j]
  <1> DEFINE b == circ_buf
             len == SearchedLength(b)
             B == Blocks(heap, b)
  <1>1. b \in Buffer /\ WellFormed(b)
    BY DEF Sound, WellFormed
  <1>2. \A k \in 1 .. MAX_OPS : B[k] \in Seq(Byte) /\ Len(B[k]) = b.entry[ScanSlot(b, k - 1)].size
                              /\ Len(B[k]) \in Nat
    <2> TAKE k \in 1 .. MAX_OPS
    <2>1. B[k] \in Seq(Byte) /\ Len(B[k]) = b.entry[ScanSlot(b, k - 1)].size
      BY BlocksSound
    <2> QED
      BY <2>1, LenProperties
  <1>3. B \in Pieces(MAX_OPS, Byte)
    BY <1>2 DEF Pieces, Blocks
  <1>4. /\ len \in [0 .. MAX_OPS -> Nat] /\ len[0] = 0
        /\ \A k \in 1 .. MAX_OPS : len[k] = len[k - 1] + b.entry[ScanSlot(b, k - 1)].size
    BY <1>1, SearchedIsSum
  <1> HIDE DEF len, B
  <1>5. \A k \in 1 .. MAX_OPS : len[k] = len[k - 1] + Len(B[k])
    BY <1>2, <1>4
  <1>6. Lengths(len, B, MAX_OPS)
    BY <1>4, <1>5 DEF Lengths
  <1>7. \A k \in 1 .. MAX_OPS : len[k - 1] <= len[k]
    <2> TAKE k \in 1 .. MAX_OPS
    <2> DEFINE n == Len(B[k])
    <2>1. n \in Nat /\ len[k] = len[k - 1] + n /\ len[k - 1] \in Nat
      BY <1>2, <1>4, <1>5, BufferAssumption
    <2> HIDE DEF n
    <2> QED
      BY <2>1
  <1>8. \A i, j \in 0 .. MAX_OPS : i <= j => len[i] <= len[j]
    BY <1>4, <1>7, SumGrows, BufferAssumption
  <1> QED
    BY <1>1, <1>3, <1>6, <1>8 DEF len, B


(* d is what blocks B, of total lengths len, hold after the first start    *)
(* bytes.                                                                  *)
IsRest(d, start, len, B) ==
  /\ d \in Seq(Byte)
  /\ Len(d) = len[MAX_OPS] - start
  /\ \A i \in 1 .. MAX_OPS : \A j \in 1 .. Len(B[i]) :
       len[i - 1] + j > start => d[(len[i - 1] + j) - start] = B[i][j]

(* Every position is in some block. *)
LEMMA Covered ==
  ASSUME Sound(circ_buf), NEW q \in 1 .. SearchedLength(circ_buf)[MAX_OPS]
  PROVE  \E i \in 1 .. MAX_OPS : \E j \in 1 .. Len(Blocks(heap, circ_buf)[i]) :
           q = SearchedLength(circ_buf)[i - 1] + j
  <1> DEFINE len == SearchedLength(circ_buf)
             B == Blocks(heap, circ_buf)
  <1>1. WellFormed(circ_buf) /\ Lengths(len, B, MAX_OPS)
    BY BlocksLengths
  <1>2. Count(circ_buf) \in 0 .. MAX_OPS
    BY <1>1, ContentsSeq
  <1>3. len \in [0 .. MAX_OPS -> Nat] /\ \A k \in 1 .. MAX_OPS : len[k] = len[k - 1] + Len(B[k])
    BY <1>1 DEF Lengths
  <1>4. len[MAX_OPS] \in Nat /\ q - 1 \in Nat /\ q - 1 < len[MAX_OPS]
    BY <1>3, BufferAssumption
  <1>5. PICK k \in 0 .. Count(circ_buf) - 1 : len[k] <= q - 1 /\ q - 1 < len[k + 1]
    BY <1>1, <1>4, SearchAgrees
  <1>6. k + 1 \in 1 .. MAX_OPS /\ (k + 1) - 1 = k /\ k \in 0 .. MAX_OPS
    BY <1>2, BufferAssumption
  <1> DEFINE n == Len(B[k + 1])
             at == len[k]
             end == len[k + 1]
  <1>7. n \in Nat
    <2>1. B[k + 1] \in Seq(Byte)
      BY <1>6, BlocksSound
    <2> QED
      BY <2>1, LenProperties
  <1>8. at \in Nat /\ end = at + n /\ at <= q - 1 /\ q - 1 < end
    BY <1>3, <1>5, <1>6
  <1>9. q - at \in 1 .. n /\ q = at + (q - at)
    <2> HIDE DEF n, at, end
    <2> QED
      BY <1>4, <1>7, <1>8
  <1> QED
    BY <1>6, <1>9

(* The stream is all the blocks hold. *)
LEMMA StreamIsRest ==
  ASSUME Sound(circ_buf)
  PROVE  IsRest(Stream, 0, SearchedLength(circ_buf), Blocks(heap, circ_buf))
  <1> DEFINE len == SearchedLength(circ_buf)
             B == Blocks(heap, circ_buf)
             c == Count(circ_buf)
             w == [k \in 1 .. c |-> B[k]]
             part == [k \in 0 .. c |-> len[k]]
             cat[k \in 0 .. c] == IF k = 0 THEN << >> ELSE cat[k - 1] \o Commands(circ_buf)[k]
  <1>1. WellFormed(circ_buf) /\ Lengths(len, B, MAX_OPS) /\ B \in Pieces(MAX_OPS, Byte)
    BY BlocksLengths
  <1>2. c \in 0 .. MAX_OPS /\ \A k \in c .. MAX_OPS : len[k] = len[c]
    BY <1>1, UnusedAreEmpty
  <1>3. /\ len \in [0 .. MAX_OPS -> Nat] /\ len[0] = 0
        /\ \A k \in 1 .. MAX_OPS : len[k] = len[k - 1] + Len(B[k])
    BY <1>1 DEF Lengths
  <1>4. \A k \in 1 .. c : k \in 1 .. MAX_OPS /\ k \in 0 .. c /\ k - 1 \in 0 .. c /\ k - 1 \in 0 .. MAX_OPS
    BY <1>2, BufferAssumption
  <1>5. w \in Pieces(c, Byte) /\ \A k \in 1 .. c : w[k] = B[k]
    BY <1>1, <1>4 DEF Pieces
  <1>6. \A k \in 1 .. c : Commands(circ_buf)[k] = w[k]
    <2> TAKE k \in 1 .. c
    <2> DEFINE e == circ_buf.entry[ScanSlot(circ_buf, k - 1)]
    <2>1. k \in 1 .. MAX_OPS /\ k <= c
      BY <1>4
    <2>2. e.buffptr # NULL /\ B[k] = heap[e.buffptr]
      BY <2>1, BlocksSound
    <2>3. Commands(circ_buf)[k] = heap[e.buffptr]
      BY DEF Commands, Contents
    <2> QED
      BY <1>5, <2>2, <2>3
  <1>7. cat = [k \in 0 .. c |-> IF k = 0 THEN << >> ELSE cat[k - 1] \o Commands(circ_buf)[k]]
    <2> HIDE DEF w
    <2>1. PICK f \in [0 .. c -> Seq(Byte)] : Joins(f, w, c)
      BY <1>2, <1>5, ConcatExists
    <2>2. f = [k \in 0 .. c |-> IF k = 0 THEN << >> ELSE f[k - 1] \o Commands(circ_buf)[k]]
      <3>1. ASSUME NEW k \in 0 .. c
            PROVE  f[k] = IF k = 0 THEN << >> ELSE f[k - 1] \o Commands(circ_buf)[k]
        <4>1. CASE k = 0
          BY <2>1, <4>1 DEF Joins
        <4>2. CASE k # 0
          <5>1. k \in 1 .. c
            BY <1>2, <4>2
          <5> QED
            BY <1>6, <2>1, <4>2, <5>1 DEF Joins
        <4> QED
          BY <4>1, <4>2
      <3> QED
        BY <2>1, <3>1
    <2> QED
      BY <2>2
  <1>8. Stream = cat[c]
    BY DEF Stream
  <1> HIDE DEF cat, w, part, len, B
  <1>9. Joins(cat, w, c)
    <2>1. \A k \in 0 .. c : cat[k] = IF k = 0 THEN << >> ELSE cat[k - 1] \o Commands(circ_buf)[k]
      BY <1>7
    <2>2. 0 \in 0 .. c /\ \A k \in 1 .. c : k \in 0 .. c /\ k # 0
      BY <1>2
    <2> QED
      BY <1>6, <2>1, <2>2 DEF Joins
  <1>10. Lengths(part, w, c) /\ \A k \in 0 .. c : part[k] = len[k]
    <2>1. part \in [0 .. c -> Nat] /\ \A k \in 0 .. c : part[k] = len[k]
      BY <1>2, <1>3, BufferAssumption DEF part
    <2>2. ASSUME NEW k \in 1 .. c PROVE part[k] = part[k - 1] + Len(w[k])
      BY <1>3, <1>4, <1>5, <2>1
    <2>3. part[0] = 0
      BY <1>2, <1>3, <2>1
    <2> QED
      BY <2>1, <2>2, <2>3 DEF Lengths
  <1>11. c \in Nat /\ c \in 0 .. c
    BY <1>2
  <1>12. \A k \in 0 .. c :
            /\ Len(cat[k]) = part[k]
            /\ \A i \in 1 .. k : \A j \in 1 .. Len(w[i]) : cat[k][part[i - 1] + j] = w[i][j]
    BY <1>5, <1>9, <1>10, <1>11, ConcatCells
  <1>13. cat[c] \in Seq(Byte)
    BY <1>5, <1>9, <1>11, ConcatType
  <1>14. Len(cat[c]) = len[MAX_OPS] - 0
    <2>1. len[MAX_OPS] = len[c] /\ len[MAX_OPS] \in Nat
      BY <1>2, <1>3, BufferAssumption
    <2> QED
      BY <1>10, <1>11, <1>12, <2>1
  <1>15. ASSUME NEW i \in 1 .. MAX_OPS, NEW j \in 1 .. Len(B[i])
         PROVE  cat[c][(len[i - 1] + j) - 0] = B[i][j]
    <2>1. Len(B[i]) \in Nat
      <3>1. B[i] \in Seq(Byte)
        BY <1>1 DEF Pieces
      <3> QED
        BY <3>1, LenProperties
    <2> DEFINE n == Len(B[i])
    <2>2. n \in Nat /\ j \in 1 .. n /\ len[i] = len[i - 1] + n /\ len[i - 1] \in Nat
      BY <1>3, <2>1, BufferAssumption
    <2>3. i \in 1 .. c
      <3> SUFFICES ASSUME i \notin 1 .. c PROVE FALSE
        OBVIOUS
      <3>1. i \in c .. MAX_OPS /\ i - 1 \in c .. MAX_OPS
        BY <1>2, BufferAssumption
      <3>2. len[i] = len[i - 1]
        BY <1>2, <3>1
      <3> HIDE DEF n
      <3> QED
        BY <2>2, <3>2
    <2>4. w[i] = B[i] /\ part[i - 1] = len[i - 1]
      BY <1>4, <1>5, <1>10, <2>3
    <2>5. cat[c][len[i - 1] + j] = B[i][j]
      BY <1>11, <1>12, <2>3, <2>4
    <2> HIDE DEF n
    <2>6. (len[i - 1] + j) - 0 = len[i - 1] + j
      BY <2>2
    <2> QED
      BY <2>5, <2>6
  <1> QED
    BY <1>8, <1>13, <1>14, <1>15 DEF IsRest, len, B

(* Two rests agree where both are. *)
LEMMA RestIsSuffix ==
  ASSUME Sound(circ_buf), NEW d, NEW start \in 0 .. SearchedLength(circ_buf)[MAX_OPS],
         IsRest(d, start, SearchedLength(circ_buf), Blocks(heap, circ_buf))
  PROVE  d = SubSeq(Stream, start + 1, Len(Stream))
  <1> DEFINE len == SearchedLength(circ_buf)
             B == Blocks(heap, circ_buf)
             n == len[MAX_OPS]
             s == Stream
             r == SubSeq(s, start + 1, n)
  <1>1. n \in Nat
    BY BlocksLengths, BufferAssumption DEF Lengths
  <1>2. /\ s \in Seq(Byte) /\ Len(s) = n - 0
        /\ \A i \in 1 .. MAX_OPS : \A j \in 1 .. Len(B[i]) :
             len[i - 1] + j > 0 => s[(len[i - 1] + j) - 0] = B[i][j]
    BY StreamIsRest DEF IsRest
  <1>3. /\ d \in Seq(Byte) /\ Len(d) = n - start
        /\ \A i \in 1 .. MAX_OPS : \A j \in 1 .. Len(B[i]) :
             len[i - 1] + j > start => d[(len[i - 1] + j) - start] = B[i][j]
    BY DEF IsRest
  <1>4. \A q \in 1 .. n : \E i \in 1 .. MAX_OPS : \E j \in 1 .. Len(B[i]) : q = len[i - 1] + j
    BY Covered
  <1> HIDE DEF len, B, n, s
  <1>5. start \in 0 .. n
    BY DEF n, len
  <1>6. Len(s) = n
    BY <1>1, <1>2
  <1>7. \A q \in 1 .. n : q > start => d[q - start] = s[q]
    <2> TAKE q \in 1 .. n
    <2>1. PICK i \in 1 .. MAX_OPS : \E j \in 1 .. Len(B[i]) : q = len[i - 1] + j
      BY <1>4
    <2>2. PICK j \in 1 .. Len(B[i]) : q = len[i - 1] + j
      BY <2>1
    <2>3. q > start => d[q - start] = B[i][j]
      BY <1>3, <2>2
    <2>4. s[q - 0] = B[i][j]
      BY <1>2, <2>2
    <2>5. q - 0 = q
      OBVIOUS
    <2> QED
      BY <2>3, <2>4, <2>5
  <1>8. /\ r \in Seq(Byte) /\ Len(r) = n - start
        /\ \A q \in 1 .. n - start : r[q] = s[start + q]
    <2>1. \A q \in start + 1 .. n : s[q] \in Byte
      <3> TAKE q \in start + 1 .. n
      <3>1. q \in 1 .. Len(s)
        BY <1>1, <1>5, <1>6
      <3> QED
        BY <1>2, <3>1, ElementOfSeq
    <2>2. /\ r \in Seq(Byte)
          /\ Len(r) = IF start + 1 <= n THEN n - (start + 1) + 1 ELSE 0
          /\ \A q \in 1 .. n - (start + 1) + 1 : r[q] = s[start + 1 + q - 1]
      <3>1. start + 1 \in Int /\ n \in Int
        BY <1>1, <1>5
      <3> HIDE DEF r
      <3> QED
        BY <2>1, <3>1, SubSeqProperties DEF r
    <2> HIDE DEF r
    <2>3. n - (start + 1) + 1 = n - start /\ \A q \in 1 .. n - start : start + 1 + q - 1 = start + q
      BY <1>1, <1>5
    <2>4. Len(r) = n - start
      BY <1>1, <1>5, <2>2
    <2> QED
      BY <2>2, <2>3, <2>4
  <1> HIDE DEF r
  <1>9. ASSUME NEW q \in 1 .. n - start PROVE d[q] = r[q]
    <2>1. start + q \in 1 .. n /\ start + q > start /\ (start + q) - start = q
      BY <1>1, <1>5
    <2> QED
      BY <1>7, <1>8, <2>1
  <1>10. d = r
    BY <1>3, <1>8, <1>9, SeqEqual
  <1> QED
    BY <1>6, <1>10 DEF r, s


-----------------------------------------------------------------------------
(* What aesd_ioctl gathers. *)

(* The bytes p are those of s behind the first ones. *)
IsBehind(p, s, from) ==
  /\ p \in Seq(Byte)
  /\ Len(p) = IF from < Len(s) THEN Len(s) - from ELSE 0
  /\ \A j \in 1 .. Len(p) : p[j] = s[from + j]

(* The bytes an entry contributes. *)
LEMMA PieceBytes ==
  ASSUME Sound(circ_buf), NEW k \in 1 .. MAX_OPS, NEW from \in Nat
  PROVE  IsBehind(Piece(circ_buf.entry[ScanSlot(circ_buf, k - 1)], from), Blocks(heap, circ_buf)[k], from)
  <1> DEFINE e == circ_buf.entry[ScanSlot(circ_buf, k - 1)]
             s == Blocks(heap, circ_buf)[k]
             p == Piece(e, from)
             n == e.size
  <1>1. /\ e \in Entry /\ s \in Seq(Byte) /\ Len(s) = n
        /\ e.buffptr = NULL => s = << >>
        /\ e.buffptr # NULL => s = heap[e.buffptr]
    BY BlocksSound
  <1>2. n \in Nat
    BY <1>1 DEF Entry
  <1>3. CASE ~ (from < n)
    <2>1. p = << >>
      BY <1>3 DEF Piece
    <2> HIDE DEF p
    <2>2. p \in Seq(Byte) /\ Len(p) = 0
      BY <2>1, EmptySeq
    <2> QED
      BY <1>1, <1>3, <2>2 DEF p, IsBehind
  <1>4. CASE from < n
    <2>1. e.buffptr # NULL
      <3> SUFFICES ASSUME e.buffptr = NULL PROVE FALSE
        OBVIOUS
      <3>1. n = 0
        BY <1>1, EmptySeq
      <3> HIDE DEF n
      <3> QED
        BY <1>4, <3>1
    <2>2. p = SubSeq(s, from + 1, n)
      BY <1>1, <1>4, <2>1 DEF Piece
    <2> HIDE DEF n, s, e
    <2>3. \A q \in from + 1 .. n : s[q] \in Byte
      <3> TAKE q \in from + 1 .. n
      <3>1. q \in 1 .. Len(s)
        BY <1>1, <1>2
      <3> QED
        BY <1>1, <3>1, ElementOfSeq
    <2>4. from + 1 \in Int /\ n \in Int
      BY <1>2
    <2>5. /\ p \in Seq(Byte)
          /\ Len(p) = IF from + 1 <= n THEN n - (from + 1) + 1 ELSE 0
          /\ \A q \in 1 .. n - (from + 1) + 1 : p[q] = s[from + 1 + q - 1]
      <3>1. /\ SubSeq(s, from + 1, n) \in Seq(Byte)
            /\ Len(SubSeq(s, from + 1, n)) = IF from + 1 <= n THEN n - (from + 1) + 1 ELSE 0
            /\ \A q \in 1 .. n - (from + 1) + 1 : SubSeq(s, from + 1, n)[q] = s[from + 1 + q - 1]
        BY <2>3, <2>4, SubSeqProperties
      <3> QED
        BY <2>2, <3>1
    <2> HIDE DEF p
    <2>6. n - (from + 1) + 1 = n - from /\ \A q \in 1 .. n - from : from + 1 + q - 1 = from + q
      BY <1>2
    <2>7. Len(p) = n - from
      BY <1>2, <1>4, <2>5
    <2>8. \A q \in 1 .. n - from : p[q] = s[from + q]
      BY <2>5, <2>6
    <2> QED
      BY <1>1, <1>4, <2>5, <2>7, <2>8 DEF p, s, e, IsBehind
  <1> QED
    BY <1>3, <1>4

(* The recursion of SpecialBuffer has a solution, whatever it is asked     *)
(* for, and its values are sequences of bytes.                             *)
LEMMA SpecialBufferSent ==
  ASSUME Sound(circ_buf), NEW cmd \in 0 .. MAX_OPS, NEW offset \in Nat
  PROVE  LET total == get_length_of_all_entries_in_buffer(circ_buf) - offset
             first == IF cmd = MAX_OPS THEN 0 ELSE cmd
         IN  \E sent \in [0 .. MAX_OPS -> Seq(Byte)] :
               /\ SpecialBuffer(cmd, offset) = sent[MAX_OPS]
               /\ \A k \in 0 .. MAX_OPS : k <= first => sent[k] = << >>
               /\ \A k \in 1 .. MAX_OPS : k > first =>
                    /\ Len(sent[k - 1]) >= total => sent[k] = sent[k - 1]
                    /\ ~ (Len(sent[k - 1]) >= total) =>
                         sent[k] = sent[k - 1] \o
                           Piece(circ_buf.entry[ScanSlot(circ_buf, k - 1)],
                                 IF k - 1 = first THEN offset ELSE 0)
  <1> DEFINE total == get_length_of_all_entries_in_buffer(circ_buf) - offset
             first == IF cmd = MAX_OPS THEN 0 ELSE cmd
             piece == [k \in 1 .. MAX_OPS |->
                         Piece(circ_buf.entry[ScanSlot(circ_buf, k - 1)],
                               IF k - 1 = first THEN offset ELSE 0)]
             S == Seq(Byte)
             More(k, s) == IF k <= first THEN << >>
                           ELSE IF Len(s) >= total THEN s ELSE s \o piece[k]
             step == [k \in 1 .. MAX_OPS |-> [s \in S |-> More(k, s)]]
             sent[k \in 0 .. MAX_OPS] ==
               IF k <= first THEN << >>
               ELSE IF Len(sent[k - 1]) >= total THEN sent[k - 1]
               ELSE sent[k - 1] \o Piece(circ_buf.entry[ScanSlot(circ_buf, k - 1)],
                                         IF k - 1 = first THEN offset ELSE 0)
  <1>1. first \in 0 .. MAX_OPS
    BY BufferAssumption
  <1>2. \A k \in 1 .. MAX_OPS : piece[k] \in S
    <2> TAKE k \in 1 .. MAX_OPS
    <2>1. (IF k - 1 = first THEN offset ELSE 0) \in Nat
      OBVIOUS
    <2> QED
      BY <2>1, PieceBytes DEF IsBehind
  <1>3. \A k \in 1 .. MAX_OPS :
          piece[k] = Piece(circ_buf.entry[ScanSlot(circ_buf, k - 1)],
                           IF k - 1 = first THEN offset ELSE 0)
    OBVIOUS
  <1> HIDE DEF first, total, piece
  <1>4. << >> \in S /\ \A k \in 1 .. MAX_OPS : \A s \in S : s \o piece[k] \in S
    BY <1>2, ConcatProperties
  <1> HIDE DEF S
  <1>5. \A k \in 1 .. MAX_OPS : \A s \in S : More(k, s) \in S
    BY <1>4
  <1>6. step \in Steps(MAX_OPS, S)
    <2> HIDE DEF More
    <2> QED
      BY <1>5 DEF Steps
  <1>7. \A k \in 1 .. MAX_OPS : \A s \in S : step[k][s] = More(k, s)
    <2> HIDE DEF More
    <2> QED
      OBVIOUS
  <1> HIDE DEF step
  <1>8. PICK f \in [0 .. MAX_OPS -> S] : Follows(f, MAX_OPS, << >>, step)
    BY <1>4, <1>6, RecursionExists, BufferAssumption
  <1>9. ASSUME NEW k \in 1 .. MAX_OPS PROVE f[k] = More(k, f[k - 1])
    <2>1. f[k - 1] \in S
      BY <1>8, BufferAssumption
    <2>2. f[k] = step[k][f[k - 1]]
      BY <1>8 DEF Follows
    <2> HIDE DEF More
    <2> QED
      BY <1>7, <2>1, <2>2
  <1>10. ASSUME NEW k \in 0 .. MAX_OPS
         PROVE  f[k] = IF k <= first THEN << >>
                       ELSE IF Len(f[k - 1]) >= total THEN f[k - 1]
                       ELSE f[k - 1] \o Piece(circ_buf.entry[ScanSlot(circ_buf, k - 1)],
                                              IF k - 1 = first THEN offset ELSE 0)
    <2>1. CASE k = 0
      BY <1>1, <1>8, <2>1 DEF Follows
    <2>2. CASE k # 0
      <3>1. k \in 1 .. MAX_OPS
        BY <2>2, BufferAssumption
      <3> QED
        BY <1>3, <1>9, <3>1
    <2> QED
      BY <2>1, <2>2
  <1>11. sent = [k \in 0 .. MAX_OPS |->
                   IF k <= first THEN << >>
                   ELSE IF Len(sent[k - 1]) >= total THEN sent[k - 1]
                   ELSE sent[k - 1] \o Piece(circ_buf.entry[ScanSlot(circ_buf, k - 1)],
                                             IF k - 1 = first THEN offset ELSE 0)]
    <2>1. f = [k \in 0 .. MAX_OPS |->
                 IF k <= first THEN << >>
                 ELSE IF Len(f[k - 1]) >= total THEN f[k - 1]
                 ELSE f[k - 1] \o Piece(circ_buf.entry[ScanSlot(circ_buf, k - 1)],
                                        IF k - 1 = first THEN offset ELSE 0)]
      BY <1>8, <1>10
    <2> QED
      BY <2>1
  <1>12. SpecialBuffer(cmd, offset) = sent[MAX_OPS]
    BY DEF SpecialBuffer, first, total
  <1> HIDE DEF sent
  <1>13. ASSUME NEW k \in 0 .. MAX_OPS
         PROVE  /\ k <= first => sent[k] = << >>
                /\ ~ (k <= first) /\ Len(sent[k - 1]) >= total => sent[k] = sent[k - 1]
                /\ ~ (k <= first) /\ ~ (Len(sent[k - 1]) >= total) =>
                     sent[k] = sent[k - 1] \o
                       Piece(circ_buf.entry[ScanSlot(circ_buf, k - 1)],
                             IF k - 1 = first THEN offset ELSE 0)
    BY <1>11
  <1> DEFINE T == {k \in Nat : k <= MAX_OPS => sent[k] \in S}
  <1>14. 0 \in T
    <2>1. 0 \in 0 .. MAX_OPS /\ 0 <= first
      BY <1>1, BufferAssumption
    <2> QED
      BY <1>4, <1>13, <2>1
  <1>15. ASSUME NEW k \in Nat, k \in T PROVE k + 1 \in T
    <2> SUFFICES ASSUME k + 1 <= MAX_OPS PROVE sent[k + 1] \in S
      OBVIOUS
    <2>1. k + 1 \in 0 .. MAX_OPS /\ k + 1 \in 1 .. MAX_OPS /\ (k + 1) - 1 = k /\ sent[k] \in S
      BY <1>15, BufferAssumption
    <2>2. \/ sent[k + 1] = << >> \/ sent[k + 1] = sent[k] \/ sent[k + 1] = sent[k] \o piece[k + 1]
      BY <1>3, <1>13, <2>1
    <2> QED
      BY <1>4, <2>1, <2>2
  <1>16. \A k \in Nat : k \in T
    <2> HIDE DEF T
    <2> QED
      BY <1>14, <1>15, SetInduction
  <1>17. sent \in [0 .. MAX_OPS -> S]
    <2>1. \A k \in 0 .. MAX_OPS : sent[k] \in S
      BY <1>16
    <2> QED
      BY <1>11, <2>1
  <1>18. \A k \in 1 .. MAX_OPS : k > first => ~ (k <= first) /\ k \in 0 .. MAX_OPS
    BY <1>1
  <1> HIDE DEF T
  <1> QED
    BY <1>12, <1>13, <1>17, <1>18 DEF S, first, total


-----------------------------------------------------------------------------
(* Every step keeps the types of the locals. *)

USE DEF Idle

(* t is now somewhere, with given locals and file position; the others are *)
(* where they were.                                                        *)
Goes(t, where, locals, pos) ==
  /\ frame' = [u \in Thread |-> frame'[u]]
  /\ f_pos' \in [Thread -> Int]
  /\ \A u \in Thread :
       /\ pc'[u] = IF u = t THEN where ELSE pc[u]
       /\ frame'[u] = IF u = t THEN locals ELSE frame[u]
       /\ f_pos'[u] = IF u = t THEN pos ELSE f_pos[u]

(* A step in which t alone moves keeps the types if t's locals have them. *)
LEMMA GoesLocals ==
  ASSUME Locals, NEW t \in Thread, NEW where, NEW locals, NEW pos,
         Goes(t, where, locals, pos), LocalsOf(where, locals, pos), overlap' \subseteq Thread
  PROVE  Locals'
  <1>1. ASSUME NEW u \in Thread PROVE LocalsOf(pc'[u], frame'[u], f_pos'[u])
    BY DEF Goes, Locals
  <1>2. f_pos' \in [Thread -> Int] /\ frame' = [u \in Thread |-> frame'[u]]
    BY DEF Goes
  <1>3. \A u \in Thread : LocalsOf(pc[u], frame[u], f_pos[u])'
    BY <1>1 DEF LocalsOf
  <1> QED
    BY <1>2, <1>3 DEF Locals

(* Goto, and a step to another place with the same locals. *)
LEMMA GotoGoes ==
  ASSUME Inv, Locals, NEW t \in Thread, NEW where,
         f_pos' = f_pos
  PROVE  /\ \A locals : Goto(t, where, locals) => Goes(t, where, locals, f_pos[t])
         /\ pc' = [pc EXCEPT ![t] = where] /\ frame' = frame
              => Goes(t, where, frame[t], f_pos[t])
  <1>1. /\ pc \in [Thread -> Location] /\ f_pos \in [Thread -> Int]
        /\ frame = [u \in Thread |-> frame[u]]
    BY DEF Inv, SharedTypeOK, Locals
  <1>2. ASSUME NEW locals, Goto(t, where, locals) PROVE Goes(t, where, locals, f_pos[t])
    <2>1. frame' = [u \in Thread |-> IF u = t THEN locals ELSE frame[u]]
      <3>1. frame' = [frame EXCEPT ![t] = locals] /\ DOMAIN frame = Thread
        BY <1>2 DEF Goto, Inv, Control
      <3> QED
        BY <3>1
    <2>2. \A u \in Thread : frame'[u] = IF u = t THEN locals ELSE frame[u]
      BY <2>1
    <2>3. frame' = [u \in Thread |-> frame'[u]]
      BY <2>1, <2>2
    <2>4. \A u \in Thread : pc'[u] = IF u = t THEN where ELSE pc[u]
      BY <1>1, <1>2 DEF Goto
    <2> QED
      BY <1>1, <2>2, <2>3, <2>4 DEF Goes
  <1>3. ASSUME pc' = [pc EXCEPT ![t] = where], frame' = frame
        PROVE  Goes(t, where, frame[t], f_pos[t])
    BY <1>1, <1>3 DEF Goes
  <1> QED
    BY <1>2, <1>3

(* A reply is a record of its type. *)
LEMMA ReplyType ==
  ASSUME NEW c \in {"read", "write", "ioctl", "error"}, NEW a \in Nat, NEW o \in Nat,
         NEW d \in Seq(Byte) \cup {Garbage}
  PROVE  Result(c, a, o, d) \in Reply
  BY DEF Result, Reply

(* The calls. *)
LEMMA CallLocals ==
  ASSUME Inv, Locals, NEW t \in Thread, Call(t)
  PROVE  Locals'
  <1>0. t \in opened => overlap \cup {t} \subseteq Thread /\ overlap \ {t} \subseteq Thread
    BY DEF Locals
  <1>1. ASSUME NEW chunk \in Chunk, WriteCall(t, chunk) PROVE Locals'
    <2> DEFINE locals == [chunk |-> chunk, to_free |-> NULL]
    <2>1. Goes(t, "w_lock", locals, f_pos[t]) /\ overlap' \subseteq Thread
      BY <1>0, <1>1, GotoGoes DEF WriteCall, Begin
    <2> HIDE DEF locals
    <2>2. LocalsOf("w_lock", locals, f_pos[t])
      BY DEF LocalsOf, Reading
    <2> QED
      BY <2>1, <2>2, GoesLocals
  <1>2. ASSUME NEW seek \in SeekTo, SeekCall(t, seek) PROVE Locals'
    <2> DEFINE locals == [write_cmd |-> seek[1], offset |-> seek[2]]
    <2>1. Goes(t, "s_lock", locals, f_pos[t]) /\ overlap' \subseteq Thread
      BY <1>0, <1>2, GotoGoes DEF SeekCall, Begin
    <2>2. locals \in SeekFrame
      BY DriverAssumption DEF SeekFrame
    <2> HIDE DEF locals
    <2>3. LocalsOf("s_lock", locals, f_pos[t])
      BY <2>2 DEF LocalsOf, Reading
    <2> QED
      BY <2>1, <2>3, GoesLocals
  <1>3. ASSUME NEW asked \in Counts, ReadTotal(t, asked) PROVE Locals'
    <2> DEFINE count == RemainingCount(t, asked)
               reply == Result("read", asked, 0, << >>)
               locals == [count |-> count, slot |-> -1, byte |-> 0, n |-> 0, buffptr |-> NULL]
    <2>1. asked \in Nat /\ f_pos[t] \in Int /\ f_pos[t] >= 0 /\ f_pos' = f_pos
      BY <1>3, DriverAssumption DEF ReadTotal, Locals
    <2>2. count \in Nat
      <3>1. get_length_of_all_entries_in_buffer(circ_buf) \in Nat
        <4>1. circ_buf \in OpenBuffer
          BY DEF Inv, SharedTypeOK
        <4>2. PICK sum \in [0 .. MAX_OPS -> Nat] : get_length_of_all_entries_in_buffer(circ_buf) = sum[MAX_OPS]
          BY <4>1, OpenLengthIsSum
        <4>3. MAX_OPS \in 0 .. MAX_OPS
          BY BufferAssumption
        <4> QED
          BY <4>2, <4>3
      <3> DEFINE total == get_length_of_all_entries_in_buffer(circ_buf)
      <3>2. ToUnsigned(total - f_pos[t]) \in Nat
        <4> HIDE DEF total
        <4>1. total - f_pos[t] \in Int
          BY <2>1, <3>1 DEF total
        <4> QED
          BY <4>1, Unsigned, DriverAssumption
      <3>3. count = asked \/ count = ToUnsigned(total - f_pos[t])
        BY DEF RemainingCount
      <3> HIDE DEF total, count
      <3> QED
        BY <2>1, <3>2, <3>3
    <2>3. reply \in Reply
      BY <2>1, ReplyType, EmptySeq
    <2>4. locals \in ReadFrame
      <3> HIDE DEF count
      <3> QED
        BY <2>2 DEF ReadFrame
    <2>5. overlap' \subseteq Thread
      BY <1>0, <1>3 DEF ReadTotal, Begin
    <2> HIDE DEF reply, locals
    <2>6. CASE count = 0
      <3>1. Goto(t, "ret", reply)
        BY <1>3, <2>6 DEF ReadTotal, Begin, reply, locals
      <3>2. Goes(t, "ret", reply, f_pos[t])
        BY <2>1, <3>1, GotoGoes
      <3>3. LocalsOf("ret", reply, f_pos[t])
        BY <2>3 DEF LocalsOf, Reading
      <3> QED
        BY <2>5, <3>2, <3>3, GoesLocals
    <2>7. CASE count # 0
      <3>1. Goto(t, "r_find", locals)
        BY <1>3, <2>7 DEF ReadTotal, Begin, reply, locals
      <3>2. Goes(t, "r_find", locals, f_pos[t])
        BY <2>1, <3>1, GotoGoes
      <3>3. LocalsOf("r_find", locals, f_pos[t])
        BY <2>1, <2>4 DEF LocalsOf, Reading
      <3> QED
        BY <2>5, <3>2, <3>3, GoesLocals
    <2> QED
      BY <2>6, <2>7
  <1>4. ASSUME NEW off \in Offsets, NEW whence \in {SEEK_SET, SEEK_CUR, SEEK_END},
               aesd_llseek(t, off, whence)
        PROVE  Locals'
    <2> DEFINE pos == ToSigned(ToUnsigned(SeekBase(t, whence) + off))
    <2>1. SeekBase(t, whence) \in Int
      <3>1. get_length_of_all_entries_in_buffer(circ_buf) \in Int /\ f_pos[t] \in Int
        <4>1. circ_buf \in OpenBuffer /\ f_pos[t] \in Int
          BY DEF Inv, SharedTypeOK, Locals
        <4> QED
          BY <4>1, OpenLengthIsSum, BufferAssumption
      <3> QED
        BY <3>1 DEF SeekBase, SEEK_SET, SEEK_CUR, SEEK_END
    <2>2. SeekBase(t, whence) + off \in Int
      BY <2>1, DriverAssumption
    <2>3. ToUnsigned(SeekBase(t, whence) + off) \in Int
      BY <2>2, Unsigned, DriverAssumption
    <2>4. pos \in Int
      BY <2>3, Signed
    <2>5. f_pos' = [f_pos EXCEPT ![t] = pos] /\ UNCHANGED <<pc, frame, overlap>> /\ pc[t] = Idle
      BY <1>4 DEF aesd_llseek
    <2> HIDE DEF pos
    <2>6. Goes(t, pc[t], frame[t], pos)
      BY <2>4, <2>5 DEF Goes, Locals
    <2>7. LocalsOf(pc[t], frame[t], pos)
      BY <2>5 DEF Locals, LocalsOf, Reading
    <2> QED
      BY <2>5, <2>6, <2>7, GoesLocals DEF Locals
  <1> QED
    BY <1>1, <1>2, <1>3, <1>4 DEF Call


(* What aesd_ioctl gathers is a sequence of bytes. *)
LEMMA SpecialBufferType ==
  ASSUME Sound(circ_buf), NEW cmd \in Nat, cmd <= MAX_OPS, NEW offset \in Nat
  PROVE  SpecialBuffer(cmd, offset) \in Seq(Byte)
  <1>1. cmd \in 0 .. MAX_OPS /\ MAX_OPS \in 0 .. MAX_OPS
    BY BufferAssumption
  <1>2. \E sent \in [0 .. MAX_OPS -> Seq(Byte)] : SpecialBuffer(cmd, offset) = sent[MAX_OPS]
    BY <1>1, SpecialBufferSent
  <1> QED
    BY <1>1, <1>2

(* A copy inside a block gives bytes. *)
LEMMA CopiedType ==
  ASSUME Inv, NEW t \in Thread, frame[t] \in ReadFrame, frame[t].byte \in Nat
  PROVE  Copied(t) \in Seq(Byte) \cup {Garbage}
  <1> DEFINE p == frame[t].buffptr
             s == heap[p]
             m == frame[t].byte
             n == frame[t].n
             size == Len(s)
  <1>1. CASE ~ CopyInBounds(t)
    BY <1>1 DEF Copied
  <1>2. CASE CopyInBounds(t)
    <2>1. p # NULL /\ s # Freed /\ m + n <= size /\ n \in Nat /\ m \in Nat
      BY <1>2 DEF CopyInBounds, ReadFrame
    <2>2. s \in Seq(Byte)
      BY <2>1 DEF Inv, SharedTypeOK, ReadFrame
    <2>3. size \in Nat
      BY <2>2, LenProperties
    <2>4. Copied(t) = SubSeq(s, m + 1, m + n)
      BY <1>2 DEF Copied
    <2> HIDE DEF p, s, m, n, size
    <2>5. \A q \in m + 1 .. m + n : s[q] \in Byte
      <3> TAKE q \in m + 1 .. m + n
      <3>1. q \in 1 .. size
        BY <2>1, <2>3
      <3> QED
        BY <2>2, <3>1, ElementOfSeq DEF size
    <2>6. m + 1 \in Int /\ m + n \in Int
      BY <2>1
    <2>7. SubSeq(s, m + 1, m + n) \in Seq(Byte)
      BY <2>5, <2>6, SubSeqProperties
    <2> QED
      BY <2>4, <2>7
  <1> QED
    BY <1>1, <1>2

(* The steps of aesd_read. *)
LEMMA ReadLocals ==
  ASSUME Inv, Locals, NEW t \in Thread, ReadStep(t)
  PROVE  Locals'
  <1> DEFINE fr == frame[t]
             at == f_pos[t]
  <1>1. circ_buf \in OpenBuffer /\ circ_buf.entry \in [Slot -> Entry]
    BY DEF Inv, SharedTypeOK, OpenBuffer
  <1>2. pc[t] \in Reading /\ UNCHANGED overlap
    BY DEF ReadStep, ReadFind, ReadFindOutside, ReadSize, ReadBuffptr, ReadCopy, Reading
  <1>3. overlap' \subseteq Thread
    BY <1>2 DEF Locals
  <1>4. /\ fr \in ReadFrame /\ at \in Nat
        /\ pc[t] # "r_find" => fr.slot \in Slot /\ fr.byte \in Nat
    BY <1>2 DEF Locals, LocalsOf
  <1>5. fr.count \in Nat /\ fr.n \in Nat
    BY <1>4 DEF ReadFrame
  <1>6. CASE ReadFind(t)
    <2> DEFINE found == aesd_circular_buffer_find_entry_offset_for_fpos(circ_buf, at)
               reply == Result("read", fr.count, 0, << >>)
               pos == Searched(circ_buf, at)
               locals == [fr EXCEPT !.slot = found.slot, !.byte = found.byte]
    <2>0. Walkable(circ_buf) /\ pos \in Nat
      <3>1. circ_buf.out_offs # MAX_OPS
        BY <1>6 DEF ReadFind
      <3>2. circ_buf.out_offs \in Slot
        BY <1>1, <3>1, BufferAssumption DEF OpenBuffer, Slot
      <3> QED
        BY <1>1, <1>4, <3>2, SearchedPosition DEF Walkable
    <2>1. f_pos' = f_pos
      BY <1>6 DEF ReadFind
    <2>2. CASE found = NotFound
      <3>1. Goes(t, "ret", reply, at)
        BY <1>6, <2>1, <2>2, GotoGoes DEF ReadFind
      <3>2. reply \in Reply
        BY <1>5, ReplyType, EmptySeq
      <3> HIDE DEF reply
      <3>3. LocalsOf("ret", reply, at)
        BY <3>2 DEF LocalsOf, Reading
      <3> QED
        BY <1>3, <3>1, <3>3, GoesLocals
    <2>3. CASE found # NotFound
      <3>1. PICK k \in 0 .. SearchSteps(circ_buf) - 1 :
              /\ SearchedLength(circ_buf)[k] <= pos
              /\ found = [slot |-> ScanSlot(circ_buf, k), byte |-> pos - SearchedLength(circ_buf)[k]]
        BY <1>4, <2>0, <2>3, SearchFinds
      <3>2. k \in 0 .. MAX_OPS /\ k + 1 \in 1 .. MAX_OPS /\ (k + 1) - 1 = k
        BY <2>0, SearchStepsBound, BufferAssumption
      <3>3. ScanSlot(circ_buf, k) \in Slot /\ SearchedLength(circ_buf)[k] \in Nat
        BY <2>0, <3>2, WalkIsSum
      <3> DEFINE low == SearchedLength(circ_buf)[k]
      <3>4. pos - low \in Nat
        <4>1. low <= pos /\ low \in Nat /\ pos \in Nat
          BY <2>0, <3>1, <3>3
        <4> HIDE DEF low, pos
        <4> QED
          BY <4>1
      <3>5. found.slot \in Slot /\ found.byte \in Nat
        BY <3>1, <3>3, <3>4
      <3>6. Goes(t, "r_size", locals, at)
        BY <1>6, <2>1, <2>3, GotoGoes DEF ReadFind
      <3>7. locals \in ReadFrame /\ locals.slot \in Slot /\ locals.byte \in Nat
        <4> DEFINE slot == found.slot
                   byte == found.byte
        <4>1. slot \in Slot /\ slot \in Int /\ byte \in Nat /\ byte \in Int
          BY <3>5, BufferAssumption DEF Slot
        <4> HIDE DEF slot, byte
        <4>2. LET l == [fr EXCEPT !.slot = slot, !.byte = byte]
              IN  l \in ReadFrame /\ l.slot = slot /\ l.byte = byte
          BY <1>4, <4>1 DEF ReadFrame
        <4> QED
          BY <4>1, <4>2 DEF slot, byte
      <3> HIDE DEF locals
      <3>8. LocalsOf("r_size", locals, at)
        BY <1>4, <3>7 DEF LocalsOf, Reading
      <3> QED
        BY <1>3, <3>6, <3>8, GoesLocals
    <2> QED
      BY <2>2, <2>3
  <1>7. CASE ReadSize(t)
    <2> DEFINE rest == ToUnsigned(circ_buf.entry[fr.slot].size - fr.byte)
               n == IF rest < fr.count THEN rest ELSE fr.count
               locals == [fr EXCEPT !.n = n]
    <2>1. f_pos' = f_pos /\ pc[t] = "r_size"
      BY <1>7 DEF ReadSize
    <2>2. circ_buf.entry[fr.slot].size - fr.byte \in Int
      BY <1>1, <1>4, <2>1 DEF Entry
    <2>3. rest \in Nat
      BY <2>2, Unsigned, DriverAssumption
    <2>4. Goes(t, "r_buffptr", locals, at)
      BY <1>7, <2>1, GotoGoes DEF ReadSize
    <2> HIDE DEF rest
    <2>5. n \in Nat
      BY <1>5, <2>3
    <2> HIDE DEF n
    <2>6. locals \in ReadFrame /\ locals.slot \in Slot /\ locals.byte \in Nat
      BY <1>4, <2>1, <2>5 DEF ReadFrame
    <2> HIDE DEF locals
    <2>7. LocalsOf("r_buffptr", locals, at)
      BY <1>4, <2>6 DEF LocalsOf, Reading
    <2> QED
      BY <1>3, <2>4, <2>7, GoesLocals
  <1>8. CASE ReadBuffptr(t)
    <2> DEFINE p == circ_buf.entry[fr.slot].buffptr
               locals == [fr EXCEPT !.buffptr = p]
    <2>1. f_pos' = f_pos /\ pc[t] = "r_buffptr"
      BY <1>8 DEF ReadBuffptr
    <2>2. p \in Ptr \cup {NULL}
      BY <1>1, <1>4, <2>1 DEF Entry
    <2>3. Goes(t, "r_copy", locals, at)
      BY <1>8, <2>1, GotoGoes DEF ReadBuffptr
    <2> HIDE DEF p
    <2>4. locals \in ReadFrame /\ locals.slot \in Slot /\ locals.byte \in Nat
      BY <1>4, <2>1, <2>2 DEF ReadFrame
    <2> HIDE DEF locals
    <2>5. LocalsOf("r_copy", locals, at)
      BY <1>4, <2>4 DEF LocalsOf, Reading
    <2> QED
      BY <1>3, <2>3, <2>5, GoesLocals
  <1>10. ASSUME NEW reply \in Reply, NEW pos \in Int, Goto(t, "ret", reply),
                f_pos' = [f_pos EXCEPT ![t] = pos]
         PROVE  Locals'
    <2>1. /\ pc \in [Thread -> Location] /\ f_pos \in [Thread -> Int]
          /\ DOMAIN frame = Thread
      BY DEF Inv, SharedTypeOK, Locals, Control
    <2>2. frame' = [u \in Thread |-> IF u = t THEN reply ELSE frame[u]]
      BY <1>10, <2>1 DEF Goto
    <2>3. f_pos' \in [Thread -> Int] /\ \A u \in Thread : f_pos'[u] = IF u = t THEN pos ELSE f_pos[u]
      BY <1>10, <2>1
    <2>4. \A u \in Thread : pc'[u] = IF u = t THEN "ret" ELSE pc[u]
      BY <1>10, <2>1 DEF Goto
    <2>5. \A u \in Thread : frame'[u] = IF u = t THEN reply ELSE frame[u]
      BY <2>2
    <2>6. frame' = [u \in Thread |-> frame'[u]]
      BY <2>2, <2>5
    <2>7. Goes(t, "ret", reply, pos)
      BY <2>3, <2>4, <2>5, <2>6 DEF Goes
    <2>8. LocalsOf("ret", reply, pos)
      BY DEF LocalsOf, Reading
    <2> QED
      BY <1>3, <2>7, <2>8, GoesLocals
  <1>9. CASE ReadCopy(t)
    <2> DEFINE pos == Advanced(t)
    <2>1. pc[t] = "r_copy" /\ f_pos' = [f_pos EXCEPT ![t] = pos]
      BY <1>9 DEF ReadCopy
    <2>2. Copied(t) \in Seq(Byte) \cup {Garbage}
      BY <1>4, <2>1, CopiedType
    <2>3. PICK data \in Seq(Byte) \cup {Garbage} :
            Goto(t, "ret", Result("read", fr.count, fr.n, data))
      BY <1>9, <2>2 DEF ReadCopy
    <2>4. Result("read", fr.count, fr.n, data) \in Reply
      BY <1>5, ReplyType
    <2>5. f_pos[t] + frame[t].n \in Int
      BY <1>4, <1>5
    <2>6. pos \in Int
      BY <2>5, Signed DEF Advanced
    <2> HIDE DEF pos
    <2> QED
      BY <1>10, <2>1, <2>3, <2>4, <2>6
  <1>11. CASE ReadFindOutside(t)
    <2>1. CASE Goto(t, "dead", NoFrame) /\ UNCHANGED f_pos
      <3>1. Goes(t, "dead", NoFrame, at)
        BY <2>1, GotoGoes
      <3>2. LocalsOf("dead", NoFrame, at)
        BY DEF LocalsOf, Reading
      <3> QED
        BY <1>3, <3>1, <3>2, GoesLocals
    <2>2. ASSUME NEW n \in 0 .. fr.count, Goto(t, "ret", Result("read", fr.count, n, Garbage)),
                 f_pos' = [f_pos EXCEPT ![t] = ToSigned(at + n)]
          PROVE  Locals'
      <3>1. n \in Nat /\ at + n \in Int
        BY <1>4, <1>5
      <3>2. Result("read", fr.count, n, Garbage) \in Reply
        BY <1>5, <3>1, ReplyType
      <3>3. ToSigned(at + n) \in Int
        BY <3>1, Signed
      <3> QED
        BY <1>10, <2>2, <3>2, <3>3
    <2> QED
      BY <1>11, <2>1, <2>2 DEF ReadFindOutside
  <1> QED
    BY <1>6, <1>7, <1>8, <1>9, <1>11 DEF ReadStep


(* Interrupted waits, returns, and the steps of aesd_write and aesd_ioctl. *)
LEMMA LockedLocals ==
  ASSUME Inv, Locals, NEW t \in Thread,
         \/ WriteLock(t) \/ SeekLock(t) \/ LockInterrupted(t) \/ Return(t)
         \/ WriteStep(t) \/ SeekStep(t)
  PROVE  Locals'
  <1> DEFINE at == f_pos[t]
  <1>1. f_pos' = f_pos
    BY AddRestMoves
    DEF WriteLock, SeekLock, LockInterrupted, Return, WriteStep, WriteStore, WriteCopyFault,
           WriteAllocFault, AddStep, AddRest, AddBuffptr, WriteFree, WriteUnlock,
           SeekStep, SeekReject, SeekCopy, SeekCopyFault, SeekAllocFault
  <1>2. overlap' \subseteq Thread
    <2>1. overlap' \in {overlap, overlap \ {t}, overlap \cup {u \in Thread \ {t} : pc[u] # Idle}}
      BY AddRestMoves
      DEF WriteLock, SeekLock, LockInterrupted, Return, WriteStep, WriteStore, WriteCopyFault,
             WriteAllocFault, AddStep, AddRest, AddBuffptr, WriteFree, WriteUnlock,
             SeekStep, SeekReject, SeekCopy, SeekCopyFault, SeekAllocFault, Disturb
    <2> QED
      BY <2>1 DEF Locals
  <1>3. ASSUME NEW c \in {"write", "ioctl", "error"}, NEW a \in Nat, NEW o \in Nat,
               NEW d \in Seq(Byte) \cup {Garbage}, Goto(t, "ret", Result(c, a, o, d))
        PROVE  Locals'
    <2> DEFINE reply == Result(c, a, o, d)
    <2>1. reply \in Reply /\ Goes(t, "ret", reply, at)
      BY <1>1, <1>3, ReplyType, GotoGoes
    <2> HIDE DEF reply
    <2>2. LocalsOf("ret", reply, at)
      BY <2>1 DEF LocalsOf, Reading
    <2> QED
      BY <1>2, <2>1, <2>2, GoesLocals
  <1>4. ASSUME Goto(t, "ret", Result("error", 0, 0, << >>)) PROVE Locals'
    BY <1>3, <1>4, EmptySeq
  <1>5. ASSUME NEW where \in {Idle, "dead"}, Goto(t, where, NoFrame) PROVE Locals'
    <2>1. Goes(t, where, NoFrame, at)
      BY <1>1, <1>5, GotoGoes
    <2>2. LocalsOf(where, NoFrame, at)
      BY DEF LocalsOf, Reading
    <2> QED
      BY <1>2, <2>1, <2>2, GoesLocals
  <1>6. ASSUME NEW where \in WriteLocation, NEW locals, Goes(t, where, locals, at) PROVE Locals'
    <2>1. LocalsOf(where, locals, at)
      BY DEF LocalsOf, WriteLocation, Publishing, Reading
    <2> QED
      BY <1>2, <1>6, <2>1, GoesLocals
  <1>7. CASE WriteLock(t)
    <2>1. Goes(t, "w_store", frame[t], at)
      BY <1>1, <1>7, GotoGoes DEF WriteLock
    <2> QED
      BY <1>6, <2>1 DEF WriteLocation
  <1>8. CASE SeekLock(t)
    <2>1. Goes(t, "s_copy", frame[t], at) /\ pc[t] = "s_lock"
      BY <1>1, <1>8, GotoGoes DEF SeekLock
    <2>2. LocalsOf("s_copy", frame[t], at)
      BY <2>1 DEF Locals, LocalsOf, Reading
    <2> QED
      BY <1>2, <2>1, <2>2, GoesLocals
  <1>9. CASE LockInterrupted(t)
    BY <1>4, <1>9 DEF LockInterrupted
  <1>10. CASE Return(t)
    BY <1>5, <1>10 DEF Return
  <1>11. CASE WriteStep(t)
    <2>1. CASE WriteStore(t)
      <3>1. PICK where \in {"add_buffptr", "w_unlock"} : pc' = [pc EXCEPT ![t] = where] /\ frame' = frame
        BY <2>1 DEF WriteStore
      <3>2. Goes(t, where, frame[t], at) /\ where \in WriteLocation
        BY <1>1, <3>1, GotoGoes DEF WriteLocation
      <3> QED
        BY <1>6, <3>2
    <2>2. CASE WriteCopyFault(t)
      BY <1>4, <2>2 DEF WriteCopyFault
    <2>3. CASE WriteAllocFault(t)
      BY <1>4, <1>5, <2>3 DEF WriteAllocFault
    <2>4. CASE AddBuffptr(t)
      <3>1. Goes(t, "add_size", [frame[t] EXCEPT !.to_free = DisplacedBuffptr(circ_buf)], at)
        BY <1>1, <2>4, GotoGoes DEF AddBuffptr
      <3> QED
        BY <1>6, <3>1 DEF WriteLocation, Publishing
    <2>5. CASE AddRest(t) \/ WriteFree(t)
      <3>1. PICK where \in Publishing \cup {"w_free", "w_unlock"} :
              pc' = [pc EXCEPT ![t] = where] /\ frame' = frame
        BY <2>5, AddRestMoves DEF WriteFree
      <3>2. Goes(t, where, frame[t], at) /\ where \in WriteLocation
        BY <1>1, <3>1, GotoGoes DEF WriteLocation, Publishing
      <3> QED
        BY <1>6, <3>2
    <2>6. CASE WriteUnlock(t)
      <3>1. frame[t].chunk \in Seq(Byte)
        BY <2>6 DEF WriteUnlock, Inv, Control, WriteLocation, WriteFrame
      <3>2. Len(frame[t].chunk) \in Nat
        BY <3>1, LenProperties
      <3> QED
        BY <1>3, <2>6, <3>2, EmptySeq DEF WriteUnlock
    <2> QED
      BY <1>11, <2>1, <2>2, <2>3, <2>4, <2>5, <2>6 DEF WriteStep, AddStep, AddRest
  <1>12. CASE SeekStep(t)
    <2>1. pc[t] = "s_copy" /\ pc[t] \in Critical
      BY <1>12 DEF SeekStep, SeekReject, SeekCopy, SeekCopyFault, SeekAllocFault, Critical
    <2>2. frame[t].write_cmd \in Nat /\ frame[t].offset \in Nat
      BY <2>1 DEF Locals, LocalsOf, SeekFrame
    <2>3. Sound(circ_buf)
      BY <2>1, Holder DEF Inv, Memory, Publishing
    <2>4. CASE SeekReject(t)
      BY <1>4, <2>4 DEF SeekReject
    <2>5. CASE SeekCopy(t)
      <3>1. frame[t].write_cmd <= MAX_OPS
        BY <2>5 DEF SeekCopy
      <3>2. SpecialBuffer(frame[t].write_cmd, frame[t].offset) \in Seq(Byte)
        BY <2>2, <2>3, <3>1, SpecialBufferType
      <3>3. \E data \in Seq(Byte) \cup {Garbage} :
              Goto(t, "ret", Result("ioctl", frame[t].write_cmd, frame[t].offset, data))
        BY <2>5, <3>2 DEF SeekCopy
      <3> QED
        BY <1>3, <2>2, <3>3
    <2>6. CASE SeekCopyFault(t)
      BY <1>3, <1>4, <2>2, <2>6 DEF SeekCopyFault
    <2>7. CASE SeekAllocFault(t)
      BY <1>5, <2>7 DEF SeekAllocFault
    <2> QED
      BY <1>12, <2>4, <2>5, <2>6, <2>7 DEF SeekStep
  <1> QED
    BY <1>7, <1>8, <1>9, <1>10, <1>11, <1>12

(* Every step keeps the types of the locals. *)
LEMMA NextLocals ==
  ASSUME Inv, Locals, [Next]_vars
  PROVE  Locals'
  <1>1. ASSUME UNCHANGED <<f_pos, pc, frame, overlap>> PROVE Locals'
    BY <1>1 DEF Locals, LocalsOf
  <1>2. CASE \/ UNCHANGED vars \/ aesd_init_module \/ RegisterFault \/ SetupAllocFault
             \/ aesd_cleanup_module
    BY <1>1, <1>2
    DEF vars, aesd_init_module, RegisterFault, SetupAllocFault, aesd_cleanup_module
  <1>3. ASSUME NEW t \in Thread, aesd_release(t) PROVE Locals'
    BY <1>1, <1>3 DEF aesd_release
  <1>4. ASSUME NEW t \in Thread, aesd_open(t) PROVE Locals'
    <2>1. UNCHANGED <<pc, frame, overlap>> /\ f_pos' = [f_pos EXCEPT ![t] = 0] /\ pc[t] = Idle
      BY <1>4 DEF aesd_open
    <2>2. Goes(t, pc[t], frame[t], 0)
      BY <2>1 DEF Goes, Locals
    <2>3. LocalsOf(pc[t], frame[t], 0)
      BY <2>1 DEF Locals, LocalsOf, Reading
    <2> QED
      BY <2>1, <2>2, <2>3, GoesLocals DEF Locals
  <1> QED
    BY <1>2, <1>3, <1>4, CallLocals, ReadLocals, LockedLocals DEF Next, Step

(* The driver starts with no call in progress. *)
LEMMA InitLocals == Init => Locals
  <1> SUFFICES ASSUME Init PROVE Locals
    OBVIOUS
  <1>1. f_pos \in [Thread -> Int] /\ overlap \subseteq Thread
    BY DEF Init
  <1>2. \A t \in Thread : pc[t] = Idle /\ frame[t] = NoFrame
    BY DEF Init
  <1>3. frame = [t \in Thread |-> frame[t]]
    BY <1>2 DEF Init
  <1>4. \A t \in Thread : LocalsOf(pc[t], frame[t], f_pos[t])
    BY <1>2 DEF LocalsOf, Reading
  <1> QED
    BY <1>1, <1>3, <1>4 DEF Locals

(* Every step keeps the type of lost. *)
LEMMA NextStructs ==
  ASSUME lost \subseteq Struct, [Next]_vars
  PROVE  lost' \subseteq Struct
  <1>1. ASSUME NEW t \in Thread,
               \/ aesd_open(t) \/ aesd_release(t)
               \/ Call(t) \/ WriteLock(t) \/ SeekLock(t) \/ LockInterrupted(t) \/ Step(t)
        PROVE  lost' \subseteq Struct
    <2>1. CASE ReadStep(t) \/ Return(t) \/ Call(t)
      BY <2>1
      DEF ReadStep, ReadFind, ReadFindOutside, ReadSize, ReadBuffptr, ReadCopy, Return, Call,
          WriteCall, ReadTotal, aesd_llseek, SeekCall, dev
    <2>2. CASE WriteStep(t)
      <3>1. CASE AddRest(t)
        BY <3>1, AddRestMoves
      <3> QED
        BY <2>2, <3>1
        DEF WriteStep, WriteStore, WriteCopyFault, WriteAllocFault, AddStep, AddRest,
            AddBuffptr, WriteFree, WriteUnlock, Struct
    <2>3. CASE SeekStep(t)
      BY <2>3
      DEF SeekStep, SeekReject, SeekCopy, SeekCopyFault, SeekAllocFault, dev, Struct
    <2> QED
      BY <1>1, <2>1, <2>2, <2>3
      DEF aesd_open, aesd_release, WriteLock, SeekLock, LockInterrupted, Step, dev
  <1>2. CASE aesd_init_module \/ RegisterFault \/ SetupAllocFault \/ aesd_cleanup_module
    BY <1>2 DEF aesd_init_module, RegisterFault, SetupAllocFault, aesd_cleanup_module, Struct
  <1> QED
    BY <1>1, <1>2 DEF Next, vars, dev

(* Everything the driver keeps has its type in every reachable state, for  *)
(* any number of threads and slots and whatever fails.  An offset is one   *)
(* past the array between its increment and its wrap only; and although an *)
(* unlocked read may run then and between any two other assignments of     *)
(* add_entry, the slot its search finds is a slot of the array and its     *)
(* byte offset is not negative, unless it starts behind the array.         *)
THEOREM DriverTypeOK == Spec => []TypeOK
  <1>1. Init => Inv /\ Locals /\ lost \subseteq Struct
    <2>1. Init => lost \subseteq Struct
      BY DEF Init
    <2> QED
      BY <2>1, InitInv, InitLocals
  <1>2. (Inv /\ Locals /\ lost \subseteq Struct) /\ [Next]_vars
          => (Inv /\ Locals /\ lost \subseteq Struct)'
    BY NextInv, NextLocals, NextStructs DEF Struct
  <1>3. Inv /\ Locals /\ lost \subseteq Struct => TypeOK
    BY LocalsTypeOK
  <1> QED
    BY <1>1, <1>2, <1>3, PTL DEF Spec


-----------------------------------------------------------------------------
(* What a seek returns. *)

(* The cells of a concatenation, counted from before the first sequence. *)
LEMMA Appended ==
  ASSUME NEW s \in Seq(Byte), NEW p \in Seq(Byte)
  PROVE  /\ s \o p \in Seq(Byte) /\ Len(s \o p) = Len(s) + Len(p)
         /\ \A i \in 1 .. Len(s) : (s \o p)[i] = s[i]
         /\ \A j \in 1 .. Len(p) : (s \o p)[Len(s) + j] = p[j]
  <1> DEFINE m == Len(s)
             n == Len(p)
             c == s \o p
  <1>1. /\ c \in Seq(Byte) /\ Len(c) = m + n
        /\ \A i \in 1 .. m + n : c[i] = IF i <= m THEN s[i] ELSE p[i - m]
    BY ConcatProperties
  <1>2. m \in Nat /\ n \in Nat
    BY LenProperties
  <1> HIDE DEF m, n, c
  <1>3. \A i \in 1 .. m : i \in 1 .. m + n /\ i <= m
    BY <1>2
  <1>4. \A j \in 1 .. n : m + j \in 1 .. m + n /\ ~ (m + j <= m) /\ (m + j) - m = j
    BY <1>2
  <1>5. /\ \A i \in 1 .. m : c[i] = s[i]
        /\ \A j \in 1 .. n : c[m + j] = p[j]
    BY <1>1, <1>3, <1>4
  <1> QED
    BY <1>1, <1>5 DEF m, n, c

(* A seek to an existing byte of an existing command gathers everything    *)
(* from that byte on: the loop of aesd_ioctl stops neither too early nor   *)
(* too late, although it compares what it has sent with the whole content  *)
(* less the offset.                                                        *)
LEMMA SeekGathers ==
  ASSUME Sound(circ_buf), NEW cmd \in Nat, cmd < Count(circ_buf), NEW offset \in Nat,
         offset < Len(Blocks(heap, circ_buf)[cmd + 1])
  PROVE  /\ SearchedLength(circ_buf)[cmd] + offset \in 0 .. SearchedLength(circ_buf)[MAX_OPS]
         /\ IsRest(SpecialBuffer(cmd, offset), SearchedLength(circ_buf)[cmd] + offset,
                   SearchedLength(circ_buf), Blocks(heap, circ_buf))
  <1> DEFINE len == SearchedLength(circ_buf)
             B == Blocks(heap, circ_buf)
             start == len[cmd] + offset
             all == len[MAX_OPS]
             total == all - offset
             piece == [k \in 1 .. MAX_OPS |->
                         Piece(circ_buf.entry[ScanSlot(circ_buf, k - 1)],
                               IF k - 1 = cmd THEN offset ELSE 0)]
  <1>1. /\ circ_buf \in Buffer /\ WellFormed(circ_buf)
        /\ Lengths(len, B, MAX_OPS) /\ B \in Pieces(MAX_OPS, Byte)
        /\ \A i, j \in 0 .. MAX_OPS : i <= j => len[i] <= len[j]
    BY BlocksLengths
  <1>2. Count(circ_buf) \in 0 .. MAX_OPS
    BY <1>1, ContentsSeq
  <1>3. /\ cmd \in 0 .. MAX_OPS /\ cmd # MAX_OPS /\ cmd + 1 \in 1 .. MAX_OPS /\ cmd + 1 \in 0 .. MAX_OPS
        /\ (cmd + 1) - 1 = cmd /\ MAX_OPS \in 0 .. MAX_OPS /\ MAX_OPS \in Nat
    BY <1>2, BufferAssumption
  <1>4. /\ len \in [0 .. MAX_OPS -> Nat] /\ len[0] = 0
        /\ \A k \in 1 .. MAX_OPS : len[k] = len[k - 1] + Len(B[k])
    BY <1>1 DEF Lengths
  <1>5. get_length_of_all_entries_in_buffer(circ_buf) = len[MAX_OPS]
    BY <1>1, LengthIsSearched
  <1>6. PICK sent \in [0 .. MAX_OPS -> Seq(Byte)] :
          /\ SpecialBuffer(cmd, offset) = sent[MAX_OPS]
          /\ \A k \in 0 .. MAX_OPS : k <= cmd => sent[k] = << >>
          /\ \A k \in 1 .. MAX_OPS : k > cmd =>
               /\ Len(sent[k - 1]) >= total => sent[k] = sent[k - 1]
               /\ ~ (Len(sent[k - 1]) >= total) =>
                    sent[k] = sent[k - 1] \o
                      Piece(circ_buf.entry[ScanSlot(circ_buf, k - 1)],
                            IF k - 1 = cmd THEN offset ELSE 0)
    <2> DEFINE t == get_length_of_all_entries_in_buffer(circ_buf) - offset
               first == IF cmd = MAX_OPS THEN 0 ELSE cmd
    <2>1. first = cmd /\ t = total
      BY <1>3, <1>5
    <2>2. \E sent \in [0 .. MAX_OPS -> Seq(Byte)] :
            /\ SpecialBuffer(cmd, offset) = sent[MAX_OPS]
            /\ \A k \in 0 .. MAX_OPS : k <= first => sent[k] = << >>
            /\ \A k \in 1 .. MAX_OPS : k > first =>
                 /\ Len(sent[k - 1]) >= t => sent[k] = sent[k - 1]
                 /\ ~ (Len(sent[k - 1]) >= t) =>
                      sent[k] = sent[k - 1] \o
                        Piece(circ_buf.entry[ScanSlot(circ_buf, k - 1)],
                              IF k - 1 = first THEN offset ELSE 0)
      BY <1>3, SpecialBufferSent
    <2> HIDE DEF t, first, total
    <2> QED
      BY <2>1, <2>2
  <1>7. \A k \in 1 .. MAX_OPS : k > cmd =>
          \/ Len(sent[k - 1]) >= total /\ sent[k] = sent[k - 1]
          \/ ~ (Len(sent[k - 1]) >= total) /\ sent[k] = sent[k - 1] \o piece[k]
    BY <1>6
  <1>8. \A k \in 1 .. MAX_OPS : /\ B[k] \in Seq(Byte) /\ Len(B[k]) \in Nat
                                /\ k \in 0 .. MAX_OPS /\ k - 1 \in 0 .. MAX_OPS
    <2> TAKE k \in 1 .. MAX_OPS
    <2>1. B[k] \in Seq(Byte)
      BY <1>1 DEF Pieces
    <2> QED
      BY <1>3, <2>1, LenProperties
  <1>9. ASSUME NEW k \in 1 .. MAX_OPS
        PROVE  LET from == IF k - 1 = cmd THEN offset ELSE 0
               IN  /\ piece[k] \in Seq(Byte)
                   /\ Len(piece[k]) = IF from < Len(B[k]) THEN Len(B[k]) - from ELSE 0
                   /\ \A j \in 1 .. Len(piece[k]) : piece[k][j] = B[k][from + j]
    <2> DEFINE from == IF k - 1 = cmd THEN offset ELSE 0
    <2>1. from \in Nat
      OBVIOUS
    <2>2. piece[k] = Piece(circ_buf.entry[ScanSlot(circ_buf, k - 1)], from)
      OBVIOUS
    <2> HIDE DEF from, piece
    <2>3. IsBehind(piece[k], B[k], from)
      BY <2>1, <2>2, PieceBytes
    <2> QED
      BY <2>3 DEF from, IsBehind
  <1> HIDE DEF len, B, piece
  <1>10. offset < Len(B[cmd + 1])
    BY DEF B
  <1>11. start \in Nat /\ start <= all /\ len[cmd] \in Nat /\ all \in Nat
         /\ len[cmd + 1] \in Nat /\ len[cmd + 1] <= all /\ total \in Int
         /\ len[cmd + 1] = len[cmd] + Len(B[cmd + 1])
    <2> DEFINE n == Len(B[cmd + 1])
               x == len[cmd]
               y == len[cmd + 1]
    <2>1. n \in Nat /\ x \in Nat /\ y \in Nat /\ all \in Nat /\ y = x + n /\ y <= all /\ offset < n
      <3>1. n \in Nat
        BY <1>3, <1>8
      <3>2. x \in Nat /\ y \in Nat /\ all \in Nat
        BY <1>3, <1>4
      <3>3. y = x + n
        BY <1>3, <1>4
      <3>4. \A i, j \in 0 .. MAX_OPS : i <= j => len[i] <= len[j]
        BY <1>1 DEF len
      <3>5. y <= all
        BY <1>3, <3>4
      <3> QED
        BY <1>10, <3>1, <3>2, <3>3, <3>5
    <2> HIDE DEF n, x, y, all
    <2>2. x + offset \in Nat /\ x + offset <= all /\ all - offset \in Int
      BY <2>1
    <2> QED
      BY <2>1, <2>2 DEF n, x, y, all
  <1> DEFINE Good(k) ==
               /\ Len(sent[k]) = len[k] - start
               /\ \A i \in 1 .. k : \A j \in 1 .. Len(B[i]) :
                    len[i - 1] + j > start => sent[k][(len[i - 1] + j) - start] = B[i][j]
             T == {m \in Nat : cmd + 1 + m <= MAX_OPS => Good(cmd + 1 + m)}
  <1>12. Good(cmd + 1)
    <2> DEFINE n == Len(B[cmd + 1])
               p == piece[cmd + 1]
               x == len[cmd]
    <2>1. n \in Nat /\ offset < n /\ x \in Nat /\ len[cmd + 1] = x + n /\ x + n <= all
      BY <1>3, <1>8, <1>10, <1>11
    <2>2. p \in Seq(Byte) /\ Len(p) = n - offset /\ \A j \in 1 .. n - offset : p[j] = B[cmd + 1][offset + j]
      BY <1>3, <1>9, <2>1
    <2>3. sent[cmd] = << >> /\ Len(sent[cmd]) = 0 /\ cmd <= cmd
      BY <1>3, <1>6, EmptySeq
    <2>4. total > 0
      <3> HIDE DEF n, x, all
      <3> QED
        BY <1>11, <2>1
    <2>5. ~ (Len(sent[cmd]) >= total)
      <3> HIDE DEF total
      <3> QED
        BY <1>11, <2>3, <2>4
    <2>6. cmd + 1 > cmd
      OBVIOUS
    <2>7. sent[cmd + 1] = << >> \o p
      BY <1>3, <1>7, <2>3, <2>5, <2>6
    <2> HIDE DEF p, n, x, start
    <2>8. sent[cmd + 1] = p
      BY <2>2, <2>7, ConcatEmptySeq
    <2>9. Len(sent[cmd + 1]) = len[cmd + 1] - start
      <3>1. x + n - start = n - offset
        BY <2>1 DEF start, x
      <3>2. Len(sent[cmd + 1]) = n - offset
        BY <2>2, <2>8
      <3>3. len[cmd + 1] - start = n - offset
        <4> DEFINE y == len[cmd + 1]
        <4>1. y = x + n
          BY <2>1
        <4> HIDE DEF y
        <4>2. y - start = n - offset
          BY <1>11, <2>1, <3>1, <4>1
        <4> QED
          BY <4>2 DEF y
      <3> QED
        BY <3>2, <3>3
    <2>10. ASSUME NEW i \in 1 .. cmd + 1, NEW j \in 1 .. Len(B[i]), len[i - 1] + j > start
           PROVE  sent[cmd + 1][(len[i - 1] + j) - start] = B[i][j]
      <3> DEFINE y == len[i - 1]
                 h == Len(B[i])
      <3>0. i \in 1 .. MAX_OPS
        BY <1>3
      <3>1. h \in Nat /\ y \in Nat /\ len[i] = y + h /\ len[i] \in Nat
        BY <1>4, <1>8, <3>0
      <3>2. i = cmd + 1
        <4> SUFFICES ASSUME i # cmd + 1 PROVE FALSE
          OBVIOUS
        <4>1. i \in 0 .. MAX_OPS /\ i <= cmd
          BY <1>3, <3>0
        <4>2. len[i] <= x
          BY <1>1, <1>3, <4>1 DEF x, len
        <4>3. y + j > start
          BY <2>10
        <4>4. start = x + offset
          BY DEF start, x
        <4> HIDE DEF y, h
        <4> QED
          BY <2>1, <3>1, <4>2, <4>3, <4>4 DEF h
      <3>3. y = x
        BY <1>3, <3>2 DEF x
      <3>4. j \in 1 .. n
        BY <3>2 DEF n
      <3>5. x + j > x + offset /\ (y + j) - start = j - offset
        BY <2>1, <2>10, <3>3, <3>4 DEF start, x
      <3>6. j - offset \in 1 .. n - offset /\ offset + (j - offset) = j
        BY <2>1, <3>4, <3>5
      <3> QED
        BY <2>2, <2>8, <3>2, <3>5, <3>6
    <2> QED
      BY <2>9, <2>10
  <1>13. 0 \in T
    <2>1. cmd + 1 + 0 = cmd + 1
      OBVIOUS
    <2> HIDE DEF Good
    <2> QED
      BY <1>12, <2>1

  <1>14. ASSUME NEW k \in 1 .. MAX_OPS - 1, k > cmd, Good(k) PROVE Good(k + 1)
    <2> DEFINE s == sent[k]
               p == piece[k + 1]
               x == len[k]
               n == Len(B[k + 1])
    <2>1. /\ k + 1 \in 1 .. MAX_OPS /\ (k + 1) - 1 = k /\ k + 1 > cmd /\ k # cmd
          /\ k \in 0 .. MAX_OPS /\ k + 1 \in 0 .. MAX_OPS /\ cmd <= k /\ k <= MAX_OPS
          /\ k + 1 <= MAX_OPS /\ cmd + 1 <= k
      BY <1>3, <1>14
    <2>2. /\ n \in Nat /\ x \in Nat /\ len[k + 1] = x + n /\ x + n <= all /\ x <= all
          /\ len[cmd] <= x /\ len[cmd + 1] <= x
      BY <1>1, <1>3, <1>4, <1>8, <2>1 DEF len
    <2>3. s \in Seq(Byte) /\ Len(s) = x - start
      BY <1>6, <1>14, <2>1
    <2>4. p \in Seq(Byte) /\ Len(p) = n /\ \A j \in 1 .. n : p[j] = B[k + 1][j]
      <3> DEFINE m == Len(p)
      <3>1. p \in Seq(Byte) /\ m = (IF 0 < n THEN n - 0 ELSE 0) /\ \A j \in 1 .. m : p[j] = B[k + 1][0 + j]
        BY <1>9, <2>1
      <3>2. \A j \in 1 .. n : 0 + j = j
        OBVIOUS
      <3> HIDE DEF p, n, m
      <3>3. m = n
        BY <2>2, <3>1
      <3> QED
        BY <3>1, <3>2, <3>3 DEF m
    <2>5. x - start \in Nat /\ start <= x
      <3> DEFINE y == len[cmd]
                 z == len[cmd + 1]
                 h == Len(B[cmd + 1])
      <3>1. z = y + h /\ offset < h /\ z <= x /\ start = y + offset
            /\ y \in Nat /\ h \in Nat /\ x \in Nat /\ z \in Nat
        BY <1>3, <1>8, <1>10, <1>11, <2>2
      <3> HIDE DEF x, start, y, z, h
      <3> QED
        BY <3>1
    <2>6. \/ Len(s) >= total /\ sent[k + 1] = s
          \/ sent[k + 1] = s \o p
      BY <1>7, <2>1
    <2>7. /\ Len(sent[k + 1]) = (x - start) + n
          /\ \A q \in 1 .. x - start : sent[k + 1][q] = s[q]
          /\ \A j \in 1 .. n : sent[k + 1][(x - start) + j] = p[j]
      <3>1. CASE sent[k + 1] = s \o p
        <4> DEFINE m == x - start
        <4>1. m \in Nat /\ Len(s) = m
          BY <2>3, <2>5
        <4> HIDE DEF m, n, s, p
        <4>2. /\ Len(s \o p) = m + n
              /\ \A i \in 1 .. m : (s \o p)[i] = s[i]
              /\ \A j \in 1 .. n : (s \o p)[m + j] = p[j]
          <5>1. /\ Len(s \o p) = Len(s) + Len(p)
                /\ \A i \in 1 .. Len(s) : (s \o p)[i] = s[i]
                /\ \A j \in 1 .. Len(p) : (s \o p)[Len(s) + j] = p[j]
            BY <2>3, <2>4, Appended
          <5> QED
            BY <2>4, <4>1, <5>1, Zenon
        <4> QED
          BY <3>1, <4>2 DEF m
      <3>2. CASE Len(s) >= total /\ sent[k + 1] = s
        <4>1. n = 0
          <5> DEFINE y == len[cmd]
                     l == Len(s)
          <5>1. l >= total /\ l = x - start /\ start = y + offset /\ total = all - offset /\ y \in Nat
            BY <1>11, <2>3, <3>2
          <5> HIDE DEF l, y, x, n, all, start, total
          <5> QED
            BY <1>11, <2>2, <5>1
        <4>2. Len(s) = (x - start) + n
          <5> DEFINE m == x - start
          <5>1. m \in Nat
            BY <2>5
          <5>2. Len(s) = m
            BY <2>3
          <5> HIDE DEF m, n
          <5>3. m + n = m
            BY <4>1, <5>1
          <5> QED
            BY <5>2, <5>3 DEF m
        <4>3. 1 .. n = {}
          BY <4>1
        <4> QED
          BY <3>2, <4>2, <4>3
      <3> QED
        BY <2>6, <3>1, <3>2
    <2> HIDE DEF s, p, x, n
    <2>8. Len(sent[k + 1]) = len[k + 1] - start
      <3>1. (x - start) + n = (x + n) - start
        BY <1>11, <2>2
      <3> QED
        BY <2>2, <2>7, <3>1
    <2>9. ASSUME NEW i \in 1 .. k + 1, NEW j \in 1 .. Len(B[i]), len[i - 1] + j > start
          PROVE  sent[k + 1][(len[i - 1] + j) - start] = B[i][j]
      <3> DEFINE y == len[i - 1]
                 h == Len(B[i])
                 q == (y + j) - start
      <3>0. i \in 1 .. MAX_OPS
        BY <1>3, <2>1
      <3>1. h \in Nat /\ y \in Nat /\ len[i] = y + h /\ len[i] \in Nat
        BY <1>4, <1>8, <3>0
      <3>2. CASE i = k + 1
        <4>1. y = x /\ h = n
          BY <2>1, <3>2 DEF x, n
        <4>2. q = (x - start) + j /\ j \in 1 .. n
          <5>1. j \in 1 .. n /\ q = (x + j) - start
            BY <4>1
          <5>2. x \in Nat /\ n \in Nat /\ start \in Nat
            BY <1>11, <2>2
          <5> HIDE DEF q, y, h, x, n, start
          <5> QED
            BY <5>1, <5>2
        <4>3. sent[k + 1][(x - start) + j] = p[j] /\ p[j] = B[k + 1][j]
          BY <2>4, <2>7, <4>2
        <4> QED
          BY <3>2, <4>2, <4>3
      <3>3. CASE i # k + 1
        <4>1. i \in 1 .. k /\ i <= k /\ i \in 0 .. MAX_OPS
          BY <2>1, <3>0, <3>3
        <4>2. len[i] <= x
          BY <1>1, <2>1, <4>1 DEF x, len
        <4>3. q \in 1 .. x - start
          <5>1. y + j > start /\ j \in 1 .. h /\ q = (y + j) - start
            BY <2>9
          <5> HIDE DEF q, y, h, start
          <5> QED
            BY <1>11, <2>2, <3>1, <4>2, <5>1
        <4>4. s[q] = B[i][j]
          BY <1>14, <2>9, <4>1 DEF s
        <4> QED
          BY <2>7, <4>3, <4>4
      <3> QED
        BY <3>2, <3>3
    <2> QED
      BY <2>8, <2>9
  <1>15. ASSUME NEW m \in Nat, m \in T PROVE m + 1 \in T
    <2> HIDE DEF Good
    <2> SUFFICES ASSUME cmd + 1 + (m + 1) <= MAX_OPS PROVE Good(cmd + 1 + (m + 1))
      OBVIOUS
    <2>1. /\ cmd + 1 + m \in 1 .. MAX_OPS - 1 /\ cmd + 1 + m > cmd /\ cmd + 1 + m <= MAX_OPS
          /\ cmd + 1 + (m + 1) = (cmd + 1 + m) + 1
      BY <1>3
    <2>2. Good(cmd + 1 + m)
      BY <1>15, <2>1
    <2> QED
      BY <1>14, <2>1, <2>2
  <1>16. \A m \in Nat : m \in T
    <2> HIDE DEF T
    <2> QED
      BY <1>13, <1>15, SetInduction
  <1>17. Good(MAX_OPS)
    <2> DEFINE m == MAX_OPS - (cmd + 1)
    <2>1. m \in Nat /\ cmd + 1 + m = MAX_OPS /\ MAX_OPS <= MAX_OPS
      BY <1>3
    <2> HIDE DEF m, Good
    <2>2. m \in T
      BY <1>16, <2>1
    <2>3. Good(cmd + 1 + m)
      BY <2>1, <2>2
    <2> QED
      BY <2>1, <2>3
  <1>18. sent[MAX_OPS] \in Seq(Byte)
    BY <1>3, <1>6
  <1>19. start \in 0 .. all
    BY <1>11
  <1> HIDE DEF T
  <1> QED
    BY <1>6, <1>17, <1>18, <1>19 DEF IsRest, len, B


-----------------------------------------------------------------------------
(* What a step of one thread means to the calls of the others. *)

(* The step of t leaves the others where they are.  A call it does not     *)
(* mark as overlapped sees the circular buffer and the blocks unchanged;   *)
(* entering add_entry marks every call in progress, and a call that begins *)
(* unmarked begins while nobody is in add_entry.                           *)
Apart(t) ==
  /\ \A u \in Thread \ {t} :
       /\ pc'[u] = pc[u] /\ frame'[u] = frame[u] /\ f_pos'[u] = f_pos[u]
       /\ u \notin overlap' => u \notin overlap
       /\ u \notin overlap' /\ pc[u] # Idle =>
            circ_buf' = circ_buf /\ Blocks(heap', circ_buf') = Blocks(heap, circ_buf)
       /\ pc'[t] \in Publishing /\ u \notin overlap' => pc[u] = Idle
  /\ t \notin overlap' /\ pc'[t] # Idle =>
       (t \notin overlap /\ pc[t] # Idle) \/ \A u \in Thread : pc[u] \notin Publishing

(* Growing the read_buf and freeing what was displaced touch no block of   *)
(* an entry.                                                               *)
LEMMA BlocksKept ==
  ASSUME Inv, NEW t \in Thread, WriteStore(t) \/ WriteCopyFault(t) \/ WriteFree(t)
  PROVE  Blocks(heap', circ_buf) = Blocks(heap, circ_buf)
  <1>1. circ_buf \in Buffer /\ circ_buf.entry \in [Slot -> Entry] /\ UNCHANGED circ_buf
    <2>1. pc[t] \in {"w_store", "w_free"} /\ pc[t] \in Critical /\ UNCHANGED circ_buf
      BY DEF WriteStore, WriteCopyFault, WriteFree, Critical
    <2>2. circ_buf \in Buffer
      BY <2>1, Holder DEF Inv, SharedTypeOK
    <2> QED
      BY <2>1, <2>2 DEF Buffer
  <1>2. ASSUME NEW i \in Slot, circ_buf.entry[i].buffptr # NULL
        PROVE  heap'[circ_buf.entry[i].buffptr] = heap[circ_buf.entry[i].buffptr]
    <2>1. CASE WriteStore(t) \/ WriteCopyFault(t)
      <3>1. pc[t] = "w_store" /\ pc[t] \in Critical
        BY <2>1 DEF WriteStore, WriteCopyFault, Critical
      <3>2. Sound(circ_buf) /\ PendingSound(circ_buf)
        BY <3>1, Holder DEF Inv, Memory, Publishing
      <3>3. PendingBytes \in Seq(Byte) /\ Len(PendingBytes) = Pending.size
        BY <3>2, PendingFacts
      <3>4. frame[t].chunk \in Seq(Byte)
        BY <3>1 DEF Inv, Control, WriteLocation, WriteFrame
      <3> DEFINE bytes == PendingBytes \o frame[t].chunk
      <3>5. bytes \in Seq(Byte) /\ Len(bytes) = Pending.size + Len(frame[t].chunk)
        BY <3>3, <3>4
      <3>6. PICK p \in NewBlock :
              \/ /\ heap' = Reallocated(p, bytes)
                 /\ read_buf' = [buffptr |-> p, size |-> Pending.size + Len(frame[t].chunk)]
              \/ /\ heap' = Reallocated(p, PendingBytes)
                 /\ read_buf' = [buffptr |-> p, size |-> Pending.size]
        BY <2>1 DEF WriteStore, WriteCopyFault
      <3> HIDE DEF bytes
      <3>7. PICK stored \in Seq(Byte) :
              heap' = Reallocated(p, stored) /\ read_buf' = [buffptr |-> p, size |-> Len(stored)]
        BY <3>3, <3>5, <3>6
      <3> QED
        BY <1>1, <1>2, <3>2, <3>7, Regrown
    <2>2. CASE WriteFree(t)
      <3>1. pc[t] = "w_free" /\ pc[t] \in Critical
        BY <2>2 DEF WriteFree, Critical
      <3>2. Displaced /\ lock = t
        BY <3>1, Holder DEF Inv, Memory
      <3>3. circ_buf.entry[i].buffptr \in Ptr
        BY <1>1, <1>2 DEF Entry
      <3>4. frame[t].to_free # NULL => circ_buf.entry[i].buffptr # frame[t].to_free
        BY <3>2 DEF Displaced, Foreign
      <3> QED
        BY <1>2, <2>2, <3>3, <3>4 DEF WriteFree
    <2> QED
      BY <2>1, <2>2
  <1> QED
    BY <1>1, <1>2, SameBlocks

(* Every step of a thread is of this kind. *)
LEMMA StepApart ==
  ASSUME Inv, Locals, NEW t \in Thread,
         \/ aesd_open(t) \/ aesd_release(t)
         \/ Call(t) \/ WriteLock(t) \/ SeekLock(t) \/ LockInterrupted(t) \/ Step(t)
  PROVE  Apart(t)
  <1>1. /\ pc \in [Thread -> Location] /\ f_pos \in [Thread -> Int] /\ DOMAIN frame = Thread
        /\ pc[t] \in Location
    BY DEF Inv, SharedTypeOK, Locals, Control
  <1>2. ASSUME NEW where, pc' = [pc EXCEPT ![t] = where], where \notin Publishing,
               \A u \in Thread \ {t} : frame'[u] = frame[u] /\ f_pos'[u] = f_pos[u],
               circ_buf' = circ_buf, Blocks(heap', circ_buf) = Blocks(heap, circ_buf),
               \/ overlap' = overlap /\ pc[t] # Idle
               \/ overlap' = overlap \ {t} /\ where = Idle
               \/ overlap' = overlap \cup {t}
               \/ overlap' = overlap \ {t} /\ \A u \in Thread : pc[u] \notin Publishing
        PROVE  Apart(t)
    <2>1. \A u \in Thread : pc'[u] = IF u = t THEN where ELSE pc[u]
      BY <1>1, <1>2
    <2>2. \A u \in Thread \ {t} : u \notin overlap' => u \notin overlap
      BY <1>2
    <2>3. Blocks(heap', circ_buf') = Blocks(heap, circ_buf)
      BY <1>2
    <2>4. t \notin overlap' /\ pc'[t] # Idle =>
            (t \notin overlap /\ pc[t] # Idle) \/ \A u \in Thread : pc[u] \notin Publishing
      BY <1>2, <2>1
    <2>5. pc'[t] \notin Publishing
      BY <1>2, <2>1
    <2> QED
      BY <1>2, <2>1, <2>2, <2>3, <2>4, <2>5 DEF Apart
  <1>3. ASSUME NEW where, NEW locals, Goto(t, where, locals), where \notin Publishing,
               UNCHANGED <<circ_buf, heap>>,
               \A u \in Thread \ {t} : f_pos'[u] = f_pos[u],
               \/ overlap' = overlap /\ pc[t] # Idle
               \/ overlap' = overlap \ {t} /\ where = Idle
               \/ overlap' = overlap \cup {t}
               \/ overlap' = overlap \ {t} /\ \A u \in Thread : pc[u] \notin Publishing
        PROVE  Apart(t)
    <2>1. \A u \in Thread \ {t} : frame'[u] = frame[u]
      BY <1>1, <1>3 DEF Goto
    <2> QED
      BY <1>2, <1>3, <2>1 DEF Goto
  <1>4. ASSUME NEW where, pc' = [pc EXCEPT ![t] = where], frame' = frame, where \notin Publishing,
               UNCHANGED <<circ_buf, heap, f_pos, overlap>>, pc[t] # Idle
        PROVE  Apart(t)
    BY <1>2, <1>4
  <1>5. CASE aesd_open(t) \/ aesd_release(t)
             \/ \E off \in Offsets, whence \in {SEEK_SET, SEEK_CUR, SEEK_END} : aesd_llseek(t, off, whence)
    <2>1. UNCHANGED <<circ_buf, heap, pc, frame, overlap>>
      BY <1>5 DEF aesd_open, aesd_release, aesd_llseek, dev
    <2>2. \A u \in Thread \ {t} : f_pos'[u] = f_pos[u]
      BY <1>1, <1>5 DEF aesd_open, aesd_release, aesd_llseek
    <2>3. pc[t] \notin Publishing
      BY <1>5 DEF aesd_open, aesd_release, aesd_llseek, Publishing
    <2> QED
      BY <2>1, <2>2, <2>3 DEF Apart
  <1>6. ASSUME NEW where, NEW locals, Begin(t, where, locals), where \notin Publishing,
               UNCHANGED <<circ_buf, heap, f_pos>>
        PROVE  Apart(t)
    BY <1>3, <1>6 DEF Begin
  <1>7. CASE Call(t)
    <2>1. ASSUME NEW chunk \in Chunk, WriteCall(t, chunk) PROVE Apart(t)
      BY <1>6, <2>1 DEF WriteCall, dev, Publishing
    <2>2. ASSUME NEW count \in Counts, ReadTotal(t, count) PROVE Apart(t)
      <3>1. PICK where, locals : where \in {"ret", "r_find"} /\ Begin(t, where, locals)
        BY <2>2 DEF ReadTotal
      <3> QED
        BY <1>6, <2>2, <3>1 DEF ReadTotal, dev, Publishing
    <2>3. ASSUME NEW seek \in SeekTo, SeekCall(t, seek) PROVE Apart(t)
      BY <1>6, <2>3 DEF SeekCall, dev, Publishing
    <2> QED
      BY <1>5, <1>7, <2>1, <2>2, <2>3 DEF Call
  <1>8. CASE WriteLock(t) \/ SeekLock(t)
    BY <1>4, <1>8 DEF WriteLock, SeekLock, Publishing
  <1>9. CASE LockInterrupted(t) \/ Return(t)
    BY <1>3, <1>9 DEF LockInterrupted, Return, dev, Publishing
  <1>10. CASE ReadStep(t)
    <2>1. CASE ReadFind(t)
      <3>1. PICK where, locals : where \in {"ret", "r_size"} /\ Goto(t, where, locals)
        BY <2>1 DEF ReadFind
      <3> QED
        BY <1>3, <2>1, <3>1 DEF ReadFind, dev, Publishing
    <2>2. CASE ReadSize(t) \/ ReadBuffptr(t)
      BY <1>3, <2>2 DEF ReadSize, ReadBuffptr, dev, Publishing
    <2>3. CASE ReadCopy(t)
      <3>1. PICK locals : Goto(t, "ret", locals)
        BY <2>3 DEF ReadCopy
      <3>2. \A u \in Thread \ {t} : f_pos'[u] = f_pos[u]
        BY <1>1, <2>3 DEF ReadCopy
      <3> QED
        BY <1>3, <2>3, <3>1, <3>2 DEF ReadCopy, dev, Publishing
    <2>4. CASE ReadFindOutside(t)
      <3>1. PICK where, locals : where \in {"ret", "dead"} /\ Goto(t, where, locals)
        BY <2>4 DEF ReadFindOutside
      <3>2. \A u \in Thread \ {t} : f_pos'[u] = f_pos[u]
        BY <1>1, <2>4 DEF ReadFindOutside
      <3> QED
        BY <1>3, <2>4, <3>1, <3>2 DEF ReadFindOutside, dev, Publishing
    <2> QED
      BY <1>10, <2>1, <2>2, <2>3, <2>4 DEF ReadStep
  <1>11. CASE SeekStep(t)
    <2>1. PICK where, locals : where \in {"ret", "dead"} /\ Goto(t, where, locals)
      BY <1>11 DEF SeekStep, SeekReject, SeekCopy, SeekCopyFault, SeekAllocFault
    <2>2. UNCHANGED <<circ_buf, heap, f_pos, overlap>> /\ pc[t] # Idle
      BY <1>11 DEF SeekStep, SeekReject, SeekCopy, SeekCopyFault, SeekAllocFault, dev
    <2> QED
      BY <1>3, <2>1, <2>2 DEF Publishing
  <1>12. CASE WriteStep(t)
    <2>1. CASE WriteStore(t) \/ WriteCopyFault(t) \/ WriteFree(t)
      <3>1. Blocks(heap', circ_buf) = Blocks(heap, circ_buf)
        BY <2>1, BlocksKept
      <3>2. PICK where \in {"add_buffptr", "w_unlock", "ret"} : pc' = [pc EXCEPT ![t] = where]
        BY <2>1 DEF WriteStore, WriteCopyFault, WriteFree, Goto
      <3>3. \A u \in Thread \ {t} : frame'[u] = frame[u] /\ f_pos'[u] = f_pos[u]
        BY <1>1, <2>1 DEF WriteStore, WriteCopyFault, WriteFree, Goto
      <3>4. UNCHANGED <<circ_buf, overlap>> /\ pc[t] # Idle
        BY <2>1 DEF WriteStore, WriteCopyFault, WriteFree
      <3> QED
        BY <1>2, <3>1, <3>2, <3>3, <3>4 DEF Publishing
    <2>2. CASE WriteAllocFault(t) \/ WriteUnlock(t)
      <3>1. PICK where, locals : where \in {"ret", "dead"} /\ Goto(t, where, locals)
        BY <2>2 DEF WriteAllocFault, WriteUnlock
      <3> QED
        BY <1>3, <2>2, <3>1 DEF WriteAllocFault, WriteUnlock, Publishing
    <2>3. CASE AddStep(t)
      <3>1. PICK where : pc' = [pc EXCEPT ![t] = where]
        BY <2>3, AddRestMoves DEF AddStep, AddRest, AddBuffptr, Goto
      <3>2. /\ \A u \in Thread \ {t} : frame'[u] = frame[u] /\ f_pos'[u] = f_pos[u]
            /\ overlap' = overlap \cup {u \in Thread \ {t} : pc[u] # Idle} /\ pc[t] # Idle
        BY <1>1, <2>3, AddRestMoves DEF AddStep, AddRest, AddBuffptr, Goto, Disturb, Publishing
      <3>3. \A u \in Thread \ {t} : pc'[u] = pc[u]
        BY <1>1, <3>1
      <3>4. \A u \in Thread \ {t} : u \notin overlap' => u \notin overlap /\ pc[u] = Idle
        BY <3>2
      <3>5. t \notin overlap' => t \notin overlap
        BY <3>2
      <3> QED
        BY <3>2, <3>3, <3>4, <3>5 DEF Apart
    <2> QED
      BY <1>12, <2>1, <2>2, <2>3 DEF WriteStep
  <1> QED
    BY <1>5, <1>7, <1>8, <1>9, <1>10, <1>11, <1>12 DEF Step


(* While a call is not marked as overlapped, nobody else is in add_entry. *)
Alone ==
  \A t, u \in Thread : t # u /\ t \notin overlap /\ pc[t] # Idle => pc[u] \notin Publishing

(* So it sees a sound buffer. *)
LEMMA AloneSound ==
  ASSUME Inv, Alone, NEW t \in Thread, t \notin overlap,
         pc[t] \notin {Idle, "dead"} \cup Publishing
  PROVE  Sound(circ_buf)
  <1>1. Loaded
    BY InsideOpened DEF Inv, Control, Loaded
  <1>2. Phase \notin Publishing
    BY DEF Phase, Alone, Inv, SharedTypeOK, Publishing
  <1> QED
    BY <1>1, <1>2 DEF Inv, Memory, Displaced

(* No step lets a thread publish beside a call that has not been marked as  *)
(* overlapped.                                                              *)
LEMMA NextAlone ==
  ASSUME Inv, Locals, Alone, [Next]_vars
  PROVE  Alone'
  <1>1. ASSUME UNCHANGED <<pc, overlap>> PROVE Alone'
    BY <1>1 DEF Alone
  <1>2. CASE \/ UNCHANGED vars \/ aesd_init_module \/ RegisterFault \/ SetupAllocFault
             \/ aesd_cleanup_module
    BY <1>1, <1>2
    DEF vars, aesd_init_module, RegisterFault, SetupAllocFault, aesd_cleanup_module
  <1>3. ASSUME NEW t \in Thread, Apart(t) PROVE Alone'
    <2> SUFFICES ASSUME NEW x \in Thread, NEW u \in Thread, x # u, x \notin overlap', pc'[x] # Idle,
                        pc'[u] \in Publishing
                 PROVE  FALSE
      BY DEF Alone
    <2>1. CASE u = t
      BY <1>3, <2>1 DEF Apart
    <2>2. CASE x = t
      BY <1>3, <2>2 DEF Apart, Alone
    <2>3. CASE x # t /\ u # t
      BY <1>3, <2>3 DEF Apart, Alone
    <2> QED
      BY <2>1, <2>2, <2>3
  <1> QED
    BY <1>2, <1>3, StepApart DEF Next

-----------------------------------------------------------------------------
(* Seeks. *)

(* The commands are the first blocks. *)
LEMMA CommandsAreBlocks ==
  ASSUME Sound(circ_buf)
  PROVE  /\ Count(circ_buf) \in 0 .. MAX_OPS
         /\ \A k \in 1 .. Count(circ_buf) :
              k \in 1 .. MAX_OPS /\ Commands(circ_buf)[k] = Blocks(heap, circ_buf)[k]
  <1>1. Count(circ_buf) \in 0 .. MAX_OPS
    BY BlocksLengths, ContentsSeq
  <1>2. ASSUME NEW k \in 1 .. Count(circ_buf)
        PROVE  k \in 1 .. MAX_OPS /\ Commands(circ_buf)[k] = Blocks(heap, circ_buf)[k]
    <2> DEFINE e == circ_buf.entry[ScanSlot(circ_buf, k - 1)]
    <2>1. k \in 1 .. MAX_OPS /\ k <= Count(circ_buf)
      BY <1>1, BufferAssumption
    <2>2. e.buffptr # NULL /\ Blocks(heap, circ_buf)[k] = heap[e.buffptr]
      BY <2>1, BlocksSound
    <2>3. Commands(circ_buf)[k] = heap[e.buffptr]
      BY DEF Commands, Contents
    <2> QED
      BY <2>1, <2>2, <2>3
  <1> QED
    BY <1>1, <1>2

(* The position of a command is what the search has added up before it. *)
LEMMA StartIsSearched ==
  ASSUME Sound(circ_buf), NEW c \in 0 .. Count(circ_buf)
  PROVE  StartOf(c) = SearchedLength(circ_buf)[c]
  <1> DEFINE len == SearchedLength(circ_buf)
             B == Blocks(heap, circ_buf)
             pos[i \in 0 .. c] == IF i = 0 THEN 0 ELSE pos[i - 1] + Len(Commands(circ_buf)[i])
             part == [i \in 0 .. c |-> len[i]]
  <1>1. c \in Nat /\ c \in 0 .. MAX_OPS /\ c \in 0 .. c
        /\ \A i \in 1 .. c : /\ i \in 1 .. Count(circ_buf) /\ i \in 1 .. MAX_OPS
                             /\ i - 1 \in 0 .. c /\ i \in 0 .. c
    BY CommandsAreBlocks, BufferAssumption
  <1>2. /\ len \in [0 .. MAX_OPS -> Nat] /\ len[0] = 0
        /\ \A k \in 1 .. MAX_OPS : len[k] = len[k - 1] + Len(B[k])
    BY BlocksLengths DEF Lengths
  <1>3. \A i \in 1 .. c : Commands(circ_buf)[i] = B[i]
    BY <1>1, CommandsAreBlocks
  <1> HIDE DEF len, B
  <1>4. \A i \in 1 .. c : len[i] = len[i - 1] + Len(Commands(circ_buf)[i])
    BY <1>1, <1>2, <1>3
  <1>5. part = [i \in 0 .. c |-> IF i = 0 THEN 0 ELSE part[i - 1] + Len(Commands(circ_buf)[i])]
    <2>1. ASSUME NEW i \in 0 .. c
          PROVE  len[i] = IF i = 0 THEN 0 ELSE part[i - 1] + Len(Commands(circ_buf)[i])
      <3>1. CASE i = 0
        BY <1>2, <3>1
      <3>2. CASE i # 0
        <4>1. i \in 1 .. c /\ i - 1 \in 0 .. c
          BY <1>1, <3>2
        <4> QED
          BY <1>4, <3>2, <4>1
      <3> QED
        BY <3>1, <3>2
    <2> QED
      BY <2>1
  <1>6. pos = [i \in 0 .. c |-> IF i = 0 THEN 0 ELSE pos[i - 1] + Len(Commands(circ_buf)[i])]
    <2> HIDE DEF part
    <2> QED
      BY <1>5
  <1>7. StartOf(c) = pos[c]
    BY DEF StartOf
  <1> HIDE DEF pos
  <1>8. /\ pos[0] = 0
        /\ \A i \in 1 .. c : pos[i] = pos[i - 1] + Len(Commands(circ_buf)[i])
    <2>1. \A i \in 0 .. c : pos[i] = IF i = 0 THEN 0 ELSE pos[i - 1] + Len(Commands(circ_buf)[i])
      BY <1>6
    <2>2. 0 \in 0 .. c /\ \A i \in 1 .. c : i # 0
      BY <1>1
    <2> QED
      BY <1>1, <2>1, <2>2
  <1> DEFINE T == {i \in Nat : i <= c => pos[i] = len[i]}
  <1>9. 0 \in T
    BY <1>2, <1>8
  <1>10. ASSUME NEW i \in Nat, i \in T PROVE i + 1 \in T
    <2> SUFFICES ASSUME i + 1 <= c PROVE pos[i + 1] = len[i + 1]
      OBVIOUS
    <2>1. i + 1 \in 1 .. c /\ (i + 1) - 1 = i /\ pos[i] = len[i]
      BY <1>1, <1>10
    <2> QED
      BY <1>4, <1>8, <2>1
  <1>11. \A i \in Nat : i \in T
    <2> HIDE DEF T
    <2> QED
      BY <1>9, <1>10, SetInduction
  <1> QED
    BY <1>1, <1>7, <1>11 DEF len

(* What the reply of a seek holds, in a buffer b with blocks B. *)
SeekPromise(where, r, b, B) ==
  where = "ret" /\ r.call = "ioctl" /\ r.data # Garbage
    /\ r.arg < Count(b) /\ r.offset < Len(B[r.arg + 1])
  => /\ SearchedLength(b)[r.arg] + r.offset \in 0 .. SearchedLength(b)[MAX_OPS]
     /\ IsRest(r.data, SearchedLength(b)[r.arg] + r.offset, SearchedLength(b), B)

SeekPromises ==
  \A t \in Thread : t \notin overlap =>
    SeekPromise(pc[t], frame[t], circ_buf, Blocks(heap, circ_buf))

(* A reply that is given keeps the promise. *)
LEMMA SeekKept ==
  ASSUME Inv, Locals, SeekPromises, NEW t \in Thread,
         \/ aesd_open(t) \/ aesd_release(t)
         \/ Call(t) \/ WriteLock(t) \/ SeekLock(t) \/ LockInterrupted(t) \/ Step(t)
  PROVE  SeekPromise(pc'[t], frame'[t], circ_buf', Blocks(heap', circ_buf'))
  <1>1. pc \in [Thread -> Location] /\ DOMAIN frame = Thread
    BY DEF Inv, SharedTypeOK, Control
  <1>2. ASSUME pc'[t] # "ret"
        PROVE  SeekPromise(pc'[t], frame'[t], circ_buf', Blocks(heap', circ_buf'))
    BY <1>2 DEF SeekPromise
  <1>3. ASSUME NEW where, pc' = [pc EXCEPT ![t] = where], where # "ret"
        PROVE  SeekPromise(pc'[t], frame'[t], circ_buf', Blocks(heap', circ_buf'))
    BY <1>1, <1>2, <1>3
  <1>4. ASSUME NEW c, NEW a, NEW o, NEW d, Goto(t, "ret", Result(c, a, o, d)), c # "ioctl" \/ d = Garbage
        PROVE  SeekPromise(pc'[t], frame'[t], circ_buf', Blocks(heap', circ_buf'))
    <2>1. frame'[t].call = c /\ frame'[t].data = d
      BY <1>1, <1>4 DEF Goto, Result
    <2> QED
      BY <1>4, <2>1 DEF SeekPromise
  <1>5. ASSUME NEW where, NEW locals, Goto(t, where, locals), where # "ret"
        PROVE  SeekPromise(pc'[t], frame'[t], circ_buf', Blocks(heap', circ_buf'))
    BY <1>3, <1>5 DEF Goto
  <1>6. CASE aesd_open(t) \/ aesd_release(t)
    BY <1>2, <1>6 DEF aesd_open, aesd_release
  <1>7. CASE Call(t)
    <2>1. ASSUME NEW chunk \in Chunk, WriteCall(t, chunk)
          PROVE  SeekPromise(pc'[t], frame'[t], circ_buf', Blocks(heap', circ_buf'))
      BY <1>5, <2>1 DEF WriteCall, Begin
    <2>2. ASSUME NEW count \in Counts, ReadTotal(t, count)
          PROVE  SeekPromise(pc'[t], frame'[t], circ_buf', Blocks(heap', circ_buf'))
      <3>1. CASE RemainingCount(t, count) = 0
        BY <1>4, <2>2, <3>1 DEF ReadTotal, Begin
      <3>2. CASE RemainingCount(t, count) # 0
        BY <1>5, <2>2, <3>2 DEF ReadTotal, Begin
      <3> QED
        BY <3>1, <3>2
    <2>3. ASSUME NEW seek \in SeekTo, SeekCall(t, seek)
          PROVE  SeekPromise(pc'[t], frame'[t], circ_buf', Blocks(heap', circ_buf'))
      BY <1>5, <2>3 DEF SeekCall, Begin
    <2>4. ASSUME NEW off \in Offsets, NEW whence \in {SEEK_SET, SEEK_CUR, SEEK_END}, aesd_llseek(t, off, whence)
          PROVE  SeekPromise(pc'[t], frame'[t], circ_buf', Blocks(heap', circ_buf'))
      BY <1>2, <2>4 DEF aesd_llseek
    <2> QED
      BY <1>7, <2>1, <2>2, <2>3, <2>4 DEF Call
  <1>8. CASE WriteLock(t) \/ SeekLock(t)
    BY <1>3, <1>8 DEF WriteLock, SeekLock
  <1>9. CASE LockInterrupted(t)
    BY <1>4, <1>9 DEF LockInterrupted
  <1>10. CASE Return(t)
    BY <1>5, <1>10 DEF Return
  <1>11. CASE ReadStep(t)
    <2>1. CASE ReadFind(t)
      BY <1>4, <1>5, <2>1 DEF ReadFind
    <2>2. CASE ReadSize(t) \/ ReadBuffptr(t)
      BY <1>5, <2>2 DEF ReadSize, ReadBuffptr
    <2>3. CASE ReadCopy(t)
      <3>1. PICK data : Goto(t, "ret", Result("read", frame[t].count, frame[t].n, data))
        BY <2>3 DEF ReadCopy
      <3> QED
        BY <1>4, <3>1
    <2>4. CASE ReadFindOutside(t)
      BY <1>4, <1>5, <2>4 DEF ReadFindOutside
    <2> QED
      BY <1>11, <2>1, <2>2, <2>3, <2>4 DEF ReadStep
  <1>12. CASE WriteStep(t)
    <2>1. CASE WriteStore(t)
      <3>1. PICK where \in {"add_buffptr", "w_unlock"} : pc' = [pc EXCEPT ![t] = where]
        BY <2>1 DEF WriteStore
      <3> QED
        BY <1>3, <3>1
    <2>2. CASE WriteCopyFault(t) \/ WriteAllocFault(t)
      BY <1>4, <1>5, <2>2 DEF WriteCopyFault, WriteAllocFault
    <2>3. CASE AddBuffptr(t)
      BY <1>5, <2>3 DEF AddBuffptr
    <2>4. CASE AddRest(t) \/ WriteFree(t)
      <3>1. PICK where \in Publishing \cup {"w_free", "w_unlock"} : pc' = [pc EXCEPT ![t] = where]
        BY <2>4, AddRestMoves DEF WriteFree
      <3>2. where # "ret"
        BY DEF Publishing
      <3> QED
        BY <1>3, <3>1, <3>2
    <2>5. CASE WriteUnlock(t)
      BY <1>4, <2>5 DEF WriteUnlock
    <2> QED
      BY <1>12, <2>1, <2>2, <2>3, <2>4, <2>5 DEF WriteStep, AddStep, AddRest
  <1>13. CASE SeekStep(t)
    <2>1. CASE SeekReject(t)
      BY <1>4, <2>1 DEF SeekReject
    <2>2. CASE SeekCopyFault(t)
      BY <1>4, <2>2 DEF SeekCopyFault
    <2>3. CASE SeekAllocFault(t)
      BY <1>5, <2>3 DEF SeekAllocFault
    <2>4. CASE SeekCopy(t)
      <3> DEFINE cmd == frame[t].write_cmd
                 off == frame[t].offset
      <3>1. pc[t] = "s_copy" /\ pc[t] \in Critical /\ UNCHANGED <<circ_buf, heap>>
        BY <2>4 DEF SeekCopy, Critical
      <3>2. cmd \in Nat /\ off \in Nat
        BY <3>1 DEF Locals, LocalsOf, SeekFrame
      <3>3. Sound(circ_buf)
        BY <3>1, Holder DEF Inv, Memory, Publishing
      <3>4. PICK data \in {SpecialBuffer(cmd, off), Garbage} : Goto(t, "ret", Result("ioctl", cmd, off, data))
        BY <2>4 DEF SeekCopy
      <3>5. frame'[t].data = data /\ frame'[t].arg = cmd /\ frame'[t].offset = off
        BY <1>1, <3>4 DEF Goto, Result
      <3> HIDE DEF cmd, off
      <3>6. cmd < Count(circ_buf) /\ off < Len(Blocks(heap, circ_buf)[cmd + 1])
              => /\ SearchedLength(circ_buf)[cmd] + off \in 0 .. SearchedLength(circ_buf)[MAX_OPS]
                 /\ IsRest(SpecialBuffer(cmd, off), SearchedLength(circ_buf)[cmd] + off,
                           SearchedLength(circ_buf), Blocks(heap, circ_buf))
        BY <3>2, <3>3, SeekGathers
      <3>7. SeekPromise(pc'[t], frame'[t], circ_buf, Blocks(heap, circ_buf))
        BY <3>4, <3>5, <3>6 DEF SeekPromise
      <3> QED
        BY <3>1, <3>7
    <2> QED
      BY <1>13, <2>1, <2>2, <2>3, <2>4 DEF SeekStep
  <1> QED
    BY <1>6, <1>7, <1>8, <1>9, <1>10, <1>11, <1>12, <1>13 DEF Step

(* Nothing but a step of the caller or an overlap changes it. *)
LEMMA NextSeekPromises ==
  ASSUME Inv, Locals, SeekPromises, [Next]_vars
  PROVE  SeekPromises'
  <1>1. CASE UNCHANGED vars \/ RegisterFault \/ SetupAllocFault
    <2>1. UNCHANGED <<circ_buf, heap, pc, frame, overlap>>
      BY <1>1 DEF vars, dev, RegisterFault, SetupAllocFault
    <2> QED
      BY <2>1 DEF SeekPromises
  <1>2. CASE aesd_init_module \/ aesd_cleanup_module
    <2>1. opened = {} /\ UNCHANGED pc
      BY <1>2 DEF aesd_init_module, aesd_cleanup_module, Inv, Control
    <2>2. \A t \in Thread : pc'[t] # "ret"
      BY <2>1, NobodyInside
    <2> QED
      BY <2>2 DEF SeekPromises, SeekPromise
  <1>3. ASSUME NEW t \in Thread,
               \/ aesd_open(t) \/ aesd_release(t)
               \/ Call(t) \/ WriteLock(t) \/ SeekLock(t) \/ LockInterrupted(t) \/ Step(t)
        PROVE  SeekPromises'
    <2>1. Apart(t)
      BY <1>3, StepApart
    <2>2. SeekPromise(pc'[t], frame'[t], circ_buf', Blocks(heap', circ_buf'))
      BY <1>3, SeekKept
    <2>3. ASSUME NEW u \in Thread \ {t}, u \notin overlap'
          PROVE  SeekPromise(pc'[u], frame'[u], circ_buf', Blocks(heap', circ_buf'))
      <3>1. CASE pc[u] = Idle
        BY <2>1, <3>1 DEF Apart, SeekPromise
      <3>2. CASE pc[u] # Idle
        <4>1. /\ pc'[u] = pc[u] /\ frame'[u] = frame[u] /\ u \notin overlap
              /\ circ_buf' = circ_buf /\ Blocks(heap', circ_buf') = Blocks(heap, circ_buf)
          BY <2>1, <2>3, <3>2 DEF Apart
        <4>2. SeekPromise(pc[u], frame[u], circ_buf, Blocks(heap, circ_buf))
          BY <4>1 DEF SeekPromises
        <4> QED
          BY <4>1, <4>2
      <3> QED
        BY <3>1, <3>2
    <2> QED
      BY <2>2, <2>3 DEF SeekPromises
  <1> QED
    BY <1>1, <1>2, <1>3 DEF Next

(* A seek to an existing byte of an existing command, which no add_entry   *)
(* overlaps and whose copies do not fail, hands back exactly the stream    *)
(* from that byte on: for any array size, any commands, any number of      *)
(* threads and whatever else fails.                                        *)
THEOREM DriverSeekReturnsRest == Spec => []SeekReturnsRest
  <1> DEFINE All == Inv /\ Locals /\ Alone /\ SeekPromises
  <1>1. Init => All
    <2>1. Init => Alone /\ SeekPromises
      BY DEF Init, Alone, SeekPromises, SeekPromise
    <2> QED
      BY <2>1, InitInv, InitLocals
  <1>2. All /\ [Next]_vars => All'
    BY NextInv, NextLocals, NextAlone, NextSeekPromises
  <1>3. All => SeekReturnsRest
    <2> SUFFICES ASSUME All, NEW t \in Thread,
                        Undisturbed(t, "ioctl"), InRange(frame[t]), frame[t].data # Garbage
                 PROVE  frame[t].data =
                          SubSeq(Stream, StartOf(frame[t].arg) + frame[t].offset + 1, Len(Stream))
      BY DEF SeekReturnsRest
    <2> DEFINE r == frame[t]
               B == Blocks(heap, circ_buf)
               len == SearchedLength(circ_buf)
    <2>1. pc[t] = "ret" /\ t \notin overlap /\ r.call = "ioctl"
      BY DEF Undisturbed
    <2>2. Sound(circ_buf)
      BY <2>1, AloneSound DEF Publishing
    <2>3. r.arg \in Nat /\ r.arg < Count(circ_buf) /\ r.offset < Len(Commands(circ_buf)[r.arg + 1])
      BY <2>1 DEF InRange, Locals, LocalsOf, Reply
    <2>4. r.arg \in 0 .. Count(circ_buf) /\ r.arg + 1 \in 1 .. Count(circ_buf)
      BY <2>2, <2>3, CommandsAreBlocks
    <2>5. r.offset < Len(B[r.arg + 1])
      BY <2>2, <2>3, <2>4, CommandsAreBlocks
    <2>6. StartOf(r.arg) = len[r.arg]
      BY <2>2, <2>4, StartIsSearched
    <2>7. SeekPromise(pc[t], r, circ_buf, B)
      BY <2>1 DEF SeekPromises
    <2>8. len[r.arg] + r.offset \in 0 .. len[MAX_OPS] /\ IsRest(r.data, len[r.arg] + r.offset, len, B)
      BY <2>1, <2>3, <2>5, <2>7 DEF SeekPromise
    <2>9. r.data = SubSeq(Stream, (len[r.arg] + r.offset) + 1, Len(Stream))
      BY <2>2, <2>8, RestIsSuffix
    <2> QED
      BY <2>6, <2>9
  <1> QED
    BY <1>1, <1>2, <1>3, PTL DEF Spec


-----------------------------------------------------------------------------
(* Reads. *)

(* A part of a block is a part of the stream. *)
LEMMA StreamPart ==
  ASSUME Sound(circ_buf), NEW k \in 1 .. MAX_OPS, NEW m \in Nat, NEW n \in Nat,
         m + n <= Len(Blocks(heap, circ_buf)[k])
  PROVE  SubSeq(Blocks(heap, circ_buf)[k], m + 1, m + n)
           = SubSeq(Stream, SearchedLength(circ_buf)[k - 1] + m + 1,
                            SearchedLength(circ_buf)[k - 1] + m + n)
  <1> DEFINE len == SearchedLength(circ_buf)
             B == Blocks(heap, circ_buf)
             s == B[k]
             at == len[k - 1]
             size == Len(s)
             all == len[MAX_OPS]
             p == SubSeq(s, m + 1, m + n)
             q == SubSeq(Stream, at + m + 1, at + m + n)
  <1>1. /\ Stream \in Seq(Byte) /\ Len(Stream) = all - 0
        /\ \A i \in 1 .. MAX_OPS : \A j \in 1 .. Len(B[i]) :
             len[i - 1] + j > 0 => Stream[(len[i - 1] + j) - 0] = B[i][j]
    BY StreamIsRest DEF IsRest
  <1>2. s \in Seq(Byte)
    BY BlocksLengths DEF Pieces
  <1>3. size \in Nat
    BY <1>2, LenProperties
  <1>4. at \in Nat /\ all \in Nat /\ at + size <= all
    <2>1. k \in 0 .. MAX_OPS /\ k - 1 \in 0 .. MAX_OPS /\ MAX_OPS \in 0 .. MAX_OPS /\ k <= MAX_OPS
      BY BufferAssumption
    <2>2. len \in [0 .. MAX_OPS -> Nat] /\ len[k] = at + size /\ len[k] <= all
      BY <2>1, BlocksLengths DEF Lengths
    <2> QED
      BY <2>1, <2>2
  <1>5. m + n <= size
    OBVIOUS
  <1>6. \A j \in 1 .. size : at + j > 0 => Stream[(at + j) - 0] = s[j]
    BY <1>1
  <1> HIDE DEF len, B, s, at, size, all
  <1>7. \A j \in 1 .. size : Stream[at + j] = s[j]
    <2> TAKE j \in 1 .. size
    <2>1. at + j > 0 /\ (at + j) - 0 = at + j
      BY <1>4
    <2> QED
      BY <1>6, <2>1
  <1>8. /\ p \in Seq(Byte) /\ Len(p) = n
        /\ \A i \in 1 .. n : p[i] = s[m + i]
    <2>1. \A i \in m + 1 .. m + n : s[i] \in Byte
      <3> TAKE i \in m + 1 .. m + n
      <3>1. i \in 1 .. size
        BY <1>3, <1>5
      <3> QED
        BY <1>2, <3>1, ElementOfSeq DEF size
    <2>2. m + 1 \in Int /\ m + n \in Int
      OBVIOUS
    <2>3. /\ SubSeq(s, m + 1, m + n) \in Seq(Byte)
          /\ Len(SubSeq(s, m + 1, m + n)) = IF m + 1 <= m + n THEN (m + n) - (m + 1) + 1 ELSE 0
          /\ \A i \in 1 .. (m + n) - (m + 1) + 1 : SubSeq(s, m + 1, m + n)[i] = s[m + 1 + i - 1]
      BY <2>1, <2>2, SubSeqProperties
    <2>4. (m + n) - (m + 1) + 1 = n /\ \A i \in 1 .. n : m + 1 + i - 1 = m + i
      OBVIOUS
    <2>5. (IF m + 1 <= m + n THEN (m + n) - (m + 1) + 1 ELSE 0) = n
      OBVIOUS
    <2> QED
      BY <2>3, <2>4, <2>5
  <1>9. /\ q \in Seq(Byte) /\ Len(q) = n
        /\ \A i \in 1 .. n : q[i] = Stream[at + (m + i)]
    <2> DEFINE lo == at + m + 1
               hi == at + m + n
    <2>1. /\ lo \in Int /\ hi \in Int /\ hi - lo + 1 = n
          /\ \A i \in 1 .. n : lo + i - 1 = at + (m + i)
          /\ (IF lo <= hi THEN hi - lo + 1 ELSE 0) = n
          /\ \A i \in lo .. hi : i \in 1 .. all
      BY <1>3, <1>4, <1>5
    <2> HIDE DEF lo, hi
    <2>2. \A i \in lo .. hi : Stream[i] \in Byte
      <3> TAKE i \in lo .. hi
      <3>1. i \in 1 .. all /\ all - 0 = all
        <4>1. all \in Nat
          BY <1>4
        <4>2. i \in 1 .. all
          BY <2>1
        <4> QED
          BY <4>1, <4>2
      <3>2. i \in 1 .. Len(Stream)
        BY <1>1, <3>1
      <3> QED
        BY <1>1, <3>2, ElementOfSeq
    <2>3. /\ SubSeq(Stream, lo, hi) \in Seq(Byte)
          /\ Len(SubSeq(Stream, lo, hi)) = IF lo <= hi THEN hi - lo + 1 ELSE 0
          /\ \A i \in 1 .. hi - lo + 1 : SubSeq(Stream, lo, hi)[i] = Stream[lo + i - 1]
      BY <2>1, <2>2, SubSeqProperties
    <2>4. /\ SubSeq(Stream, lo, hi) \in Seq(Byte)
          /\ Len(SubSeq(Stream, lo, hi)) = n
          /\ \A i \in 1 .. n : SubSeq(Stream, lo, hi)[i] = Stream[at + (m + i)]
      BY <2>1, <2>3
    <2> QED
      BY <2>4 DEF lo, hi
  <1>10. \A i \in 1 .. n : p[i] = q[i]
    <2> TAKE i \in 1 .. n
    <2>1. m + i \in 1 .. size
      BY <1>3, <1>5
    <2>2. p[i] = s[m + i] /\ q[i] = Stream[at + (m + i)]
      BY <1>8, <1>9
    <2> QED
      BY <1>7, <2>1, <2>2
  <1> HIDE DEF p, q
  <1>11. p = q
    BY <1>8, <1>9, <1>10, SeqEqual
  <1> QED
    BY <1>11 DEF p, q, s, at, B, len

(* What the caller of read() gets, whose position was at before, from a    *)
(* buffer b with blocks B.                                                 *)
ReadReply(r, before, b, B) ==
  LET len == SearchedLength(b)
  IN  /\ r.arg = 0 \/ before >= len[MAX_OPS] => r.data = << >> /\ r.offset = 0
      /\ r.arg # 0 /\ before < len[MAX_OPS] =>
           /\ r.offset \in 1 .. r.arg
           /\ \E k \in 1 .. MAX_OPS :
                /\ len[k - 1] <= before /\ before + r.offset <= len[k]
                /\ r.data = SubSeq(B[k], (before - len[k - 1]) + 1, (before - len[k - 1]) + r.offset)

(* The locals of a read that has found its byte in the k-th entry. *)
Found(fr, pos, k, b) ==
  LET len == SearchedLength(b)
  IN  /\ fr.slot = ScanSlot(b, k - 1)
      /\ len[k - 1] <= pos /\ pos < len[k]
      /\ fr.byte = pos - len[k - 1]

(* What a read knows at each of its steps. *)
ReadPromise(where, fr, pos, b, B) ==
  /\ where \in Reading => fr.count # 0
  /\ where \in Reading \ {"r_find"} => \E k \in 1 .. Count(b) : Found(fr, pos, k, b)
  /\ where \in {"r_buffptr", "r_copy"} =>
       fr.n \in 1 .. fr.count /\ fr.byte + fr.n <= b.entry[fr.slot].size
  /\ where = "r_copy" => fr.buffptr = b.entry[fr.slot].buffptr
  /\ where = "ret" /\ fr.call = "read" => ReadReply(fr, pos - fr.offset, b, B)

ReadPromises ==
  \A t \in Thread : t \notin overlap =>
    ReadPromise(pc[t], frame[t], f_pos[t], circ_buf, Blocks(heap, circ_buf))

(* The whole content is shorter than the largest loff_t. *)
ContentFits == 2 * get_length_of_all_entries_in_buffer(circ_buf) < SizeMod


(* A read begins: count is nonzero unless there is nothing to read. *)
LEMMA ReadTotalKept ==
  ASSUME Inv, Locals, ContentFits, NEW t \in Thread, NEW asked \in Counts, ReadTotal(t, asked),
         t \notin overlap'
  PROVE  ReadPromise(pc'[t], frame'[t], f_pos'[t], circ_buf', Blocks(heap', circ_buf'))
  <1> DEFINE len == SearchedLength(circ_buf)
             total == get_length_of_all_entries_in_buffer(circ_buf)
             count == RemainingCount(t, asked)
             at == f_pos[t]
  <1>1. pc \in [Thread -> Location] /\ DOMAIN frame = Thread /\ circ_buf \in Buffer
    <2>1. \A u \in Thread : pc[u] \notin Publishing
      BY DEF ReadTotal, Begin
    <2>2. Phase \notin {"wrap_out", "wrap_in"}
      BY <2>1 DEF Inv, SharedTypeOK, Phase, Publishing
    <2> QED
      BY <2>2 DEF Inv, SharedTypeOK, Control
  <1>2. asked \in Nat /\ at \in Int /\ at >= 0 /\ UNCHANGED <<f_pos, circ_buf, heap>>
    BY DriverAssumption DEF ReadTotal, Locals, dev
  <1>3. total = len[MAX_OPS] /\ total \in Nat /\ 2 * total < SizeMod
    <2>1. total = len[MAX_OPS]
      BY <1>1, LengthIsSearched
    <2>2. len[MAX_OPS] \in Nat
      BY <1>1, SearchedIsSum, BufferAssumption
    <2> QED
      BY <2>1, <2>2 DEF ContentFits
  <1>4. CASE count = 0
    <2> DEFINE reply == Result("read", asked, 0, << >>)
    <2>1. Goto(t, "ret", reply)
      BY <1>4 DEF ReadTotal, Begin
    <2>2. reply.arg = asked /\ reply.offset = 0 /\ reply.data = << >> /\ reply.call = "read"
      BY DEF Result
    <2> HIDE DEF reply
    <2>3. pc'[t] = "ret" /\ frame'[t] = reply
      BY <1>1, <2>1 DEF Goto
    <2>4. asked = 0 \/ at >= total
      <3> SUFFICES ASSUME asked # 0, at < total PROVE FALSE
        BY <1>2, <1>3
      <3>1. count = ToUnsigned(total - at)
        BY <1>4 DEF RemainingCount
      <3> HIDE DEF total, at, count
      <3>2. total - at \in Int /\ total - at \in 0 .. SizeMod - 1 /\ total - at # 0
        BY <1>2, <1>3, DriverAssumption
      <3>3. ToUnsigned(total - at) = total - at
        BY <3>2, Unsigned
      <3> QED
        BY <1>4, <3>1, <3>2, <3>3
    <2>5. at - 0 = at
      BY <1>2
    <2>6. ReadReply(reply, at, circ_buf, Blocks(heap, circ_buf))
      <3>1. ~ (asked # 0 /\ at < len[MAX_OPS])
        <4> HIDE DEF total, at, len
        <4> QED
          BY <1>2, <1>3, <2>4
      <3> QED
        BY <2>2, <3>1 DEF ReadReply
    <2>7. ReadPromise("ret", reply, at, circ_buf, Blocks(heap, circ_buf))
      BY <2>2, <2>5, <2>6 DEF ReadPromise, Reading
    <2> QED
      BY <1>2, <2>3, <2>7
  <1>5. CASE count # 0
    <2> DEFINE locals == [count |-> count, slot |-> -1, byte |-> 0, n |-> 0, buffptr |-> NULL]
    <2>1. Goto(t, "r_find", locals)
      BY <1>5 DEF ReadTotal, Begin
    <2>2. locals.count # 0
      BY <1>5
    <2> HIDE DEF locals
    <2>3. pc'[t] = "r_find" /\ frame'[t] = locals
      BY <1>1, <2>1 DEF Goto
    <2> QED
      BY <2>2, <2>3 DEF ReadPromise, Reading
  <1> QED
    BY <1>4, <1>5

(* In a sound buffer, the entry a read has found. *)
LEMMA FoundEntry ==
  ASSUME Sound(circ_buf), NEW k \in 1 .. Count(circ_buf), NEW fr, NEW pos \in Nat,
         Found(fr, pos, k, circ_buf)
  PROVE  LET e == circ_buf.entry[fr.slot]
             s == Blocks(heap, circ_buf)[k]
             len == SearchedLength(circ_buf)
         IN  /\ k \in 1 .. MAX_OPS
             /\ e.buffptr # NULL /\ e.buffptr \in Ptr /\ s = heap[e.buffptr]
             /\ s \in Seq(Byte) /\ Len(s) = e.size /\ e.size \in Nat
             /\ len[k - 1] \in Nat /\ len[k] \in Nat /\ len[MAX_OPS] \in Nat
             /\ len[k] = len[k - 1] + e.size /\ len[k] <= len[MAX_OPS]
             /\ len[k - 1] <= pos /\ pos < len[k] /\ fr.byte = pos - len[k - 1]
             /\ fr.byte \in Nat /\ fr.byte < e.size
  <1> DEFINE e == circ_buf.entry[fr.slot]
             s == Blocks(heap, circ_buf)[k]
             len == SearchedLength(circ_buf)
             lo == len[k - 1]
             hi == len[k]
             size == e.size
  <1>1. k \in 1 .. MAX_OPS /\ k <= Count(circ_buf)
    BY CommandsAreBlocks
  <1>2. fr.slot = ScanSlot(circ_buf, k - 1) /\ lo <= pos /\ pos < hi /\ fr.byte = pos - lo
    BY DEF Found
  <1>3. /\ e \in Entry /\ s \in Seq(Byte) /\ Len(s) = size
        /\ e.buffptr # NULL /\ e.buffptr \in Ptr /\ s = heap[e.buffptr]
    BY <1>1, <1>2, BlocksSound
  <1>4. size \in Nat
    BY <1>3 DEF Entry
  <1>5. lo \in Nat /\ hi \in Nat /\ len[MAX_OPS] \in Nat /\ hi <= len[MAX_OPS]
    <2>1. k \in 0 .. MAX_OPS /\ k - 1 \in 0 .. MAX_OPS /\ MAX_OPS \in 0 .. MAX_OPS /\ k <= MAX_OPS
      BY <1>1, BufferAssumption
    <2> QED
      BY <2>1, BlocksLengths DEF Lengths
  <1>6. hi = lo + size
    <2>1. hi = lo + Len(s)
      BY <1>1, BlocksLengths DEF Lengths
    <2> QED
      BY <1>3, <2>1
  <1>7. pos - lo \in Nat /\ pos - lo < size
    <2> HIDE DEF lo, hi, size
    <2> QED
      BY <1>2, <1>4, <1>5, <1>6
  <1> QED
    BY <1>1, <1>2, <1>3, <1>4, <1>5, <1>6, <1>7

(* The steps of a read that no add_entry overlaps. *)
LEMMA ReadStepKept ==
  ASSUME Inv, Locals, Alone, ReadPromises, ContentFits, "copy_to" \notin Faults,
         NEW t \in Thread, ReadStep(t), t \notin overlap
  PROVE  ReadPromise(pc'[t], frame'[t], f_pos'[t], circ_buf', Blocks(heap', circ_buf'))
  <1> DEFINE fr == frame[t]
             at == f_pos[t]
             b == circ_buf
             B == Blocks(heap, circ_buf)
             len == SearchedLength(circ_buf)
             all == len[MAX_OPS]
  <1>1. pc \in [Thread -> Location] /\ DOMAIN frame = Thread /\ circ_buf \in Buffer
        /\ f_pos \in [Thread -> Int]
    <2>1. pc[t] \in Reading
      BY DEF ReadStep, ReadFind, ReadFindOutside, ReadSize, ReadBuffptr, ReadCopy, Reading
    <2>2. Sound(circ_buf)
      BY <2>1, AloneSound DEF Reading, Publishing
    <2> QED
      BY <2>2 DEF Sound, WellFormed, Inv, SharedTypeOK, Control, Locals
  <1>2. pc[t] \in Reading /\ UNCHANGED <<circ_buf, heap>>
    BY DEF ReadStep, ReadFind, ReadFindOutside, ReadSize, ReadBuffptr, ReadCopy, Reading, dev
  <1>3. /\ fr \in ReadFrame /\ at \in Nat
        /\ pc[t] # "r_find" => fr.slot \in Slot /\ fr.byte \in Nat
    BY <1>2 DEF Locals, LocalsOf
  <1>4. fr.count \in Nat /\ fr.n \in Nat
    BY <1>3 DEF ReadFrame
  <1>5. Sound(circ_buf) /\ WellFormed(circ_buf)
    BY <1>2, AloneSound DEF Reading, Publishing, Sound
  <1>6. ReadPromise(pc[t], fr, at, b, B)
    BY DEF ReadPromises
  <1>7. fr.count # 0
    BY <1>2, <1>6 DEF ReadPromise
  <1>8. all \in Nat /\ 2 * all < SizeMod
    <2>1. all \in Nat
      BY <1>1, SearchedIsSum, BufferAssumption
    <2>2. get_length_of_all_entries_in_buffer(circ_buf) = all
      BY <1>1, LengthIsSearched
    <2> QED
      BY <2>1, <2>2 DEF ContentFits
  <1>9. CASE ReadFind(t)
    <2> DEFINE found == aesd_circular_buffer_find_entry_offset_for_fpos(circ_buf, at)
    <2>1. f_pos' = f_pos
      BY <1>9 DEF ReadFind
    <2>2. /\ all <= at => found = NotFound
          /\ at < all => \E k \in 0 .. Count(b) - 1 :
               /\ len[k] <= at /\ at < len[k + 1]
               /\ found = [slot |-> ScanSlot(b, k), byte |-> at - len[k]]
      BY <1>3, <1>5, SearchAgrees
    <2>3. CASE found = NotFound
      <3> DEFINE reply == Result("read", fr.count, 0, << >>)
      <3>1. Goto(t, "ret", reply)
        BY <1>9, <2>3 DEF ReadFind
      <3>2. reply.arg = fr.count /\ reply.offset = 0 /\ reply.data = << >> /\ reply.call = "read"
        BY DEF Result
      <3> HIDE DEF reply
      <3>3. pc'[t] = "ret" /\ frame'[t] = reply
        BY <1>1, <3>1 DEF Goto
      <3>4. ~ (at < all)
        <4> SUFFICES ASSUME at < all PROVE FALSE
          OBVIOUS
        <4>1. PICK k \in 0 .. Count(b) - 1 :
                found = [slot |-> ScanSlot(b, k), byte |-> at - len[k]]
          BY <2>2
        <4>2. Count(b) \in 0 .. MAX_OPS
          BY <1>5, ContentsSeq
        <4>3. k + 1 \in 1 .. MAX_OPS /\ (k + 1) - 1 = k
          BY <4>2, BufferAssumption
        <4>4. ScanSlot(b, k) \in Slot
          BY <1>1, <4>3, SearchedIsSum
        <4>5. ScanSlot(b, k) = -1
          BY <2>3, <4>1 DEF NotFound
        <4> QED
          BY <4>4, <4>5, BufferAssumption DEF Slot
      <3>5. at - 0 = at
        BY <1>3
      <3>6. ReadReply(reply, at, b, B)
        BY <3>2, <3>4 DEF ReadReply
      <3>7. ReadPromise("ret", reply, at, b, B)
        BY <3>2, <3>5, <3>6 DEF ReadPromise, Reading
      <3> QED
        BY <1>2, <2>1, <3>3, <3>7
    <2>4. CASE found # NotFound
      <3> DEFINE locals == [fr EXCEPT !.slot = found.slot, !.byte = found.byte]
      <3>1. at < all
        <4> HIDE DEF all, at
        <4> QED
          BY <1>3, <1>8, <2>2, <2>4 DEF at
      <3>2. PICK k \in 0 .. Count(b) - 1 :
              /\ len[k] <= at /\ at < len[k + 1]
              /\ found = [slot |-> ScanSlot(b, k), byte |-> at - len[k]]
        BY <2>2, <3>1
      <3>3. Goto(t, "r_size", locals)
        BY <1>9, <2>4 DEF ReadFind
      <3>4. locals.slot = ScanSlot(b, k) /\ locals.byte = at - len[k] /\ locals.count = fr.count
        <4>1. found.slot = ScanSlot(b, k) /\ found.byte = at - len[k]
          BY <3>2
        <4> HIDE DEF found
        <4>2. locals.slot = found.slot /\ locals.byte = found.byte /\ locals.count = fr.count
          BY <1>3 DEF ReadFrame
        <4> QED
          BY <4>1, <4>2
      <3> HIDE DEF locals
      <3>5. pc'[t] = "r_size" /\ frame'[t] = locals
        BY <1>1, <3>3 DEF Goto
      <3>6. k + 1 \in 1 .. Count(b) /\ (k + 1) - 1 = k
        <4>1. Count(b) \in 0 .. MAX_OPS
          BY <1>5, ContentsSeq
        <4> QED
          BY <4>1, BufferAssumption
      <3>7. Found(locals, at, k + 1, b)
        BY <3>2, <3>4, <3>6 DEF Found
      <3>8. ReadPromise("r_size", locals, at, b, B)
        BY <1>7, <3>4, <3>6, <3>7 DEF ReadPromise, Reading
      <3> QED
        BY <1>2, <2>1, <3>5, <3>8
    <2> QED
      BY <2>3, <2>4
  <1>10. ASSUME pc[t] \in {"r_size", "r_buffptr", "r_copy"}
         PROVE  \E k \in 1 .. Count(b) : Found(fr, at, k, b)
    BY <1>6, <1>10 DEF ReadPromise, Reading
  <1>11. CASE ReadSize(t)
    <2> DEFINE size == b.entry[fr.slot].size
               byte == fr.byte
               rest == ToUnsigned(size - byte)
               n == IF rest < fr.count THEN rest ELSE fr.count
               locals == [fr EXCEPT !.n = n]
    <2>1. pc[t] = "r_size" /\ f_pos' = f_pos /\ Goto(t, "r_buffptr", locals)
      BY <1>11 DEF ReadSize
    <2>2. PICK k \in 1 .. Count(b) : Found(fr, at, k, b)
      BY <1>10, <2>1
    <2> DEFINE lo == len[k - 1]
               hi == len[k]
    <2>3. /\ size \in Nat /\ byte \in Nat /\ byte < size
          /\ hi = lo + size /\ lo \in Nat /\ hi <= all /\ hi \in Nat
      BY <1>3, <1>5, <2>2, FoundEntry
    <2>4. rest = size - byte
      <3>1. size - byte \in Int /\ size - byte \in 0 .. SizeMod - 1
        <4> HIDE DEF size, byte, lo, hi, all
        <4> QED
          BY <1>8, <2>3, DriverAssumption
      <3> QED
        BY <3>1, Unsigned
    <2> HIDE DEF rest
    <2>5. n \in 1 .. fr.count /\ byte + n <= size
      <3> DEFINE c == fr.count
      <3>1. c \in Nat /\ c # 0 /\ n = (IF rest < c THEN rest ELSE c)
        BY <1>4, <1>7
      <3>2. n \in 1 .. c /\ byte + n <= size
        <4> HIDE DEF n, c, size, byte
        <4> QED
          BY <2>3, <2>4, <3>1
      <3> QED
        BY <3>2
    <2> HIDE DEF n
    <2>6. /\ locals.n = n /\ locals.slot = fr.slot /\ locals.byte = fr.byte
          /\ locals.count = fr.count
      BY <1>3 DEF ReadFrame
    <2> HIDE DEF locals
    <2>7. pc'[t] = "r_buffptr" /\ frame'[t] = locals
      BY <1>1, <2>1 DEF Goto
    <2>8. Found(locals, at, k, b)
      BY <2>2, <2>6 DEF Found
    <2>9. ReadPromise("r_buffptr", locals, at, b, B)
      BY <1>7, <2>5, <2>6, <2>8 DEF ReadPromise, Reading
    <2> QED
      BY <1>2, <2>1, <2>7, <2>9
  <1>12. CASE ReadBuffptr(t)
    <2> DEFINE p == b.entry[fr.slot].buffptr
               locals == [fr EXCEPT !.buffptr = p]
    <2>1. pc[t] = "r_buffptr" /\ f_pos' = f_pos /\ Goto(t, "r_copy", locals)
      BY <1>12 DEF ReadBuffptr
    <2>2. PICK k \in 1 .. Count(b) : Found(fr, at, k, b)
      BY <1>10, <2>1
    <2>3. fr.n \in 1 .. fr.count /\ fr.byte + fr.n <= b.entry[fr.slot].size
      BY <1>6, <2>1 DEF ReadPromise
    <2>4. /\ locals.n = fr.n /\ locals.slot = fr.slot /\ locals.byte = fr.byte
          /\ locals.count = fr.count /\ locals.buffptr = p
      <3> HIDE DEF p
      <3> QED
        BY <1>3 DEF ReadFrame
    <2> HIDE DEF locals
    <2>5. pc'[t] = "r_copy" /\ frame'[t] = locals
      BY <1>1, <2>1 DEF Goto
    <2>6. Found(locals, at, k, b)
      BY <2>2, <2>4 DEF Found
    <2>7. ReadPromise("r_copy", locals, at, b, B)
      BY <1>7, <2>3, <2>4, <2>6 DEF ReadPromise, Reading
    <2> QED
      BY <1>2, <2>1, <2>5, <2>7
  <1>13. CASE ReadCopy(t)
    <2> DEFINE n == fr.n
               byte == fr.byte
               e == b.entry[fr.slot]
               reply == Result("read", fr.count, n, Copied(t))
    <2>1. pc[t] = "r_copy" /\ f_pos' = [f_pos EXCEPT ![t] = Advanced(t)] /\ Goto(t, "ret", reply)
      BY <1>13 DEF ReadCopy
    <2>2. PICK k \in 1 .. Count(b) : Found(fr, at, k, b)
      BY <1>10, <2>1
    <2>3. n \in 1 .. fr.count /\ byte + n <= e.size /\ fr.buffptr = e.buffptr
      BY <1>6, <2>1 DEF ReadPromise
    <2> DEFINE lo == len[k - 1]
               hi == len[k]
               s == B[k]
               size == e.size
    <2>4. /\ k \in 1 .. MAX_OPS
          /\ e.buffptr # NULL /\ s = heap[e.buffptr] /\ s \in Seq(Byte) /\ Len(s) = size
          /\ size \in Nat /\ byte \in Nat /\ byte < size /\ byte = at - lo
          /\ hi = lo + size /\ lo \in Nat /\ hi <= all /\ hi \in Nat
          /\ lo <= at /\ at < hi
      BY <1>3, <1>5, <2>2, FoundEntry
    <2>5. Copied(t) = SubSeq(s, byte + 1, byte + n)
      <3>1. CopyInBounds(t)
        BY <2>3, <2>4, DriverAssumption DEF CopyInBounds
      <3> QED
        BY <2>3, <2>4, <3>1 DEF Copied
    <2>6. /\ reply.arg = fr.count /\ reply.offset = n /\ reply.call = "read"
          /\ reply.data = SubSeq(s, byte + 1, byte + n)
      BY <2>5 DEF Result
    <2> HIDE DEF reply
    <2>7. /\ at + n \in Int /\ 0 <= at + n /\ 2 * (at + n) < SizeMod /\ (at + n) - n = at
          /\ at + n <= hi /\ at < all
      <3>1. n \in Nat /\ byte + n <= size /\ at \in Nat
        BY <1>3, <1>4, <2>3
      <3> HIDE DEF n, byte, size, lo, hi, at, all
      <3> QED
        BY <1>8, <2>4, <3>1, DriverAssumption
    <2>8. Advanced(t) = at + n
      BY <2>7, Signed DEF Advanced
    <2>9. pc'[t] = "ret" /\ frame'[t] = reply /\ f_pos'[t] = at + n
      BY <1>1, <2>1, <2>8 DEF Goto
    <2>10. ReadReply(reply, at, b, B)
      <3>1. /\ reply.arg # 0 /\ reply.offset \in 1 .. reply.arg
            /\ lo <= at /\ at + reply.offset <= hi
            /\ reply.data = SubSeq(s, (at - lo) + 1, (at - lo) + reply.offset)
        BY <1>7, <2>3, <2>4, <2>6, <2>7
      <3>2. ~ (at >= all)
        <4> HIDE DEF at, all
        <4> QED
          BY <1>3, <1>8, <2>7 DEF at
      <3> QED
        BY <2>4, <3>1, <3>2 DEF ReadReply
    <2>11. ReadPromise("ret", reply, at + n, b, B)
      BY <2>6, <2>7, <2>10 DEF ReadPromise, Reading
    <2> QED
      BY <1>2, <2>9, <2>11
  <1>14. ~ ReadFindOutside(t)
    <2>1. circ_buf.out_offs \in 0 .. MAX_OPS - 1
      BY <1>1 DEF Buffer, Slot
    <2> QED
      BY <2>1, BufferAssumption DEF ReadFindOutside
  <1> QED
    BY <1>9, <1>11, <1>12, <1>13, <1>14 DEF ReadStep


(* No other step of a thread makes it a reader or gives it a read's reply. *)
LEMMA NotReading ==
  ASSUME Inv, NEW t \in Thread,
         \/ aesd_open(t) \/ aesd_release(t)
         \/ \E chunk \in Chunk : WriteCall(t, chunk)
         \/ \E seek \in SeekTo : SeekCall(t, seek)
         \/ \E off \in Offsets, whence \in {SEEK_SET, SEEK_CUR, SEEK_END} : aesd_llseek(t, off, whence)
         \/ WriteLock(t) \/ SeekLock(t) \/ LockInterrupted(t)
         \/ WriteStep(t) \/ SeekStep(t) \/ Return(t)
  PROVE  ReadPromise(pc'[t], frame'[t], f_pos'[t], circ_buf', Blocks(heap', circ_buf'))
  <1> DEFINE Kept == ReadPromise(pc'[t], frame'[t], f_pos'[t], circ_buf', Blocks(heap', circ_buf'))
  <1>1. pc \in [Thread -> Location] /\ DOMAIN frame = Thread
    BY DEF Inv, SharedTypeOK, Control
  <1>2. ASSUME pc'[t] \notin Reading \cup {"ret"} PROVE Kept
    BY <1>2 DEF ReadPromise, Reading
  <1>3. ASSUME NEW where, pc' = [pc EXCEPT ![t] = where], where \notin Reading \cup {"ret"} PROVE Kept
    <2>1. pc'[t] = where
      BY <1>1, <1>3
    <2> QED
      BY <1>2, <1>3, <2>1
  <1>4. ASSUME NEW c \in {"write", "ioctl", "error"}, NEW a, NEW o, NEW d, Goto(t, "ret", Result(c, a, o, d))
        PROVE  Kept
    <2>1. frame'[t].call = c /\ pc'[t] = "ret"
      BY <1>1, <1>4 DEF Goto, Result
    <2> QED
      BY <2>1 DEF ReadPromise, Reading
  <1>5. ASSUME NEW where, NEW locals, Goto(t, where, locals), where \notin Reading \cup {"ret"} PROVE Kept
    BY <1>3, <1>5 DEF Goto
  <1>6. CASE aesd_open(t) \/ aesd_release(t)
             \/ \E off \in Offsets, whence \in {SEEK_SET, SEEK_CUR, SEEK_END} : aesd_llseek(t, off, whence)
    BY <1>2, <1>6 DEF aesd_open, aesd_release, aesd_llseek, Reading
  <1>7. CASE \/ \E chunk \in Chunk : WriteCall(t, chunk)
             \/ \E seek \in SeekTo : SeekCall(t, seek)
    <2>1. ASSUME NEW chunk \in Chunk, WriteCall(t, chunk) PROVE Kept
      BY <1>5, <2>1 DEF WriteCall, Begin, Reading
    <2>2. ASSUME NEW seek \in SeekTo, SeekCall(t, seek) PROVE Kept
      BY <1>5, <2>2 DEF SeekCall, Begin, Reading
    <2> QED
      BY <1>7, <2>1, <2>2
  <1>8. CASE WriteLock(t) \/ SeekLock(t)
    BY <1>3, <1>8 DEF WriteLock, SeekLock, Reading
  <1>9. CASE LockInterrupted(t) \/ Return(t)
    BY <1>4, <1>5, <1>9 DEF LockInterrupted, Return, Reading
  <1>10. CASE WriteStep(t)
    <2>1. CASE WriteStore(t)
      <3>1. PICK where \in {"add_buffptr", "w_unlock"} : pc' = [pc EXCEPT ![t] = where]
        BY <2>1 DEF WriteStore
      <3> QED
        BY <1>3, <3>1 DEF Reading
    <2>2. CASE WriteCopyFault(t) \/ WriteAllocFault(t) \/ WriteUnlock(t)
      BY <1>4, <1>5, <2>2 DEF WriteCopyFault, WriteAllocFault, WriteUnlock, Reading
    <2>3. CASE AddBuffptr(t)
      BY <1>5, <2>3 DEF AddBuffptr, Reading
    <2>4. CASE AddRest(t)
      <3>1. PICK where \in Publishing \cup {"w_free"} : pc' = [pc EXCEPT ![t] = where]
        BY <2>4, AddRestMoves
      <3> QED
        BY <1>3, <3>1 DEF Publishing, Reading
    <2>5. CASE WriteFree(t)
      BY <1>3, <2>5 DEF WriteFree, Reading
    <2> QED
      BY <1>10, <2>1, <2>2, <2>3, <2>4, <2>5 DEF WriteStep, AddStep, AddRest
  <1>11. CASE SeekStep(t)
    <2>1. CASE SeekReject(t) \/ SeekCopyFault(t) \/ SeekAllocFault(t)
      BY <1>4, <1>5, <2>1 DEF SeekReject, SeekCopyFault, SeekAllocFault, Reading
    <2>2. CASE SeekCopy(t)
      <3>1. PICK data : Goto(t, "ret", Result("ioctl", frame[t].write_cmd, frame[t].offset, data))
        BY <2>2 DEF SeekCopy
      <3> QED
        BY <1>4, <3>1
    <2> QED
      BY <1>11, <2>1, <2>2 DEF SeekStep
  <1> QED
    BY <1>6, <1>7, <1>8, <1>9, <1>10, <1>11

(* Every step keeps what the reads know. *)
LEMMA NextReadPromises ==
  ASSUME "copy_to" \notin Faults, Inv, Locals, Alone, ReadPromises, ContentFits, [Next]_vars
  PROVE  ReadPromises'
  <1>1. CASE UNCHANGED vars
    <2>1. UNCHANGED <<circ_buf, heap, f_pos, pc, frame, overlap>>
      BY <1>1 DEF vars, dev
    <2> QED
      BY <2>1 DEF ReadPromises
  <1>2. CASE aesd_init_module \/ aesd_cleanup_module \/ RegisterFault \/ SetupAllocFault
    <2>1. opened = {} /\ UNCHANGED pc
      BY <1>2 DEF aesd_init_module, aesd_cleanup_module, RegisterFault, SetupAllocFault, Inv, Control
    <2>2. \A t \in Thread : pc'[t] \notin Reading \cup {"ret"}
      BY <2>1, NobodyInside DEF Reading
    <2> QED
      BY <2>2 DEF ReadPromises, ReadPromise, Reading
  <1>3. ASSUME NEW t \in Thread,
               \/ aesd_open(t) \/ aesd_release(t)
               \/ Call(t) \/ WriteLock(t) \/ SeekLock(t) \/ LockInterrupted(t) \/ Step(t)
        PROVE  ReadPromises'
    <2>1. Apart(t)
      BY <1>3, StepApart
    <2>2. ASSUME t \notin overlap'
          PROVE  ReadPromise(pc'[t], frame'[t], f_pos'[t], circ_buf', Blocks(heap', circ_buf'))
      <3>1. CASE ReadStep(t)
        <4>1. t \notin overlap
          BY <2>2, <3>1 DEF ReadStep, ReadFind, ReadFindOutside, ReadSize, ReadBuffptr, ReadCopy
        <4> QED
          BY <3>1, <4>1, ReadStepKept
      <3>2. CASE \E count \in Counts : ReadTotal(t, count)
        BY <2>2, <3>2, ReadTotalKept
      <3>3. CASE ~ ReadStep(t) /\ ~ \E count \in Counts : ReadTotal(t, count)
        BY <1>3, <3>3, NotReading DEF Call, Step
      <3> QED
        BY <3>1, <3>2, <3>3
    <2>3. ASSUME NEW u \in Thread \ {t}, u \notin overlap'
          PROVE  ReadPromise(pc'[u], frame'[u], f_pos'[u], circ_buf', Blocks(heap', circ_buf'))
      <3>1. CASE pc[u] = Idle
        BY <2>1, <3>1 DEF Apart, ReadPromise, Reading
      <3>2. CASE pc[u] # Idle
        <4>1. /\ pc'[u] = pc[u] /\ frame'[u] = frame[u] /\ f_pos'[u] = f_pos[u] /\ u \notin overlap
              /\ circ_buf' = circ_buf /\ Blocks(heap', circ_buf') = Blocks(heap, circ_buf)
          BY <2>1, <2>3, <3>2 DEF Apart
        <4>2. ReadPromise(pc[u], frame[u], f_pos[u], circ_buf, Blocks(heap, circ_buf))
          BY <4>1 DEF ReadPromises
        <4> QED
          BY <4>1, <4>2
      <3> QED
        BY <3>1, <3>2
    <2> QED
      BY <2>2, <2>3 DEF ReadPromises
  <1> QED
    BY <1>1, <1>2, <1>3 DEF Next

(* A read that no add_entry overlaps returns the bytes at its position, at *)
(* least one and at most count of them unless the position is at or past   *)
(* the end, and moves the position past them: for any array size, any      *)
(* commands and any number of threads, as long as copies to the user       *)
(* succeed and the content is shorter than the largest loff_t.  What fails *)
(* in a write or a seek does not matter.                                   *)
THEOREM DriverQuietReadIsExact ==
  ASSUME "copy_to" \notin Faults
  PROVE  Spec /\ []ContentFits => []QuietReadIsExact
  <1> DEFINE All == Inv /\ Locals /\ Alone /\ ReadPromises
  <1>1. Init => All
    <2>1. Init => Alone /\ ReadPromises
      BY DEF Init, Alone, ReadPromises, ReadPromise, Reading
    <2> QED
      BY <2>1, InitInv, InitLocals
  <1>2. All /\ ContentFits /\ [Next]_vars => All'
    BY NextInv, NextLocals, NextAlone, NextReadPromises
  <1>3. All => QuietReadIsExact
    <2> SUFFICES ASSUME All, NEW t \in Thread, Undisturbed(t, "read")
                 PROVE  LET r == frame[t]
                            before == f_pos[t] - r.offset
                        IN  IF r.arg = 0 \/ before >= Len(Stream)
                              THEN r.data = << >> /\ r.offset = 0
                              ELSE /\ r.offset \in 1 .. r.arg
                                   /\ r.data = SubSeq(Stream, before + 1, before + r.offset)
      BY DEF QuietReadIsExact
    <2> DEFINE r == frame[t]
               before == f_pos[t] - r.offset
               B == Blocks(heap, circ_buf)
               len == SearchedLength(circ_buf)
               all == len[MAX_OPS]
               n == r.offset
    <2>1. pc[t] = "ret" /\ t \notin overlap /\ r.call = "read"
      BY DEF Undisturbed
    <2>2. Sound(circ_buf)
      BY <2>1, AloneSound DEF Publishing
    <2>3. r.arg \in Nat /\ n \in Nat /\ before \in Int
      BY <2>1 DEF Locals, LocalsOf, Reply
    <2>4. ReadReply(r, before, circ_buf, B)
      <3>1. ReadPromise(pc[t], r, f_pos[t], circ_buf, B)
        BY <2>1 DEF ReadPromises
      <3> QED
        BY <2>1, <3>1 DEF ReadPromise
    <2>5. all \in Nat /\ Len(Stream) = all
      <3>1. all \in Nat
        BY <2>2, BlocksLengths, BufferAssumption DEF Lengths
      <3>2. Len(Stream) = all - 0
        BY <2>2, StreamIsRest DEF IsRest
      <3>3. all - 0 = all
        BY <3>1
      <3> QED
        BY <3>2, <3>3
    <2>6. CASE r.arg = 0 \/ before >= all
      BY <2>4, <2>5, <2>6 DEF ReadReply
    <2>7. CASE ~ (r.arg = 0 \/ before >= all)
      <3>1. r.arg # 0 /\ before < all
        <4> HIDE DEF before, all
        <4> QED
          BY <2>3, <2>5, <2>7
      <3>2. n \in 1 .. r.arg
        BY <2>4, <3>1 DEF ReadReply
      <3>3. PICK k \in 1 .. MAX_OPS :
              /\ len[k - 1] <= before /\ before + n <= len[k]
              /\ r.data = SubSeq(B[k], (before - len[k - 1]) + 1, (before - len[k - 1]) + n)
        BY <2>4, <3>1 DEF ReadReply
      <3> DEFINE lo == len[k - 1]
                 hi == len[k]
                 size == Len(B[k])
                 m == before - lo
      <3>4. lo \in Nat /\ hi \in Nat /\ hi = lo + size /\ size \in Nat
        <4>1. k \in 0 .. MAX_OPS /\ k - 1 \in 0 .. MAX_OPS
          BY BufferAssumption
        <4>2. len \in [0 .. MAX_OPS -> Nat] /\ len[k] = len[k - 1] + Len(B[k])
          BY <2>2, BlocksLengths DEF Lengths
        <4>3. B[k] \in Seq(Byte)
          BY <2>2, BlocksLengths DEF Pieces
        <4> QED
          BY <4>1, <4>2, <4>3, LenProperties
      <3>5. m \in Nat /\ m + n <= size /\ lo + m + 1 = before + 1 /\ lo + m + n = before + n
        <4>1. lo <= before /\ before + n <= hi /\ m = before - lo
          BY <3>3
        <4> HIDE DEF m, lo, hi, size, before, n
        <4> QED
          BY <2>3, <3>4, <4>1 DEF n
      <3>6. SubSeq(B[k], m + 1, m + n) = SubSeq(Stream, lo + m + 1, lo + m + n)
        <4> HIDE DEF m, n
        <4> QED
          BY <2>2, <2>3, <3>5, StreamPart DEF n
      <3>7. r.data = SubSeq(Stream, before + 1, before + n)
        BY <3>3, <3>5, <3>6
      <3> QED
        BY <2>5, <2>7, <3>2, <3>7
    <2> QED
      BY <2>6, <2>7
  <1> QED
    BY <1>1, <1>2, <1>3, PTL DEF Spec
=============================================================================

----------------------------- MODULE AesdCharSpec -----------------------------
(***************************************************************************)
(* What the character driver guarantees, and what it does not.             *)
(***************************************************************************)
EXTENDS AesdChar

(* Where the lock holder is; "free" when there is none. *)
Phase == IF lock = NoThread THEN "free" ELSE pc[lock]

(* The types of what the threads share.  An offset is one past the array   *)
(* only while the lock holder has advanced and not yet wrapped it.         *)
SharedTypeOK ==
  /\ module \in {"new", "loaded", "removed", "broken"}
  /\ lock \in Thread \cup {NoThread}
  /\ read_buf \in Entry \cup {NULL}
  /\ circ_buf \in OpenBuffer
  /\ Phase \notin {"wrap_out", "wrap_in"} => circ_buf \in Buffer
  /\ heap \in [Ptr -> Seq(Byte) \cup {Freed}]
  /\ opened \subseteq Thread
  /\ pc \in [Thread -> Location]

(* Type correctness. *)
TypeOK ==
  /\ SharedTypeOK
  /\ lost \subseteq Struct
  /\ f_pos \in [Thread -> Int]
  /\ frame \in [Thread -> WriteFrame \cup ReadFrame \cup SeekFrame \cup Reply \cup {NoFrame}]
  /\ overlap \subseteq Thread

-----------------------------------------------------------------------------
(* The contents of the device. *)

(* A terminated command is on its way into the circular buffer. *)
Committed == Phase \in {"add_buffptr"} \cup Publishing

(* The circular buffer as it will be when that command is in. *)
Settled ==
  CASE Phase = "add_buffptr" -> aesd_circular_buffer_add_entry(circ_buf, read_buf)
    [] Phase = "add_size"    -> AdvanceIn(AdvanceOut(StoreSize(circ_buf, read_buf.size)))
    [] Phase = "add_out"     -> AdvanceIn(AdvanceOut(circ_buf))
    [] Phase = "wrap_out"    -> AdvanceIn(WrapOut(circ_buf))
    [] Phase = "add_in"      -> AdvanceIn(circ_buf)
    [] Phase = "wrap_in"     -> SetFull(WrapIn(circ_buf))
    [] Phase = "set_full"    -> SetFull(circ_buf)
    [] OTHER                 -> circ_buf

(* The commands a buffer holds, oldest first. *)
Commands(b) == [k \in 1 .. Count(b) |-> heap[Contents(b)[k].buffptr]]

Loaded == module = "loaded"

(* The driver implements the device.  A write takes effect when the lock   *)
(* holder has stored its chunk, all at once: no interleaving of writers,   *)
(* no failed copy and no step of add_entry loses, tears, merges or         *)
(* reorders commands.                                                      *)
Device == INSTANCE AesdDevice WITH
  User    <- Thread,
  Bound   <- MAX_OPS,
  users   <- opened,
  pending <- IF ~ Loaded \/ Committed \/ Phase = "w_free" THEN << >> ELSE PendingBytes,
  log     <- IF ~ Loaded THEN << >> ELSE Commands(Settled)

RefinesDevice == Device!Spec

-----------------------------------------------------------------------------
(* Memory. *)

Entries == {circ_buf.entry[i].buffptr : i \in Slot} \ {NULL}

(* What add_entry displaced and aesd_write has still to free. *)
ToFree == IF Phase \in Publishing \cup {"w_free"} THEN {frame[lock].to_free} \ {NULL} ELSE {}

(* The command being assembled, until the circular buffer owns it. *)
Assembled == IF Phase \in Publishing \cup {"w_free"} THEN {} ELSE {Pending.buffptr} \ {NULL}

(* Every block of the driver has exactly one owner (a slot, the read_buf,  *)
(* or a writer about to free it), is allocated, and is as long as its slot *)
(* says: nothing is freed twice, shared, or freed while a slot points to   *)
(* it, in the middle of add_entry and after any failure too.               *)
OneOwner ==
  Loaded =>
    /\ \A p \in Entries \cup ToFree \cup Assembled : heap[p] # Freed
    /\ ToFree \cap Entries = {} /\ Assembled \cap (Entries \cup ToFree) = {}
    /\ \A i, j \in Slot :
         i # j /\ circ_buf.entry[i].buffptr = circ_buf.entry[j].buffptr
           => circ_buf.entry[i].buffptr = NULL
    /\ \A i \in Slot :
         circ_buf.entry[i].buffptr # NULL /\ ~ (Phase = "add_size" /\ i = circ_buf.in_offs)
           => Len(heap[circ_buf.entry[i].buffptr]) = circ_buf.entry[i].size

(* Every allocated block of a command's bytes has an owner. *)
BytesOwned ==
  Loaded => {p \in Ptr : heap[p] # Freed} \subseteq Entries \cup ToFree \cup Assembled

(* While the module is loaded and its allocations succeed, aesd_write      *)
(* leaks no command's bytes.  It does leak the entry struct of every       *)
(* command it adds; and aesd_ioctl leaks its mybuffer, but only together   *)
(* with the lock: a call that has left its critical section still holds    *)
(* it then.                                                                *)
LeaksOnlyStructs ==
  /\ BytesOwned
  /\ Phase \notin Publishing \cup {"w_free"} => ("entry" \in lost <=> Count(circ_buf) > 0)
  /\ "mybuffer" \in lost => lock # NoThread /\ pc[lock] \notin Critical

(* aesd_cleanup_module frees the bytes of every command; of the bytes that *)
(* were ever stored it leaves behind only those of an unterminated one.    *)
CleanupFreesCommands ==
  module = "removed" => {p \in Ptr : heap[p] # Freed} \subseteq {Pending.buffptr}

-----------------------------------------------------------------------------
(* The lock. *)

(* Whoever is between mutex_lock and mutex_unlock holds the lock, whatever *)
(* fails elsewhere: the critical sections of aesd_write and aesd_ioctl     *)
(* never overlap.                                                          *)
MutualExclusion == \A t \in Thread : pc[t] \in Critical => lock = t

(* A lock that is held belongs to a call still inside its critical         *)
(* section: no return path leaves it behind.                               *)
NoReturnWithLock == lock # NoThread => pc[lock] \in Critical

(* Every write and every seek that is called comes back to its caller. *)
CallsReturn == \A t \in Thread : pc[t] \in {"w_lock", "s_lock"} ~> pc[t] = Idle

-----------------------------------------------------------------------------
(* Reads and seeks. *)

(* All commands of the circular buffer end to end. *)
Stream ==
  LET cat[k \in 0 .. Count(circ_buf)] ==
        IF k = 0 THEN << >> ELSE cat[k - 1] \o Commands(circ_buf)[k]
  IN  cat[Count(circ_buf)]

(* t has its reply, and circ_buf did not change during the call. *)
Undisturbed(t, call) == pc[t] = "ret" /\ t \notin overlap /\ frame[t].call = call

(* A read that no add_entry overlaps returns the bytes at its position, at *)
(* least one and at most count of them unless the position is at or past   *)
(* the end, and moves the position past them: a reader that keeps reading  *)
(* misses and repeats nothing.                                             *)
QuietReadIsExact ==
  \A t \in Thread : Undisturbed(t, "read") =>
    LET r == frame[t]
        before == f_pos[t] - r.offset
    IN  IF r.arg = 0 \/ before >= Len(Stream)
          THEN r.data = << >> /\ r.offset = 0
          ELSE /\ r.offset \in 1 .. r.arg
               /\ r.data = SubSeq(Stream, before + 1, before + r.offset)

(* The position of command k in the stream, counting commands from 0. *)
StartOf(k) ==
  LET pos[i \in 0 .. k] == IF i = 0 THEN 0 ELSE pos[i - 1] + Len(Commands(circ_buf)[i])
  IN  pos[k]

InRange(r) == r.arg < Count(circ_buf) /\ r.offset < Len(Commands(circ_buf)[r.arg + 1])

(* A seek to an existing byte of an existing command hands back the stream *)
(* from that byte on, unless copying from or to the user failed.           *)
SeekReturnsRest ==
  \A t \in Thread : Undisturbed(t, "ioctl") /\ InRange(frame[t]) /\ frame[t].data # Garbage =>
    frame[t].data =
      SubSeq(Stream, StartOf(frame[t].arg) + frame[t].offset + 1, Len(Stream))

(* "Any necessary locking must be performed by caller": the bytes a read   *)
(* copies are allocated and belong to the entry it found.                  *)
ReadsLiveMemory == \A t \in Thread : pc[t] = "r_copy" => CopyInBounds(t)
=============================================================================

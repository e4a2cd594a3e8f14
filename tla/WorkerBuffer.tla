----------------------------- MODULE WorkerBuffer -----------------------------
(***************************************************************************)
(* How a worker of the data-file build gathers a packet: the receive loop  *)
(* of connection_worker and the book-keeping of its buffer.  Bytes are     *)
(* numbered in the order the client sends them.                            *)
(***************************************************************************)
EXTENDS Integers, Sequences

CONSTANTS BUFFER_SIZE, MaxBytes  \* bytes a client sends

VARIABLES
  buffer,    \* the bytes received since the last dump
  block,     \* bytes allocated for it
  buffer_size, available_buffer, total_bytes_received, buffer_position,
  received,  \* bytes the client has sent
  newlines,  \* which of them are newlines
  dumped,    \* what dump_buffer_to_file was given so far
  short,     \* a receive since the last dump left some of its room unused
  overflow   \* recv was given more room than the block has

vars == <<buffer, block, buffer_size, available_buffer, total_bytes_received, buffer_position,
          received, newlines, dumped, short, overflow>>

Init ==
  /\ buffer = << >> /\ block = BUFFER_SIZE
  /\ buffer_size = BUFFER_SIZE /\ available_buffer = BUFFER_SIZE
  /\ total_bytes_received = 0 /\ buffer_position = 0
  /\ received = 0 /\ newlines = {} /\ dumped = << >> /\ short = FALSE /\ overflow = FALSE

(* Is one of the bytes just received the delimiter? *)
find_delimter_position(buf, pos, n, nl) == \E i \in pos + 1 .. pos + n : buf[i] \in nl

(* Fault: the block is not made larger when it is full. *)
More_NoGrow(n) ==
  /\ buffer_position' = buffer_position + n
  /\ available_buffer' = BUFFER_SIZE
  /\ total_bytes_received' = total_bytes_received + n
  /\ UNCHANGED <<buffer_size, block, dumped>>

(* No delimiter: there is more to come.  The room left is computed from    *)
(* this receive alone, and the block grows only when it is exactly full.   *)
More(n) ==
  LET full == buffer_position + n = buffer_size
  IN  /\ buffer_position' = buffer_position + n
      /\ buffer_size' = IF full THEN buffer_size + BUFFER_SIZE ELSE buffer_size
      /\ block' = IF full THEN buffer_size + BUFFER_SIZE ELSE block
      /\ available_buffer' = IF full THEN buffer_size' - (total_bytes_received + n) ELSE buffer_size - n
      /\ total_bytes_received' = total_bytes_received + n
      /\ UNCHANGED dumped

(* Fault: the count is not reset, so the next packet brings the old one along. *)
Dump_KeepTotal(n) ==
  /\ dumped' = dumped \o SubSeq(buffer', 1, total_bytes_received + n)
  /\ block' = BUFFER_SIZE /\ available_buffer' = BUFFER_SIZE
  /\ total_bytes_received' = total_bytes_received + n /\ buffer_position' = 0
  /\ UNCHANGED buffer_size

(* A delimiter: everything received is dumped, the answer is sent and the  *)
(* buffer starts again at its first size; buffer_size keeps its value.     *)
Dump(n) ==
  /\ dumped' = dumped \o SubSeq(buffer', 1, total_bytes_received + n)
  /\ block' = BUFFER_SIZE /\ available_buffer' = BUFFER_SIZE
  /\ total_bytes_received' = 0 /\ buffer_position' = 0
  /\ UNCHANGED buffer_size

(* recv stores n bytes behind those already there, as many as it was told  *)
(* there is room for.  Writing past the block is the end of what the code  *)
(* can be said to do.                                                      *)
recv(n, nl) ==
  /\ ~overflow /\ received + n <= MaxBytes
  /\ received' = received + n /\ newlines' = newlines \cup nl
  /\ overflow' = (total_bytes_received + n > block)
  /\ short' = (n < available_buffer \/ (short /\ total_bytes_received # 0))
  /\ buffer' = SubSeq(buffer, 1, total_bytes_received) \o [i \in 1 .. n |-> received + i]
  /\ IF find_delimter_position(buffer', buffer_position, n, newlines') THEN Dump(n) ELSE More(n)

Next ==
  \E n \in 1 .. available_buffer : \E nl \in SUBSET (received + 1 .. received + n) : recv(n, nl)

-----------------------------------------------------------------------------
(* Properties. *)

(* The bytes that wait for the rest of their packet. *)
Waiting == SubSeq(buffer, 1, total_bytes_received)

(* However the packets are cut into receives, the worker dumps the bytes   *)
(* it received, each once and in order, and none that follow a newline is  *)
(* left waiting with it: as long as no receive has gone past the block.    *)
DumpedInOrder ==
  ~overflow => /\ dumped \o Waiting = [i \in 1 .. received |-> i]
               /\ buffer_position = total_bytes_received
               /\ \A i \in 1 .. Len(Waiting) : Waiting[i] \notin newlines

(* available_buffer is not what is left of the block, yet a receive goes   *)
(* past the block only after an earlier receive of the same packet left    *)
(* room unused, or after an earlier packet made the buffer grow: a first   *)
(* packet of any length that arrives in full receives is gathered safely.  *)
FullReceiveFits ==
  overflow' => \/ short /\ total_bytes_received # 0
               \/ dumped # << >> /\ buffer_size > BUFFER_SIZE
=============================================================================

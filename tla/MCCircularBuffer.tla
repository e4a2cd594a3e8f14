--------------------------- MODULE MCCircularBuffer ---------------------------
(* A four-slot buffer; one more address than slots, as aesd_write needs. *)
EXTENDS CircularBufferSpec, TLC

Addresses == Permutations(Ptr)
=============================================================================

------------------------------ MODULE MCAesdChar ------------------------------
(* Instances of the character driver for TLC. *)
EXTENDS AesdCharSpec, TLC

CONSTANTS t1, t2, a, b, nl

Bytes == {a, b, nl}

(* Part of a command, its end, and a newline that is not the last byte. *)
Parts == {<<a>>, <<nl>>, <<nl, a>>}

(* Whole commands of different lengths. *)
Whole == {<<a, nl>>, <<b, b, nl>>}

Part == {<<a>>, <<b, nl>>}

None    == {}
Seek    == {<<0, 0>>}
Seeks   == (0 .. MAX_OPS - 1) \X (0 .. 2)
SeekTwo == {<<0, 0>>, <<MAX_OPS + 1, 0>>}
SeekAny == Seeks \cup {<<MAX_OPS + 1, 0>>}

Moves == {-1, 0, 1}

Same    == Permutations(Thread) \cup Permutations(Ptr)
SamePtr == Permutations(Ptr)
=============================================================================

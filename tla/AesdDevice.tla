------------------------------ MODULE AesdDevice ------------------------------
(***************************************************************************)
(* What the character device promises its callers, whatever it does        *)
(* inside: a write by one of its users appends to the command being        *)
(* assembled, and a chunk that contains a newline ends it and adds it,     *)
(* whole, to the log of the last Bound commands.  Once nobody has the      *)
(* device open it may be removed, which forgets everything.                *)
(***************************************************************************)
EXTENDS Naturals, Sequences

CONSTANTS User, Bound, Byte, Newline, Chunk

VARIABLES users, pending, log

vars == <<users, pending, log>>

Kept(s, x) == IF Len(s) < Bound THEN Append(s, x) ELSE Tail(Append(s, x))

Init == users = {} /\ pending = << >> /\ log = << >>

Open(u) ==
  /\ u \notin users
  /\ users' = users \cup {u}
  /\ UNCHANGED <<pending, log>>

Close(u) ==
  /\ u \in users
  /\ users' = users \ {u}
  /\ UNCHANGED <<pending, log>>

Take(chunk) ==
  IF \E i \in 1 .. Len(chunk) : chunk[i] = Newline
    THEN pending' = << >> /\ log' = Kept(log, pending \o chunk)
    ELSE pending' = pending \o chunk /\ UNCHANGED log

Write(u, chunk) ==
  /\ u \in users
  /\ Take(chunk)
  /\ UNCHANGED users

Remove ==
  /\ users = {}
  /\ pending' = << >> /\ log' = << >>
  /\ UNCHANGED users

Next ==
  \/ Remove
  \/ \E u \in User : Open(u) \/ Close(u) \/ \E chunk \in Chunk : Write(u, chunk)

Spec == Init /\ [][Next]_vars
=============================================================================

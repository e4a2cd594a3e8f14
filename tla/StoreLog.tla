------------------------------- MODULE StoreLog -------------------------------
(***************************************************************************)
(* What the server promises its clients, whatever its threads do: a packet *)
(* is appended whole, a timestamp with its newline, and the answer to a    *)
(* packet is everything stored at one moment after the packet was.         *)
(***************************************************************************)
EXTENDS Sequences

CONSTANTS Conn, Packet(_), Stamp

VARIABLES
  content,  \* everything stored
  out,      \* the answers each client has had, one after another
  owed,     \* the clients whose packet is stored and not answered
  gone      \* the clients that have hung up; their answers are lost

vars == <<content, out, owed, gone>>

Init == content = << >> /\ out = [c \in Conn |-> << >>] /\ owed = {} /\ gone = {}

Put(c) ==
  /\ c \notin owed
  /\ \E p \in Packet(c) : content' = Append(content, p)
  /\ owed' = owed \cup {c}
  /\ UNCHANGED <<out, gone>>

Tick == content' = content \o Stamp /\ UNCHANGED <<out, owed, gone>>

Answer(c) ==
  /\ c \in owed
  /\ owed' = owed \ {c}
  /\ out' = IF c \in gone THEN out ELSE [out EXCEPT ![c] = @ \o content]
  /\ UNCHANGED <<content, gone>>

Leave(c) == gone' = gone \cup {c} /\ out' = [out EXCEPT ![c] = << >>] /\ UNCHANGED <<content, owed>>

Next == Tick \/ \E c \in Conn : Put(c) \/ Answer(c) \/ Leave(c)

Spec == Init /\ [][Next]_vars
=============================================================================

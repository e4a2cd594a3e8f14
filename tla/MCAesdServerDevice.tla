-------------------------- MODULE MCAesdServerDevice --------------------------
(* Two clients.  Connections are interchangeable. *)
EXTENDS AesdServerDevice

(* A part of a command, the end of one, two seeks, and a text that is too  *)
(* long to be one.                                                         *)
Texts ==
  {[junk |-> << >>, named |-> n, rest |-> r] : n \in {FALSE}, r \in {<<1>>, <<1, LineEnd>>}}
  \cup {[junk |-> << >>, named |-> TRUE, rest |-> r] :
          r \in {<<0, Comma, 1, LineEnd>>, <<1, Comma, 0, LineEnd>>,
                 <<0, 0, 0, 0, Comma, 0, 0, 0, LineEnd>>}}

Connections == Permutations(Conn)
=============================================================================

---------------------------- MODULE MCServerParts ----------------------------
(***************************************************************************)
(* The sequential parts of the server, each on its own: the tail queue,    *)
(* the receive buffer and the parser of seek commands.  part says which    *)
(* one a behaviour is about; the variables of the others are not used.     *)
(***************************************************************************)
EXTENDS TailQueue, TLC

CONSTANTS BUFFER_SIZE, MaxBytes, Unread, Digit

ASSUME PartsAssumption == BUFFER_SIZE \in Nat \ {0} /\ MaxBytes \in Nat /\ Digit \subseteq 0 .. 9

VARIABLES
  part,
  q, lists,
  buffer, block, buffer_size, available_buffer, total_bytes_received, buffer_position,
  received, newlines, dumped, short, overflow,
  message, seek

(* Buffers with up to one character, a newline or a colon, before the text *)
(* and up to eight, digits, commas and newlines, behind it.                *)
Text == [junk : UNION {[1 .. n -> {11, 12}] : n \in 0 .. 1}, named : BOOLEAN,
         rest : UNION {[1 .. n -> Digit \cup {10, 11}] : n \in 3 .. 8}]

List   == INSTANCE TailQueueSpec
Gather == INSTANCE WorkerBuffer
Parse  == INSTANCE SeekCommandSpec WITH Message <- Text

list   == <<q, lists>>
gather == <<buffer, block, buffer_size, available_buffer, total_bytes_received, buffer_position,
            received, newlines, dumped, short, overflow>>
parse  == <<message, seek>>
vars == <<part, list, gather, parse>>

NoList == q = NULL /\ lists = NULL
NoGather ==
  /\ buffer = NULL /\ block = NULL /\ buffer_size = NULL /\ available_buffer = NULL
  /\ total_bytes_received = NULL /\ buffer_position = NULL /\ received = NULL
  /\ newlines = NULL /\ dumped = NULL /\ short = NULL /\ overflow = NULL
NoParse == message = NULL /\ seek = NULL

Init ==
  \/ part = "list" /\ List!Init /\ NoGather /\ NoParse
  \/ part = "gather" /\ NoList /\ Gather!Init /\ NoParse
  \/ part = "parse" /\ NoList /\ NoGather /\ Parse!Init

Next ==
  \/ part = "list" /\ List!Next /\ UNCHANGED <<part, gather, parse>>
  \/ part = "gather" /\ Gather!Next /\ UNCHANGED <<part, list, parse>>
  \/ part = "parse" /\ Parse!Next /\ UNCHANGED <<part, list, gather>>

Spec == Init /\ [][Next]_vars

(* Elements and heads are interchangeable. *)
Interchangeable == Permutations(Node) \cup Permutations(QHead)

-----------------------------------------------------------------------------
(* What TailQueueSpec says of the macros, about the tail queue's part. *)
TypeOK == part = "list" => List!TypeOK

(* The links of every list are those of the sequence the program means. *)
ListsAreLinked == part = "list" => List!ListsAreLinked

(* Both loops visit every element of a list once and in order. *)
LoopsVisitAll == part = "list" => List!LoopsVisitAll

(* The worker dumps the bytes it received, each once and in order. *)
DumpedInOrder == part = "gather" => Gather!DumpedInOrder

(* A first packet that arrives in full receives never goes past the block. *)
FullReceivesFit == [][part = "gather" => Gather!FullReceiveFits]_vars

(* A seek command is read as the numbers it holds, and data never is one. *)
CommandsAreRead == part = "parse" => Parse!CommandsAreRead
=============================================================================

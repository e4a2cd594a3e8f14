--------------------------- MODULE SeekCommandSpec ---------------------------
(* One call of handle_ioctl_commainds, for every buffer of a given set. *)
EXTENDS SeekCommand

CONSTANT Message

VARIABLES message, seek  \* what was received, and what was made of it

vars == <<message, seek>>

Pending == [write_cmd |-> -2, write_cmd_offset |-> -2]
NoCommand == [write_cmd |-> -1, write_cmd_offset |-> -1]  \* the bytes are data

Init == message \in Message /\ seek = Pending

handle_ioctl_commainds ==
  /\ seek = Pending
  /\ seek' \in IF IsCommand(message) THEN Seeks(message) ELSE {NoCommand}
  /\ UNCHANGED message

Next == handle_ioctl_commainds

(* Data is never taken for a command, and a well-formed command always is, *)
(* and is read as the numbers it holds although the string of its offset   *)
(* is not terminated where it ends: a newline stops atoi before memory     *)
(* that was never written.                                                 *)
CommandsAreRead ==
  seek # Pending => /\ ~message.named => seek = NoCommand
                    /\ WellFormed(message) => seek = Numbers(message)
=============================================================================

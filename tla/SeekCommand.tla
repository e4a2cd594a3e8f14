----------------------------- MODULE SeekCommand -----------------------------
(***************************************************************************)
(* handle_ioctl_commainds: which received buffers are seek commands, and   *)
(* what command and offset it reads out of them.  A buffer is what comes   *)
(* before the text AESDCHAR_IOCSEEKTO: (junk), that text or not (named),   *)
(* and what comes behind it (rest).  A digit is its value, any other       *)
(* character a number above nine.                                          *)
(***************************************************************************)
EXTENDS Integers, Sequences

CONSTANT Unread  \* the numbers that memory never written can be read as

Comma == 10
LineEnd == 11
Colon == 12
Null == 13

Prefix == 19     \* characters of "AESDCHAR_IOCSEEKTO:"
ArraySize == 4   \* of start_buffer_string and start_offset_string

Length(m) == Len(m.junk) + Prefix + Len(m.rest)
EndsLine(m) == \E i \in 1 .. Len(m.rest) : m.rest[i] = LineEnd

(* Fault: the shortest commands are not looked at. *)
IsCommand_Short(m) == Length(m) > 23 /\ Length(m) <= 27 /\ m.named

IsCommand(m) == Length(m) >= 23 /\ Length(m) <= 27 /\ m.named

(* The loop looks for the first colon of the buffer, wherever it is: what  *)
(* lies behind it.  Characters of the text itself are shown as colons.     *)
BehindColon(m) ==
  LET early == {i \in 1 .. Len(m.junk) : m.junk[i] = Colon}
  IN  IF early = {} THEN m.rest
      ELSE LET i == CHOOSE k \in early : \A x \in early : k <= x
           IN  SubSeq(m.junk, i + 1, Len(m.junk)) \o [k \in 1 .. Prefix |-> Colon] \o m.rest

(* Where a field ends: the first comma, or the end of the buffer. *)
CommaAt(s) ==
  LET commas == {i \in 1 .. Len(s) : s[i] = Comma}
  IN  IF commas = {} THEN Len(s) + 1 ELSE CHOOSE i \in commas : \A x \in commas : i <= x

(* The first string gets a null behind it; the second one does not: its    *)
(* null is stored at the newline's place in the buffer, past the end of    *)
(* the array, in memory that is taken not to be read again.                *)
StartBufferString(s) == SubSeq(s, 1, CommaAt(s) - 1) \o <<Null>>
StartOffsetString(s) == SubSeq(s, CommaAt(s) + 1, Len(s))

(* Behind leading newlines, the digits in decimal.  Where nothing ends     *)
(* them the result can be anything.                                        *)
atoi(s) ==
  LET from == CHOOSE i \in 1 .. Len(s) + 1 : /\ \A x \in 1 .. i - 1 : s[x] = LineEnd
                                             /\ i <= Len(s) => s[i] # LineEnd
      to   == CHOOSE i \in from .. Len(s) + 1 : /\ \A x \in from .. i - 1 : s[x] \in 0 .. 9
                                                /\ i <= Len(s) => s[i] \notin 0 .. 9
      value[i \in from - 1 .. Len(s)] == IF i < from THEN 0 ELSE 10 * value[i - 1] + s[i]
  IN  IF to > Len(s) THEN Unread ELSE {value[to - 1]}

(* The requests that a command can turn into.  A string that does not fit  *)
(* its array may spoil the other one as well.                              *)
Seeks(m) ==
  LET s == BehindColon(m)
      fits == Len(StartBufferString(s)) <= ArraySize /\ Len(StartOffsetString(s)) <= ArraySize
  IN  [write_cmd        : IF fits THEN atoi(StartBufferString(s)) ELSE Unread,
       write_cmd_offset : IF fits THEN atoi(StartOffsetString(s)) ELSE Unread]

-----------------------------------------------------------------------------
(* A command as a client is to send it: two numbers of up to three digits  *)
(* with a comma between and a newline behind.                              *)
WellFormed(m) ==
  /\ m.named /\ m.junk = << >>
  /\ LET k == CommaAt(m.rest)
     IN  /\ k \in 2 .. 4 /\ Len(m.rest) \in k + 2 .. k + 4
         /\ m.rest[Len(m.rest)] = LineEnd
         /\ \A i \in 1 .. Len(m.rest) - 1 : i # k => m.rest[i] \in 0 .. 9

(* The number whose decimal digits are x, of which there are one to three. *)
Value(x) ==
  CASE Len(x) = 1 -> x[1]
    [] Len(x) = 2 -> 10 * x[1] + x[2]
    [] Len(x) = 3 -> 100 * x[1] + 10 * x[2] + x[3]

(* What a well-formed command asks for. *)
Numbers(m) ==
  LET k == CommaAt(m.rest)
  IN  [write_cmd        |-> Value(SubSeq(m.rest, 1, k - 1)),
       write_cmd_offset |-> Value(SubSeq(m.rest, k + 1, Len(m.rest) - 1))]
=============================================================================

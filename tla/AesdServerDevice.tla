--------------------------- MODULE AesdServerDevice ---------------------------
(***************************************************************************)
(* The workers of the build for /dev/aesdchar, on the device the driver    *)
(* implements (AesdDevice).  No lock of the server's is involved: what     *)
(* comes in one receive is written at once, and a newline in it makes the  *)
(* worker read the whole device back to its client.  A seek command is     *)
(* carried out by the device, which leaves its answer in the receive       *)
(* buffer.                                                                 *)
(*                                                                         *)
(* AesdDevice says what writes do.  It promises nothing of reads: the      *)
(* driver's take no lock, and are exact only where no write that ends a    *)
(* command runs beside them (QuietReadIsExact in AesdCharSpec).  So a read *)
(* and a write each have a step for the call and one for the return, and   *)
(* of a read that such a write overlaps nothing is assumed.                *)
(***************************************************************************)
EXTENDS SeekCommand, SequencesExt

CONSTANTS
  Conn,
  Bound,      \* commands the device keeps
  Newline,
  SeekText,   \* the characters of a seek command, without its newline
  Message,    \* the texts that clients send, as SeekCommand has them; their
              \* commands are at most Bound: more leaves the device locked
  ReadSize,   \* bytes per read
  MaxPieces   \* receives per connection

VARIABLES
  pending, log,  \* the device
  at,            \* of a worker: "recv", "ioctl", "write" or "read", inside
                 \*   that call "writing" or "reading"; "done"
  text,          \* the text it received last
  buffer,        \* what it received, bytes_received long
  seek,          \* the seek command being carried out
  off,           \* curr_file_offset
  reply,         \* what its last answer to data has sent, while reads are exact
  torn,          \* the clients with a read in that answer that a write overlapped
  pieces, data,  \* receives so far, and how many of them were data
  published      \* every byte of every command the device ever took

device == <<pending, log>>
vars == <<device, at, text, buffer, seek, off, reply, torn, pieces, data, published>>

DataByte(c) == {<<c, k>> : k \in 1 .. MaxPieces}

ASSUME DeviceAssumption ==
  /\ Bound \in Nat \ {0} /\ ReadSize \in Nat \ {0} /\ MaxPieces \in Nat /\ Unread \subseteq Nat
  /\ \A m \in Message : m.junk \in Seq(Nat) /\ m.rest \in Seq(Nat)
  /\ Newline # SeekText
  /\ \A c \in Conn : Newline \notin DataByte(c) /\ SeekText \notin DataByte(c)

Device == INSTANCE AesdDevice WITH
            User  <- Conn,
            users <- {c \in Conn : at[c] \in {"ioctl", "writing", "read", "reading"}},
            Byte  <- (UNION {DataByte(c) : c \in Conn}) \cup {Newline, SeekText},
            Chunk <- {}

Content == FlattenSeq(log)
HasNewline(s) == \E i \in 1 .. Len(s) : s[i] = Newline
NoText == [junk |-> << >>, named |-> FALSE, rest |-> << >>]
NoSeek == [write_cmd |-> 0, write_cmd_offset |-> 0]

Init ==
  /\ at = [c \in Conn |-> "recv"] /\ text = [c \in Conn |-> NoText]
  /\ Device!Init
  /\ buffer = [c \in Conn |-> << >>] /\ seek = [c \in Conn |-> NoSeek]
  /\ off = [c \in Conn |-> 0] /\ reply = [c \in Conn |-> << >>] /\ torn = {}
  /\ pieces = [c \in Conn |-> 0] /\ data = [c \in Conn |-> 0]
  /\ published = << >>

Receive(c, m) ==
  /\ at[c] = "recv" /\ pieces[c] < MaxPieces
  /\ pieces' = [pieces EXCEPT ![c] = @ + 1]
  /\ text' = [text EXCEPT ![c] = m]

(* Data, part of a command or the end of one. *)
recv(c, m) ==
  /\ Receive(c, m) /\ ~IsCommand(m)
  /\ data' = [data EXCEPT ![c] = @ + 1]
  /\ buffer' = [buffer EXCEPT ![c] = <<<<c, data'[c]>>>> \o (IF EndsLine(m) THEN <<Newline>> ELSE << >>)]
  /\ at' = [at EXCEPT ![c] = "write"]
  /\ UNCHANGED <<device, seek, off, reply, torn, published>>

(* What handle_ioctl_commainds takes for a seek command. *)
recv_seek(c, m) ==
  /\ Receive(c, m) /\ IsCommand(m)
  /\ \E s \in Seeks(m) : seek' = [seek EXCEPT ![c] = s]
  /\ buffer' = [buffer EXCEPT ![c] = <<SeekText>> \o (IF EndsLine(m) THEN <<Newline>> ELSE << >>)]
  /\ at' = [at EXCEPT ![c] = "ioctl"]
  /\ UNCHANGED <<device, off, reply, torn, data, published>>

(* What the device answers, as the driver does: the command from the given *)
(* byte on and those after it, until as much is sent as the content is     *)
(* longer than the offset.  Command Bound is taken for the oldest one.     *)
Answer(s) ==
  LET first == IF s.write_cmd = Bound THEN 0 ELSE s.write_cmd
      sent[k \in 0 .. Len(log)] ==
        CASE k <= first -> << >>
          [] k > first /\ Len(sent[k - 1]) >= Len(Content) - s.write_cmd_offset -> sent[k - 1]
          [] OTHER -> sent[k - 1] \o SubSeq(log[k], IF k = first + 1 THEN s.write_cmd_offset + 1 ELSE 1,
                                            Len(log[k]))
  IN  sent[Len(log)]

(* The answer overwrites the front of the buffer.  More than one byte is   *)
(* sent, none is ignored; after exactly one the worker goes on as if what  *)
(* is in the buffer were data.                                             *)
ioctl(c) ==
  /\ at[c] = "ioctl"
  /\ \/ /\ Len(Answer(seek[c])) # 1
        /\ at' = [at EXCEPT ![c] = "recv"]
        /\ UNCHANGED buffer
     \/ /\ Len(Answer(seek[c])) = 1
        /\ at' = [at EXCEPT ![c] = "write"]
        /\ buffer' = [buffer EXCEPT ![c] = Answer(seek[c]) \o @]
  /\ UNCHANGED <<device, text, seek, off, reply, torn, pieces, data, published>>

(* write() is called.  The reads in progress see the struct change, if it  *)
(* ends a command.                                                         *)
WriteCall(c) ==
  /\ at[c] = "write"
  /\ at' = [at EXCEPT ![c] = "writing"]
  /\ torn' = IF HasNewline(buffer[c]) THEN torn \cup {d \in Conn : at[d] = "reading"} ELSE torn
  /\ UNCHANGED <<device, text, buffer, seek, off, reply, pieces, data, published>>

(* Fault: a piece without a newline is not written, as if it were kept. *)
WriteReturn_Ended(c) ==
  /\ at[c] = "writing"
  /\ IF HasNewline(buffer[c])
       THEN /\ Device!Take(buffer[c])
            /\ published' = published \o pending \o buffer[c]
            /\ at' = [at EXCEPT ![c] = "read"]
            /\ off' = [off EXCEPT ![c] = 0] /\ reply' = [reply EXCEPT ![c] = << >>]
            /\ torn' = torn \ {c}
       ELSE at' = [at EXCEPT ![c] = "recv"] /\ UNCHANGED <<device, off, reply, torn, published>>
  /\ UNCHANGED <<text, buffer, seek, pieces, data>>

(* It has taken effect.  A newline starts an answer. *)
WriteReturn(c) ==
  /\ at[c] = "writing"
  /\ Device!Take(buffer[c])
  /\ IF HasNewline(buffer[c])
       THEN /\ published' = published \o pending \o buffer[c]
            /\ at' = [at EXCEPT ![c] = "read"]
            /\ off' = [off EXCEPT ![c] = 0] /\ reply' = [reply EXCEPT ![c] = << >>]
            /\ torn' = torn \ {c}
       ELSE at' = [at EXCEPT ![c] = "recv"] /\ UNCHANGED <<off, reply, torn, published>>
  /\ UNCHANGED <<text, buffer, seek, pieces, data>>

dump_buffer_to_file(c) == WriteCall(c) \/ WriteReturn(c)

(* Each turn seeks to the position reached so far and reads from there. *)
ReadCall(c) ==
  /\ at[c] = "read"
  /\ at' = [at EXCEPT ![c] = "reading"]
  /\ torn' = IF \E d \in Conn : at[d] = "writing" /\ HasNewline(buffer[d]) THEN torn \cup {c} ELSE torn
  /\ UNCHANGED <<device, text, buffer, seek, off, reply, pieces, data, published>>

(* A read that nothing overlaps gives at most ReadSize bytes, and none     *)
(* past the command that holds the position.                               *)
ReadAt(o) ==
  LET ends == {Len(FlattenSeq(SubSeq(log, 1, i))) : i \in 1 .. Len(log)}
      end  == CHOOSE e \in ends : e > o /\ \A x \in ends : x > o => e <= x
  IN  SubSeq(Content, o + 1, IF o + ReadSize < end THEN o + ReadSize ELSE end)

(* Fault: the position moves by the size of the buffer. *)
ReadReturn_BySize(c) ==
  /\ at[c] = "reading" /\ c \notin torn
  /\ IF off[c] < Len(Content)
       THEN /\ reply' = [reply EXCEPT ![c] = @ \o ReadAt(off[c])]
            /\ off' = [off EXCEPT ![c] = @ + ReadSize]
            /\ at' = [at EXCEPT ![c] = "read"]
       ELSE at' = [at EXCEPT ![c] = "recv"] /\ UNCHANGED <<off, reply>>
  /\ UNCHANGED <<device, text, buffer, seek, torn, pieces, data, published>>

(* What was read is sent.  The answer ends when nothing was. *)
ReadReturn(c) ==
  /\ at[c] = "reading" /\ c \notin torn
  /\ IF off[c] < Len(Content)
       THEN /\ reply' = [reply EXCEPT ![c] = @ \o ReadAt(off[c])]
            /\ off' = [off EXCEPT ![c] = @ + Len(ReadAt(off[c]))]
            /\ at' = [at EXCEPT ![c] = "read"]
       ELSE at' = [at EXCEPT ![c] = "recv"] /\ UNCHANGED <<off, reply>>
  /\ UNCHANGED <<device, text, buffer, seek, torn, pieces, data, published>>

(* A read that a write overlaps, or a later one of that answer, whose      *)
(* position may be anything: it gives some bytes or none, or the worker    *)
(* dies in the driver.                                                     *)
ReadTorn(c) ==
  /\ at[c] = "reading" /\ c \in torn
  /\ \E next \in {"read", "recv", "done"} : at' = [at EXCEPT ![c] = next]
  /\ UNCHANGED <<device, text, buffer, seek, off, reply, torn, pieces, data, published>>

dump_file_to_socket(c) == ReadCall(c) \/ ReadReturn(c) \/ ReadTorn(c)

Hangup(c) ==
  /\ at[c] = "recv"
  /\ at' = [at EXCEPT ![c] = "done"]
  /\ UNCHANGED <<device, text, buffer, seek, off, reply, torn, pieces, data, published>>

Next ==
  \E c \in Conn : \/ \E m \in Message : recv(c, m) \/ recv_seek(c, m)
                  \/ ioctl(c) \/ dump_buffer_to_file(c)
                  \/ dump_file_to_socket(c) \/ Hangup(c)

Spec == Init /\ [][Next]_vars

-----------------------------------------------------------------------------
(* Properties. *)

(* The bytes of s that came from client c. *)
Own(c, s) == FlattenSeq([i \in 1 .. Len(s) |-> IF s[i] \in DataByte(c) THEN <<s[i]>> ELSE << >>])

(* Without a lock in the server, no piece is lost, doubled or moved before *)
(* an earlier one of its client on its way to the device, however the      *)
(* clients' pieces mix in one command, and what the device keeps is the    *)
(* latest of it.                                                           *)
PiecesAreKept ==
  /\ \A c \in Conn : LET waiting == IF at[c] \in {"write", "writing"} THEN buffer[c] ELSE << >>
                     IN  Own(c, published \o pending) \o Own(c, waiting) = [k \in 1 .. data[c] |-> <<c, k>>]
  /\ IsSuffix(Content, published)

Answered(c) == at[c] \notin {"read", "reading"} /\ reply[c] # << >> /\ c \notin torn

(* While the device has had no more commands than it keeps, an answer is   *)
(* all there was, from the first command on, and holds what it answers,    *)
(* although other clients write between its reads.  This holds only of an  *)
(* answer none of whose reads ran beside a write that ended a command.     *)
AnswerIsWhole ==
  \A c \in Conn : Answered(c) /\ Content = published =>
    /\ IsPrefix(reply[c], published)
    /\ at[c] = "recv" /\ HasNewline(buffer[c]) /\ Own(c, buffer[c]) # << >>
         => Own(c, reply[c]) = [k \in 1 .. data[c] |-> <<c, k>>]

(* What a worker asks the device for is what its client's text says, and   *)
(* it writes a client's well-formed seek command to the device only when   *)
(* the answer to it is a single byte.                                      *)
SeeksAreOwn ==
  \A c \in Conn : WellFormed(text[c]) =>
    /\ at[c] = "ioctl" => seek[c] = Numbers(text[c])
    /\ at[c] \in {"write", "writing"} => Len(buffer[c]) = 3 /\ buffer[c][2] = SeekText
=============================================================================

---------------------------- MODULE AesdServerSpec ----------------------------
(* What the server keeps true, and what its comments say it does. *)
EXTENDS AesdServer

Labels ==
  {"accept", "accepted", "lock_list", "create", "insert", "start", "loop", "recv", "end", "w_lock", "w_open",
   "w_write", "w_close", "d_lock", "d_open", "d_read", "a_lock", "a_open", "a_text", "a_newline",
   "a_close", "q_quit", "q_join"}

(* Type correctness. *)
TypeOK ==
  /\ alive \in BOOLEAN /\ should_quit \in BOOLEAN
  /\ linked_list_mutex \in {Main, Free} /\ file_mutex \in Thread \cup {Free}
  /\ list \in Seq(Conn)
  /\ node \in [Conn -> {"none", "live", "freed"}]
  /\ thread \in [Conn -> {"none", "running", "done", "joined"}]
  /\ \A t \in Thread : \A i \in 1 .. Len(stack[t]) :
       stack[t][i] \in [at : Labels, f : Fd \cup {0}, off : Nat, e : Conn \cup {Free},
                        sig : {"ALRM", "TERM", "INT", Free}]
  /\ fdtab \in [Fd -> Conn \cup {Free, "listen", "write", "read"}]
  /\ fd \in [Conn -> Fd \cup {0}]
  /\ client \in [Conn -> {"out", "connected", "gone"}]

InWorker(c, labels) == stack[c] # << >> /\ Base(c).at \in labels

(* The threads inside a critical section of file_mutex, in any frame. *)
InFile(t) ==
  \E i \in 1 .. Len(stack[t]) :
    stack[t][i].at \in {"w_open", "w_write", "w_close", "d_open", "d_read",
                        "a_open", "a_text", "a_newline", "a_close"}

(* The data file is used by one thread at a time: a worker appending, a    *)
(* worker sending it back, or a timestamp.                                 *)
FileExclusive == \A t, u \in Thread : InFile(t) /\ InFile(u) => t = u

(* Nodes whose thread has not, or could not, be created. *)
NoThread == {c \in Conn : node[c] # "none" /\ thread[c] = "none"}

(* linked_list_mutex is locked by the accept loop and unlocked by the new  *)
(* worker.  A worker only ever releases the lock that was taken for it,    *)
(* and a lock that nobody is about to release means that a thread could    *)
(* not be created.                                                         *)
HandOver ==
  LET creating == Base(Main).at = "create"
      starting == {c \in Conn : InWorker(c, {"start"})}
  IN  /\ starting # {} => linked_list_mutex = Main /\ ~creating /\ Cardinality(starting) = 1
      /\ linked_list_mutex = Main => creating \/ starting # {} \/ NoThread # {}

(* A node is in the list once, and is freed only after its worker was      *)
(* joined: no worker reads its node, and no shutdown joins through it,     *)
(* after it is gone.                                                       *)
FreedAfterJoin ==
  /\ \A i, j \in 1 .. Len(list) : list[i] = list[j] => i = j
  /\ \A i \in 1 .. Len(list) : node[list[i]] = "live"
  /\ \A c \in Conn : node[c] = "freed" => thread[c] \in {"joined", "none"}

(* Until the server is told to quit a worker's socket is its own while it  *)
(* works, and so is the data file's descriptor, although the numbers of    *)
(* closed descriptors are reused: no close by another thread, and no late  *)
(* close by an earlier owner of the number, hits it.  (The shutdown closes *)
(* the descriptor of every listed node once more, and may hit whatever has *)
(* the number by then: PacketIsInFile.)                                    *)
DescriptorsAreOwn ==
  ~should_quit =>
    /\ \A c \in Conn :
         InWorker(c, {"loop", "recv", "w_lock", "w_open", "w_write", "w_close", "d_lock", "d_open", "d_read"})
           => fd[c] = 0 \/ fdtab[fd[c]] = c
    /\ \A t \in Thread : \A i \in 1 .. Len(stack[t]) :
         stack[t][i].f # 0 => fdtab[stack[t][i].f] = IF stack[t][i].at = "d_read" THEN "read" ELSE "write"

(* What has been stored: the file without a timestamp still being written. *)
Content == IF file # << >> /\ file[Len(file)] = Stamp THEN SubSeq(file, 1, Len(file) - 1) ELSE file

(* The complete answers of a client: without the one being sent. *)
Answers(c) ==
  LET partial == IF InWorker(c, {"d_read"}) THEN Base(c).off ELSE 0
  IN  IF client[c] = "gone" THEN << >> ELSE SubSeq(out[c], 1, Len(out[c]) - partial)

Store == INSTANCE StoreLog WITH
           Packet  <- LAMBDA c : {<<c, k>> : k \in 1 .. MaxPackets},
           Stamp   <- <<Stamp, Newline>>,
           content <- Content,
           out     <- [c \in Conn |-> Answers(c)],
           owed    <- {c \in Conn : InWorker(c, {"w_close", "d_lock", "d_open", "d_read"})},
           gone    <- {c \in Conn : client[c] = "gone"}

(* Until it is told to quit the server is the store of StoreLog: packets   *)
(* and timestamps are never mixed, an answer shows the file as it was at   *)
(* one moment, and holds the packet it answers.                            *)
RefinesStore == Store!Spec

(* A packet whose write has returned is in the file. *)
PacketIsInFile ==
  \A c \in Conn : InWorker(c, {"w_close", "d_lock", "d_open", "d_read"})
                    => \E i \in 1 .. Len(file) : file[i] = <<c, sent[c]>>

(* The shutdown misses at most the worker whose node it came too early to  *)
(* find in the list: when the process ends every other worker has ended,   *)
(* unless a thread could not be created, which cleanup joins regardless.   *)
ExitLeavesOneWorker ==
  ~alive /\ NoThread = {} => Cardinality({c \in Conn : thread[c] = "running"}) <= 1

(* A handler that interrupted the critical section of file_mutex waits for *)
(* the lock that its own thread holds beneath it.                          *)
SelfLocked == \E t \in Thread : file_mutex = t /\ Top(t).at = "a_lock"

(* The quit handler interrupted a timestamp, and joins a worker that       *)
(* waits, itself or in a handler, for the lock the timestamp holds.        *)
JoinsAWaiter ==
  \E t \in Thread, c \in Conn :
    /\ file_mutex = t /\ Top(t).at = "q_join" /\ Top(t).e = c
    /\ stack[c] # << >> /\ Top(c).at \in {"w_lock", "d_lock", "a_lock"}

(* A worker waits for its client, which is still connected: for a packet,  *)
(* or to take more of the answer it is sent.                               *)
WaitsForClient(label) == \E c \in Conn : InWorker(c, {label}) /\ client[c] = "connected"

(* Every packet a worker has received is in the file. *)
AllDumped == \A c \in Conn : \A k \in 1 .. sent[c] : \E i \in 1 .. Len(file) : file[i] = <<c, k>>

(* Received packets do not stay unwritten for ever, unless the server is   *)
(* told to quit or dies of a SIGPIPE first; or a SIGALRM is handled by a   *)
(* thread inside the critical section, which stops everybody; or a client  *)
(* never takes its answer, for which its worker holds the lock.            *)
ReceivedIsDumped ==
  \/ []<>(AllDumped \/ should_quit \/ ~alive \/ SelfLocked)
  \/ <>[]WaitsForClient("d_read")

(* Told to quit, the server ends, unless a thread could not be created,    *)
(* which leaves linked_list_mutex locked; or a handler interrupted the     *)
(* critical section its wait depends on; or a client stays connected and   *)
(* silent, or never takes its answer.                                      *)
ShutdownCompletes ==
  \/ []<>(~should_quit \/ ~alive \/ NoThread # {} \/ SelfLocked \/ JoinsAWaiter)
  \/ <>[]WaitsForClient("recv") \/ <>[]WaitsForClient("d_read")
=============================================================================

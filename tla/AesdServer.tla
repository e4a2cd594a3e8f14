------------------------------ MODULE AesdServer ------------------------------
(***************************************************************************)
(* The socket server built for the data file: the accept loop, one worker  *)
(* thread per connection, the timer's and the quit signals' handlers.      *)
(*                                                                         *)
(* A thread is a stack of frames, its own code last and the handlers that  *)
(* interrupted it before it.  Each step is what a thread does between two  *)
(* points where another thread or a signal can matter: a lock, a system    *)
(* call, a read of should_quit.  The steps of a data item are its whole    *)
(* packet or one of the two writes of a timestamp; how a packet is put     *)
(* together from receives is in WorkerBuffer.                              *)
(***************************************************************************)
EXTENDS Integers, Sequences, FiniteSets

CONSTANTS
  Conn,        \* connections; each has one worker thread and one node
  Main,        \* the thread of main
  Free,        \* no thread, no descriptor, no node
  ReadSize,    \* items per read of the data file
  MaxPackets,  \* packets a client sends
  MaxAlarms,   \* timer expirations
  MaxQuits,    \* SIGINT and SIGTERM together
  Faults       \* what may fail: "accept", "create", "pipe", and the opens at
               \* "w_open", "d_open" and "a_open"

ASSUME ServerAssumption ==
  /\ Main \notin Conn /\ Free \notin Conn \cup {Main} /\ IsFiniteSet(Conn)
  /\ (Conn \cup {Free}) \cap {"listen", "write", "read", "ALRM", "TERM", "INT"} = {}
  /\ ReadSize \in Nat \ {0} /\ MaxPackets \in Nat /\ MaxAlarms \in Nat /\ MaxQuits \in Nat

VARIABLES
  alive,              \* the process exists
  should_quit,
  linked_list_mutex,  \* the thread that locked it, or Free
  file_mutex,
  list,               \* the nodes in the tail queue
  node,               \* "none", "live" or "freed"
  thread,             \* of a node: "none", "running", "done" or "joined"
  stack,              \* of a thread: its frames, the interrupting one first
  fdtab,              \* what each descriptor is open on
  fd,                 \* the descriptor in each node (0 for -1)
  file,               \* the data file
  out,                \* what each client has been sent
  client,             \* "out", "connected" or "gone"
  sent,               \* packets received from each client
  alarms, quits       \* signals delivered so far

control == <<alive, should_quit>>
nodes == <<list, node, thread>>
files == <<fdtab, file, out>>
world == <<client, sent, alarms, quits, fd>>
vars == <<control, linked_list_mutex, file_mutex, nodes, stack, files, world>>

Thread == Conn \cup {Main}
parent_fd == 1
Fd == 1 .. 1 + 2 * Cardinality(Conn) + MaxAlarms  \* enough for every open file
Stamp == <<Main, 0>>
Newline == <<Main, 1>>

(* A frame: where it is, the file descriptor it opened, its offset in the  *)
(* file, the node it works on, and the signal whose handler it is.         *)
Frame(at, e, sig) == [at |-> at, f |-> 0, off |-> 0, e |-> e, sig |-> sig]
Top(t) == Head(stack[t])
Base(t) == stack[t][Len(stack[t])]
At(t, label) == alive /\ stack[t] # << >> /\ Top(t).at = label
Becomes(t, frame) == stack' = [stack EXCEPT ![t] = <<frame>> \o Tail(@)]
Go(t, label) == Becomes(t, [Top(t) EXCEPT !.at = label])
Return(t) == stack' = [stack EXCEPT ![t] = Tail(@)]
Exit == alive' = FALSE /\ UNCHANGED should_quit

(* Descriptors, as the kernel hands them out: the lowest free number.      *)
(* close of a descriptor that is not open does nothing.                    *)
Lowest(d) == fdtab[d] = Free /\ \A x \in Fd : x < d => fdtab[x] # Free
Closed(d) == [x \in Fd |-> IF x = d THEN Free ELSE fdtab[x]]
IsOpen(d, what) == d \in Fd /\ fdtab[d] = what

-----------------------------------------------------------------------------
(* open_socket has bound its socket, left its parent and set the timer. *)
Listening == [d \in Fd |-> IF d = parent_fd THEN "listen" ELSE Free]

(* main has set the handlers, deleted the old file and emptied the list. *)
Init ==
  /\ alive = TRUE /\ should_quit = FALSE
  /\ linked_list_mutex = Free /\ file_mutex = Free
  /\ list = << >> /\ node = [c \in Conn |-> "none"] /\ thread = [c \in Conn |-> "none"]
  /\ stack = [t \in Thread |-> IF t = Main THEN <<Frame("accept", Free, Free)>> ELSE << >>]
  /\ fdtab = Listening
  /\ fd = [c \in Conn |-> 0]
  /\ file = << >> /\ out = [c \in Conn |-> << >>]
  /\ client = [c \in Conn |-> "out"] /\ sent = [c \in Conn |-> 0]
  /\ alarms = 0 /\ quits = 0

(* The connection that comes next: they differ in nothing but their order. *)
NextConn == CHOOSE c \in Conn : client[c] = "out" /\ node[c] = "none"

(* accept gives a connection, or fails; its result is not looked at. *)
accept(c) ==
  /\ At(Main, "accept") /\ IsOpen(parent_fd, "listen")
  /\ client[c] = "out" /\ node[c] = "none" /\ c = NextConn
  /\ \/ /\ client' = [client EXCEPT ![c] = "connected"]
        /\ \E d \in Fd : /\ Lowest(d)
                         /\ fd' = [fd EXCEPT ![c] = d]
                         /\ fdtab' = [fdtab EXCEPT ![d] = c]
     \/ "accept" \in Faults /\ UNCHANGED <<client, fd, fdtab>>
  /\ Becomes(Main, Frame("accepted", c, Free))
  /\ UNCHANGED <<control, linked_list_mutex, file_mutex, nodes, file, out, sent, alarms, quits>>

(* accept on the socket that cleanup closed returns at once. *)
accept_closed ==
  /\ At(Main, "accept") /\ ~IsOpen(parent_fd, "listen")
  /\ Go(Main, "accepted")
  /\ UNCHANGED <<control, linked_list_mutex, file_mutex, nodes, files, world>>

(* A signal may have come while accept waited, or just after it. *)
CheckQuit ==
  /\ At(Main, "accepted")
  /\ IF should_quit THEN Exit ELSE UNCHANGED control
  /\ Go(Main, "lock_list")
  /\ UNCHANGED <<linked_list_mutex, file_mutex, nodes, files, world>>

LockList ==
  /\ At(Main, "lock_list") /\ linked_list_mutex = Free
  /\ linked_list_mutex' = Main
  /\ node' = [node EXCEPT ![Top(Main).e] = "live"]
  /\ Go(Main, "create")
  /\ UNCHANGED <<control, file_mutex, list, thread, files, world>>

(* Fault: the accept loop gives the mutex back itself. *)
pthread_create_Unlock ==
  LET c == Top(Main).e
  IN  /\ At(Main, "create")
      /\ thread' = [thread EXCEPT ![c] = "running"]
      /\ stack' = [stack EXCEPT ![Main] = <<[Top(Main) EXCEPT !.at = "insert"]>> \o Tail(@),
                                ![c] = <<Frame("start", c, Free)>>]
      /\ linked_list_mutex' = Free
      /\ UNCHANGED <<control, file_mutex, list, node, files, world>>

(* The worker may run before its node is in the list. *)
pthread_create ==
  LET c == Top(Main).e
  IN  /\ At(Main, "create")
      /\ \/ /\ thread' = [thread EXCEPT ![c] = "running"]
            /\ stack' = [stack EXCEPT ![Main] = <<[Top(Main) EXCEPT !.at = "insert"]>> \o Tail(@),
                                      ![c] = <<Frame("start", c, Free)>>]
         \/ "create" \in Faults /\ Go(Main, "insert") /\ UNCHANGED thread
      /\ UNCHANGED <<control, linked_list_mutex, file_mutex, list, node, files, world>>

(* The node goes to the tail; the loop ends when a signal has come, and    *)
(* with it main.                                                           *)
InsertNode ==
  /\ At(Main, "insert")
  /\ list' = Append(list, Top(Main).e)
  /\ IF should_quit THEN Exit ELSE UNCHANGED control
  /\ Becomes(Main, Frame("accept", Free, Free))
  /\ UNCHANGED <<linked_list_mutex, file_mutex, node, thread, files, world>>

-----------------------------------------------------------------------------
(* connection_worker. *)

(* Fault: the worker locks where it should unlock. *)
WorkerStart_Locks(c) ==
  /\ At(c, "start")
  /\ linked_list_mutex' = c
  /\ Go(c, "loop")
  /\ UNCHANGED <<control, file_mutex, nodes, files, world>>

(* It copies what it needs of its node, then lets the accept loop go on. *)
WorkerStart(c) ==
  /\ At(c, "start")
  /\ linked_list_mutex' = Free
  /\ Go(c, "loop")
  /\ UNCHANGED <<control, file_mutex, nodes, files, world>>

WorkerLoop(c) ==
  /\ At(c, "loop")
  /\ IF should_quit THEN fdtab' = Closed(fd[c]) /\ Go(c, "end")
                    ELSE fdtab' = fdtab /\ Go(c, "recv")
  /\ UNCHANGED <<control, linked_list_mutex, file_mutex, nodes, file, out, world>>

(* Bytes without a newline wait in the buffer; with one they are a packet. *)
recv(c) ==
  /\ At(c, "recv") /\ IsOpen(fd[c], c) /\ client[c] = "connected"
  /\ sent[c] < MaxPackets
  /\ \/ Go(c, "loop") /\ UNCHANGED sent
     \/ Go(c, "w_lock") /\ sent' = [sent EXCEPT ![c] = @ + 1]
  /\ UNCHANGED <<control, linked_list_mutex, file_mutex, nodes, files, client, alarms, quits, fd>>

(* Fault: the descriptor is closed at the hangup as well. *)
recv_end_Close(c) ==
  /\ At(c, "recv") /\ (client[c] = "gone" \/ ~IsOpen(fd[c], c))
  /\ fdtab' = Closed(fd[c])
  /\ Go(c, "end")
  /\ UNCHANGED <<control, linked_list_mutex, file_mutex, nodes, file, out, world>>

(* The client has hung up, or the descriptor is not a connection. *)
recv_end(c) ==
  /\ At(c, "recv") /\ (client[c] = "gone" \/ ~IsOpen(fd[c], c))
  /\ Go(c, "end")
  /\ UNCHANGED <<control, linked_list_mutex, file_mutex, nodes, files, world>>

WorkerEnd(c) ==
  /\ At(c, "end")
  /\ fdtab' = Closed(fd[c])
  /\ thread' = [thread EXCEPT ![c] = "done"]
  /\ Return(c)
  /\ UNCHANGED <<control, linked_list_mutex, file_mutex, list, node, file, out, world>>

(* Fault: the lock is tried, and its answer not looked at. *)
LockFile_NoWait(t, label, then) ==
  /\ At(t, label)
  /\ file_mutex' = IF file_mutex = Free THEN t ELSE file_mutex
  /\ Go(t, then)
  /\ UNCHANGED <<control, linked_list_mutex, nodes, files, world>>

(* Locking file_mutex: a thread waits while anybody holds it, itself       *)
(* included.                                                               *)
LockFile(t, label, then) ==
  /\ At(t, label) /\ file_mutex = Free
  /\ file_mutex' = t
  /\ Go(t, then)
  /\ UNCHANGED <<control, linked_list_mutex, nodes, files, world>>

(* open for writing or reading.  Where it fails the worker unlocks, and    *)
(* goes on with the bad descriptor; the handler does not unlock.           *)
OpenFile(t, label, mode, then, unlocks) ==
  /\ At(t, label)
  /\ \/ /\ \E d \in Fd : /\ Lowest(d)
                         /\ fdtab' = [fdtab EXCEPT ![d] = mode]
                         /\ Becomes(t, [Top(t) EXCEPT !.at = then, !.f = d])
        /\ UNCHANGED file_mutex
     \/ /\ label \in Faults
        /\ Becomes(t, [Top(t) EXCEPT !.at = then, !.f = 0])
        /\ file_mutex' = IF unlocks THEN Free ELSE file_mutex
        /\ UNCHANGED fdtab
  /\ UNCHANGED <<control, linked_list_mutex, nodes, file, out, world>>

(* write reaches the file only through a descriptor still open on it. *)
WriteFile(t, label, item, then) ==
  /\ At(t, label)
  /\ file' = IF IsOpen(Top(t).f, "write") THEN Append(file, item) ELSE file
  /\ Go(t, then)
  /\ UNCHANGED <<control, linked_list_mutex, file_mutex, nodes, fdtab, out, world>>

(* Fault: the lock is kept into the reply. *)
WriteClose_KeepLock(c) ==
  /\ At(c, "w_close")
  /\ fdtab' = Closed(Top(c).f)
  /\ Becomes(c, Frame("d_lock", c, Free))
  /\ UNCHANGED <<control, linked_list_mutex, file_mutex, nodes, file, out, world>>

WriteClose(c) ==
  /\ At(c, "w_close")
  /\ fdtab' = Closed(Top(c).f) /\ file_mutex' = Free
  /\ Becomes(c, Frame("d_lock", c, Free))
  /\ UNCHANGED <<control, linked_list_mutex, nodes, file, out, world>>

dump_buffer_to_file(c) ==
  \/ LockFile(c, "w_lock", "w_open")
  \/ OpenFile(c, "w_open", "write", "w_write", TRUE)
  \/ WriteFile(c, "w_write", <<c, sent[c]>>, "w_close")
  \/ WriteClose(c)

(* One turn of the loop that reads and sends.  A client that has hung up   *)
(* gets nothing, and sending to it may kill the process with SIGPIPE.      *)
ReadAndSend(c) ==
  LET left  == Len(file) - Top(c).off
      n     == IF left < ReadSize THEN left ELSE ReadSize
      chunk == SubSeq(file, Top(c).off + 1, Top(c).off + n)
  IN  /\ At(c, "d_read") /\ IsOpen(Top(c).f, "read") /\ left > 0
      /\ \/ /\ out' = IF client[c] = "connected" THEN [out EXCEPT ![c] = @ \o chunk] ELSE out
            /\ Becomes(c, [Top(c) EXCEPT !.off = @ + n])
            /\ UNCHANGED control
         \/ /\ client[c] = "gone" /\ "pipe" \in Faults
            /\ Exit /\ UNCHANGED <<stack, out>>
      /\ UNCHANGED <<linked_list_mutex, file_mutex, nodes, fdtab, file, world>>

(* Nothing more could be read. *)
ReadEnd(c) ==
  /\ At(c, "d_read") /\ (~IsOpen(Top(c).f, "read") \/ Top(c).off = Len(file))
  /\ fdtab' = Closed(Top(c).f) /\ file_mutex' = Free
  /\ Becomes(c, Frame("loop", c, Free))
  /\ UNCHANGED <<control, linked_list_mutex, nodes, file, out, world>>

dump_file_to_socket(c) ==
  \/ LockFile(c, "d_lock", "d_open")
  \/ OpenFile(c, "d_open", "read", "d_read", TRUE)
  \/ ReadAndSend(c)
  \/ ReadEnd(c)

-----------------------------------------------------------------------------
(* The signal handlers, on whichever thread the signal was delivered to. *)

print_time_to_file(t) ==
  \/ LockFile(t, "a_lock", "a_open")
  \/ OpenFile(t, "a_open", "write", "a_text", FALSE)
  \/ WriteFile(t, "a_text", Stamp, "a_newline")
  \/ WriteFile(t, "a_newline", Newline, "a_close")
  \/ /\ At(t, "a_close")
     /\ fdtab' = Closed(Top(t).f) /\ file_mutex' = Free
     /\ Return(t)
     /\ UNCHANGED <<control, linked_list_mutex, nodes, file, out, world>>

(* The element after e, as long as e is in the list. *)
After(e) ==
  LET later == {i \in 2 .. Len(list) : list[i - 1] = e}
  IN  IF later = {} THEN Free ELSE list[CHOOSE i \in later : TRUE]
First == IF list = << >> THEN Free ELSE list[1]

(* Fault: the nodes are freed without waiting for their workers. *)
sigint_handler_NoJoin(t) ==
  /\ At(t, "q_quit")
  /\ should_quit' = TRUE
  /\ Becomes(t, [Top(t) EXCEPT !.at = "q_join", !.e = Free])
  /\ UNCHANGED <<alive, linked_list_mutex, file_mutex, nodes, files, world>>

sigint_handler(t) ==
  /\ At(t, "q_quit")
  /\ should_quit' = TRUE
  /\ Becomes(t, [Top(t) EXCEPT !.at = "q_join", !.e = First])
  /\ UNCHANGED <<alive, linked_list_mutex, file_mutex, nodes, files, world>>

(* Fault: only the first worker is waited for. *)
JoinNode_FirstOnly(t) ==
  LET e == Top(t).e
  IN  /\ At(t, "q_join") /\ e # Free
      /\ thread[e] # "running" \/ e = t \/ e # First
      /\ thread' = [thread EXCEPT ![e] = IF @ = "done" THEN "joined" ELSE @]
      /\ fdtab' = Closed(fd[e])
      /\ Becomes(t, [Top(t) EXCEPT !.e = After(e)])
      /\ UNCHANGED <<control, linked_list_mutex, file_mutex, list, node, file, out, world>>

(* pthread_join waits for the thread, except that joining oneself returns  *)
(* an error; then the node's descriptor is closed, which the worker has    *)
(* done already.                                                           *)
JoinNode(t) ==
  LET e == Top(t).e
  IN  /\ At(t, "q_join") /\ e # Free
      /\ thread[e] # "running" \/ e = t
      /\ thread' = [thread EXCEPT ![e] = IF @ = "done" THEN "joined" ELSE @]
      /\ fdtab' = Closed(fd[e])
      /\ Becomes(t, [Top(t) EXCEPT !.e = After(e)])
      /\ UNCHANGED <<control, linked_list_mutex, file_mutex, list, node, file, out, world>>

(* Joining a thread that was never created or already joined, or through a *)
(* freed node, is undefined; it may return or end the process.             *)
JoinCrash(t) ==
  /\ At(t, "q_join") /\ Top(t).e # Free
  /\ thread[Top(t).e] \in {"none", "joined"} \/ node[Top(t).e] # "live"
  /\ Exit
  /\ UNCHANGED <<linked_list_mutex, file_mutex, nodes, stack, files, world>>

FreeNodes(t) ==
  /\ At(t, "q_join") /\ Top(t).e = Free
  /\ fdtab' = Closed(parent_fd)
  /\ node' = [c \in Conn |-> IF \E i \in 1 .. Len(list) : list[i] = c THEN "freed" ELSE node[c]]
  /\ list' = << >>
  /\ Return(t)
  /\ UNCHANGED <<control, linked_list_mutex, file_mutex, thread, file, out, world>>

cleanup(t) == JoinNode(t) \/ JoinCrash(t) \/ FreeNodes(t)

-----------------------------------------------------------------------------
(* The kernel and the clients. *)

(* A signal is blocked in a thread that runs its handler.  Sent to the     *)
(* process, it goes to the main thread, or, where that blocks it, to       *)
(* another thread that does not.  An interrupted call is restarted.        *)
Blocked(t, sig) == \E i \in 1 .. Len(stack[t]) : stack[t][i].sig = sig

Deliver(sig, label) ==
  \E t \in Thread :
    /\ alive /\ stack[t] # << >> /\ ~Blocked(t, sig)
    /\ t = Main \/ Blocked(Main, sig)
    /\ stack' = [stack EXCEPT ![t] = <<Frame(label, Free, sig)>> \o @]

SIGALRM ==
  /\ alarms < MaxAlarms /\ alarms' = alarms + 1
  /\ Deliver("ALRM", "a_lock")
  /\ UNCHANGED <<control, linked_list_mutex, file_mutex, nodes, files, client, sent, quits, fd>>

SIGTERM ==
  /\ quits < MaxQuits /\ quits' = quits + 1
  /\ \E sig \in {"TERM", "INT"} : Deliver(sig, "q_quit")
  /\ UNCHANGED <<control, linked_list_mutex, file_mutex, nodes, files, client, sent, alarms, fd>>

Hangup(c) ==
  /\ alive /\ client[c] = "connected"
  /\ client' = [client EXCEPT ![c] = "gone"]
  /\ UNCHANGED <<control, linked_list_mutex, file_mutex, nodes, stack, files, sent, alarms, quits, fd>>

-----------------------------------------------------------------------------
(* What a thread does without a client's help. *)
MainStep == accept_closed \/ CheckQuit \/ LockList \/ pthread_create \/ InsertNode
WorkerStep(c) ==
  \/ WorkerStart(c) \/ WorkerLoop(c) \/ recv_end(c) \/ WorkerEnd(c)
  \/ dump_buffer_to_file(c) \/ dump_file_to_socket(c)
HandlerStep(t) == print_time_to_file(t) \/ sigint_handler(t) \/ cleanup(t)

Next ==
  \/ MainStep \/ SIGALRM \/ SIGTERM
  \/ \E t \in Thread : HandlerStep(t)
  \/ \E c \in Conn : accept(c) \/ recv(c) \/ Hangup(c) \/ WorkerStep(c)

Spec == Init /\ [][Next]_vars

(* Sending to a client that is still there may wait for as long as the     *)
(* client likes.                                                           *)
Sending(t) == At(t, "d_read") /\ client[t] = "connected" /\ Top(t).off < Len(file)

(* What a thread does next, whoever's handler it is in. *)
GoesOn(t) ==
  /\ stack[t] # << >> /\ ~Sending(t)
  /\ HandlerStep(t) \/ (t = Main /\ MainStep) \/ (t \in Conn /\ WorkerStep(t))

(* Every thread keeps running.  Nothing is assumed of clients or signals.  *)
(* A mutex needs no more than this: the clients' packets are bounded, so   *)
(* it is not taken for ever by the others.                                 *)
FairSpec == Spec /\ \A t \in Thread : WF_vars(GoesOn(t))
=============================================================================

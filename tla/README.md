# TLA+ models of the AESD character driver and socket server

The repository holds a Linux character driver that keeps the last ten
newline-terminated commands written to it, a TCP server that stores what its
clients send (in a file, or in that driver) and sends the content back, and a few
small examples. These modules model the parts with state that is shared between
threads, check them with TLC on small instances, and prove what matters most with
TLAPS for every size.

## Inventory

| Part | State it keeps | Operations | What is hard |
|---|---|---|---|
| circular buffer (`aesd-char-driver/aesd-circular-buffer.{c,h}`) | ten slots, `in_offs`, `out_offs`, `full` | add an entry, find the byte at a position, total length | equal offsets mean empty or full; who owns the memory of a dropped entry |
| character driver (`aesd-char-driver/main.c`) | `dev->lock`, `dev->read_buf` (the command being assembled), `*dev->circ_buf`, each file's `f_pos` | load, unload, open, release, read, write, llseek, ioctl | `write` and `ioctl` lock, `read` and `llseek` do not; early returns with the lock held; unsigned arithmetic on positions; allocations and copies that fail |
| socket server (`server/aesdsocket.c`) | the list of workers, `linked_list_mutex`, `file_mutex`, `should_quit`, the output file, the descriptors; per worker its receive buffer | accept, receive, append, send back, timestamp, seek command, shutdown | a mutex locked by one thread and unlocked by another; signal handlers that lock and join; descriptors closed more than once; two critical sections per packet |
| tail queue (`server/queue.h`) | head and link fields of the worker list | insert at either end, before, after; remove, join, exchange, loop | pointers to pointers: each operation has to leave every `tqe_prev` and `tqh_last` right for the next |
| threading example (`examples/threading`) | one mutex, one result record | start a thread that sleeps, locks, sleeps, unlocks | the starter writes the result before the thread is done |
| system call example (`examples/systemcalls`) | none | run a command with `system`, or `fork`/`exec`/`wait` | failures of each call |
| writer, finder, scripts | none | write a file, count files and lines | nothing concurrent |

How they interact: a worker of the server opens the driver (or the file) anew for
each packet, writes the packet, and reads everything back from position 0; a packet
that contains `AESDCHAR_IOCSEEKTO:x,y` becomes an `ioctl`. The driver calls the
circular buffer, under its lock from `aesd_write` and `aesd_ioctl`, without it from
`aesd_read` and `aesd_llseek`.

What makes each part correct:

* circular buffer: it holds the last ten entries in order; the pointer that
  `add_entry` hands back is exactly the one that left; a position is translated to
  the byte it would have in the concatenation of the entries;
* driver: a write is atomic; commands are never torn, merged, lost or reordered;
  every block of memory has one owner; a call that takes the lock gives it back and
  returns; a read returns the bytes at its position;
* server: every byte a client sends ends up in the store once, in order; a client
  that sent a newline gets the content back; shutdown ends every worker and frees
  every node once;
* tail queue: the links are those of the sequence that the operations describe;
* examples: a result is that of the call's own thread or command; nobody waits for
  ever and no child is left behind.

The hazards, each at its line, are in `PROJECT.json` under `hazards`.

## Modules

| Module | What it is |
|---|---|
| `CircularBuffer` | the buffer as a data type: the struct is a record, each function an operator. `add_entry` is the composition of one operator per assignment, so that the driver can take them one at a time |
| `CircularBufferSpec` | the buffer used under its documented contract (the caller locks and owns the memory): one step per `add_entry` |
| `BoundedLog` | what the buffer promises: the last `Bound` items, in order |
| `CircularBufferLemmas` | what each operator of `CircularBuffer` computes and preserves, for every number of slots, its sums and searches over the slots included |
| `CircularBufferProofs` | the theorems about the buffer |
| `AesdChar` | the driver: one action per file operation, split where unlocked code can look in between |
| `AesdDevice` | what the driver promises its callers: atomic writes into an assembled command and a bounded log |
| `AesdCharSpec` | the driver's invariants, its refinement of `AesdDevice`, its liveness, and a statement it does not meet |
| `AesdCharProofs` | the driver's inductive invariant: mutual exclusion, memory ownership, leaks, the lock given back; its refinement of `AesdDevice`; its types, and what reads and seeks return |
| `AesdServer` | the server built for the data file: accept loop, workers, signal handlers, shutdown |
| `StoreLog` | what that server promises its clients: packets appended whole, answers that show one moment |
| `AesdServerSpec` | the server's invariants, its refinement of `StoreLog`, its liveness, and a statement it does not meet |
| `AesdServerProofs` | the server's types, the effect of each step on files and on nodes; the exclusive use of the data file, the descriptors, the mutex that is handed over, the shutdown; its refinement of `StoreLog` |
| `AesdServerDevice` | the workers built for `/dev/aesdchar`, composed with `AesdDevice` and with the parser |
| `AesdServerDeviceProofs` | the theorems about the device build |
| `SeekCommand` | the parser of seek commands, as operators; `SeekCommandSpec` runs it on every text of a set |
| `SeekCommandLemmas` | what the parser reads from a text; both the device build's proofs and the parser's own rest on it |
| `WorkerBuffer` | the receive buffer of a worker of the data-file build |
| `TailQueue` | the tail queue macros as operators on heads and link fields; `TailQueueSpec` is a program that uses them in any order the header allows |
| `Threading`, `SystemCalls` | the two examples |
| `MCCircularBuffer`, `MCAesdChar`, `MCAesdServerDevice` | instances for TLC (the server's three runs use `AesdServerSpec` itself) |
| `MCServerParts`, `MCExamples` | instances that hold several small, independent modules side by side: a variable `part`, fixed at the start, says which one a behaviour is about, and each property is about its own part |
| `ServerPartsProofs`, `ExamplesProofs` | the theorems about these parts |

How they are put together: `CircularBufferSpec` implements `BoundedLog`; `AesdChar`
uses `CircularBuffer` and implements `AesdDevice`; `AesdServerDevice` instantiates
`AesdDevice` as its device and `SeekCommand` as its parser; `AesdServer` implements
`StoreLog`. In `AesdServer` a packet arrives whole and the worker list is a
sequence; `WorkerBuffer` shows how a packet is gathered and `TailQueueSpec` that the
list macros implement a sequence.

### The driver model

State: `lock`, `read_buf`, `circ_buf` are the fields of `struct aesd_dev`; `heap`
maps each address to the bytes of a command stored there or to `Freed`; `f_pos`, `pc`
and `frame` are per thread (position, program counter, arguments and locals). A
thread has at most one open file. Bytes are abstract; only `Newline` is
distinguished. The other blocks the driver allocates are not in `heap`; `lost` is the
set of kinds of them of which one was dropped without `kfree`: the entry struct of a
command (`main.c:208`, dropped at `:261`), the ioctl's `mybuffer` (`:377`, dropped at
`:391`), and what `aesd_setup_cdev` allocates.

Steps. `WriteLock`; `WriteStore` (allocate or grow, copy, advance the size; all
private to the lock holder, so one step); `add_entry`, one step for each assignment
to the struct: `AddBuffptr`, `AddSize`, `AddOut`, `AddWrapOut`, `AddIn`, `AddWrapIn`,
`AddSetFull`; `WriteFree`, `WriteUnlock`. So a reader can see an offset that has been
advanced past the array and not yet wrapped. A read is `ReadTotal`, `ReadFind`,
`ReadSize`, `ReadBuffptr`, `ReadCopy`, one for each time the code goes back to the
shared struct. A search that starts behind the array (`ReadFindOutside`) reads memory
that is not the struct's: it kills the thread or gives anything. A traversal of the
array (the total, the search) is one step; the code reads the slots one after the
other, so under a race it can also see mixtures of two states. Every passing property
of what a read returns excepts reads that `add_entry` overlapped, here
(`QuietReadIsExact`) and in the device build (`AnswerIsWhole`), so none rests on that.
The ioctl runs under the lock and writes nothing shared, so its body is one step.
`Return` hands the reply to the caller.

`overlap` is a history variable: the threads during whose call `*dev->circ_buf`
changed. It only serves to say which reads nothing overlapped.

Failures are chosen by the constant `Faults`: `signal` (the lock wait is
interrupted), `alloc` (an allocation returns NULL), `copy_from`, `copy_to` (a copy
from or to user space fails), `register` (`cdev_add` fails). The code notices only a
failed `copy_from_user` in `aesd_write`; what it ignores shows in the reply as
`Garbage`. Loading the module can fail (`RegisterFault`), which leaves its blocks
behind, or die in `aesd_setup_cdev` (`SetupAllocFault`).

Sizes and positions are modulo `SizeMod` where the code's are modulo 2^64.
External and modelled from how the driver uses it: the VFS (rejects a read at a
negative position, refuses to unload a module that is open), `kmalloc`,
`krealloc`, `kfree`, the mutex.

### The server model (`AesdServer`)

State. The two mutexes, `should_quit` and the worker list are the code's globals.
`node` and `thread` follow each list node and the thread it names through their
lives; `fdtab` is the process's descriptor table and `fd` the descriptor stored in
each node; `file` is the data file and `out` what each client has been sent. A
thread is a *stack of frames*: its own code at the bottom, and on top of it the
handlers that interrupted it. A frame has a place in the code, the descriptor it
opened, its offset in the file and the list node it works on.

Steps. A step is what a thread does between two points where another thread or a
signal can matter: a lock, a system call, a look at `should_quit`. The accept loop is
`accept`, `CheckQuit`, `LockList`, `pthread_create`, `InsertNode`; a worker is
`WorkerStart` (which unlocks the mutex that the accept loop locked), `WorkerLoop`,
`recv`, the four steps of `dump_buffer_to_file`, those of `dump_file_to_socket`, and
`WorkerEnd`. `print_time_to_file` is the timer's handler, `sigint_handler` and
`cleanup` (`JoinNode` for each node of the list, then `FreeNodes`) that of the quit
signals. The handlers run the same locks, opens and writes as the workers.

Descriptors are handed out lowest number first, and closing one that is not open
does nothing: this is what makes the code's second and third close of one number
matter. `write` and `recv` act only on a descriptor that is still open on what they
expect.

Signals. A signal to the process goes to the main thread, unless that is inside the
handler of the same signal, when any other thread that is not may get it; a
handler's own signal is blocked while it runs. `signal()` restarts an interrupted
call, so `accept`, `recv` and lock waits go on after the handler. Joining a thread
that was never created or already joined is undefined: `JoinNode` lets the call
return and `JoinCrash` lets it end the process.

Failures, chosen by `Faults`: `accept` (its -1 is used as a descriptor), `create`
(the node is listed without a thread and nobody unlocks `linked_list_mutex`),
`w_open`, `d_open`, `a_open` (the open of that step: the append, the sending back, the
timestamp; a worker unlocks and goes on, and unlocks again, the handler just goes
on), `pipe` (sending to a
client that hung up ends the process). Clients send and hang up when they like.
Connections come in a fixed order (`NextConn`): their nodes differ in nothing but the
name, so which of the unused ones is next does not matter.

### The other server models

`AesdServerDevice`. In the device build each receive is written to the device at
once, without a lock; a newline makes the worker read the device back, seeking to
the position reached so far before each read. The device is `AesdDevice`, which the
driver is shown to implement; that is what makes a write one change of the device,
somewhere between its call and its return (in the model, at the return). It says
nothing of reads. A read has a call and a return too, and only when no write that ends
a command is inside its own call in between does it give the bytes at its position:
this is what the driver's `QuietReadIsExact` says. Otherwise the client is put into
`torn` until its next answer, and its reads give anything, end the answer or kill the
worker (`ReadTorn`). Any number of clients can be in the driver at once. A seek command
becomes `ioctl`, one step since the driver runs it under its lock; its answer lands
in the receive buffer. `Message` is a set of texts in the form of `SeekCommand`; seeks to commands
above `Bound` are left out, because the driver keeps its lock after refusing them
(`driver_wedged`) and no call returns afterwards.

`SeekCommand`. A buffer is what precedes the text `AESDCHAR_IOCSEEKTO:`, that text or
not, and what follows it. The code copies the two numbers into arrays of four
characters and puts the terminating null of the second one at the wrong index. A
number that nothing ends, or that does not fit its array, can be read as any value
of `Unread`. The null that is stored past the array is taken to hit memory that is
not read again.

`WorkerBuffer`. `buffer_position`, `available_buffer`, `buffer_size` and
`total_bytes_received` are the code's variables, `block` what is really allocated.
Bytes are numbered as the client sends them and any of them may be a newline. After
a receive past the block (`overflow`) nothing more is said.

`TailQueue`. The address of a head's `tqh_first` is represented by the head, that of
an element's `tqe_next` by the element. Both structs have the back pointer behind the
forward one, on which the casts in `TAILQ_LAST` and `TAILQ_PREV` rely (`Second`). Fresh
elements hold arbitrary links, as from `malloc`.

`Threading`, `SystemCalls`. A started thread and its starter write one record without
a lock; a caller joins. Sleeps have no length: a thread may be anywhere for any time.
`do_exec` and `do_exec_redirect` are a parent, a child and a command, each step of
which can fail; `wait` reaps any child that has exited.

## Runs

| Run | Instance | What it shows |
|---|---|---|
| `circular_buffer` | 4 slots, 5 addresses, entry sizes 0, 1, 3 | well-formedness, ownership, the search against plain concatenation, refinement of `BoundedLog` |
| `driver_writers` | 2 threads that write and seek, 2 slots, 4 addresses, chunks with and without newlines, signals, failing copies and a failing registration | refinement of `AesdDevice`; while loaded the driver leaks structs, as listed below, and no command's bytes; cleanup frees every command's bytes |
| `driver_calls` | 2 writers, of which one also reads and lseeks and the other seeks by ioctl, in range and out of it; 2 slots; reads of 0, 2 and 9 bytes; signals, failing allocations and failing copies from the user | a read that nothing overlaps is exact; a seek returns the rest of the content; one owner per block; mutual exclusion |
| `driver_live` | 2 writers, one also seeks, no failures, fairness | the lock is never left behind; every call returns |
| `driver_race`, `driver_wedged` | a reader beside a writer; a rejected seek | violations, see below |
| `server_file` | 2 connections, 1 packet each, 2 timestamps, clients that hang up or never take their answer, SIGPIPE | refinement of `StoreLog`; one thread in the file at a time; descriptors stay their owner's until the shutdown; a packet received is written, except in the deadlock and the wait that the property names |
| `server_shutdown` | 2 connections, 1 quit signal and 1 timer signal at any moment, silent clients, failing accept, create and handler's open | the handed-over mutex; nodes freed after their workers were joined; at most one worker outlives the shutdown; the shutdown ends, except in the deadlocks and waits that the property names |
| `server_lost_packet` | 2 connections, 1 quit signal | violation, see below |
| `server_device` | 2 clients, 3 receives each, a device of 3 commands, two seeks and a look-alike, calls that overlap | no piece lost, doubled or reordered; answers that no write tears are whole; seeks ask for what the text says |
| `server_parts` | 2 heads and 3 elements; a buffer of 3 and 10 bytes, cut and delimited in every way; every text of up to 1 + 8 characters | the list macros, the receive buffer, the parser |
| `examples` | 3 threads; 4 calls of one caller; every failure | results are exact; threads end; calls return; no child is left behind |

### Bounds

Two to four slots instead of ten: the code has no other dependence on the number than
wrapping at it, two make the buffer full and wrap after a few writes, and the proofs
cover the rest. One address more than the slots and the assembled command need lets
`krealloc` move. `MaxPending` bounds the length of an unterminated command.
`SizeMod` is larger than twice any length that occurs.

Two connections are enough for every pair of threads to meet, with the handlers on
top of either. One packet each, because a worker that has answered is where it was
before its first packet (descriptor, frame and list unchanged; only the file is
longer). Two timestamps, so that the second can interrupt a worker while the main
thread is in the handler of the first; one in the shutdown, which can then come on top of
it. One quit signal: what a second one does is said at `FreedAfterJoin` below. The handler's
open is the one that fails in the shutdown run, because it fails under any of the threads;
with `d_open` in its place the run passes as well, and takes twice as long. `ReadSize` 2
and 3 make an answer take more than one read; it is 9 in the shutdown run, where the
answers do not matter. Three receives per client and a device of three commands let commands
be put together by two clients and the oldest one be dropped. A receive buffer of 3
bytes and a stream of 10 fill it, grow it twice and start again. Three elements give
a list a first, a middle and a last. Eight characters behind the colon are the
longest text the parser accepts; one before it makes that text too long.

Deadlock is not checked: a driver that was removed, a process that has ended and
clients that have nothing more to send leave nothing to do. Where waiting for ever
would be wrong a liveness property says so.

### Fairness

* Driver (`driver_live`, `driver_wedged`): a thread inside the driver keeps running
  (weak fairness of its steps), and a thread that waits for the mutex is not passed
  over for ever (strong fairness), because the kernel's mutex queues its waiters and
  hands the lock to the first of them.
* Server (`server_file`, `server_shutdown`): weak fairness of the main thread, of
  each worker and of each handler: the kernel runs every runnable thread. Not of
  `accept`, `recv`, `Hangup` or the signals: clients and signals may never come. Nor of
  sending to a client that is still connected: it may never take what it is sent, and
  `send` blocks then, with `file_mutex` held and no timeout (`GoesOn` leaves this step
  out). A `pthread` mutex promises no order, so no strong fairness is assumed; packets and
  timestamps are bounded, so nobody can be passed over for ever in the model, and
  what is shown is that nobody keeps the mutex, other than in the states that the
  properties except by name.
* Examples: weak fairness of the started threads, of the starter's return, of each
  child and its command (the command is assumed to end) and of reaping. A failing
  `wait` is possible and not fair, so no call returns only because of the fault.

### Disagreements

Kept as runs:

* `driver_race`: `aesd_read` calls the search without the lock its comment asks for,
  and copies from freed or shorter memory;
* `driver_wedged`: a rejected seek returns with the lock held, and no later write or
  seek returns;
* `server_lost_packet`: a descriptor is closed again by number when it may already be
  another worker's data file; that worker's packet is lost, unnoticed.

Seen in the models, and the reason for the conditions in the properties or in the
instances:

* driver: `newpos < 0` is tested on a `size_t` (`main.c:98`), so a negative position is
  stored. Command number 10 is accepted and answered as command 0 (`main.c:391`, with
  2 or 3 for 10 in the instances), and so is an offset outside the command
  (`main.c:398`); `aesd_ioctl.h:42,46` say otherwise.
* driver, memory: each command leaks the struct that its entry was assembled in: it is
  allocated at `main.c:208`, copied by `add_entry`, and its only pointer is overwritten at
  `:261`. A rejected seek leaks `mybuffer` (`:377`, returns at `:391`). A failed `cdev_add`
  leaks what `aesd_setup_cdev` allocated (`:308-342`). Removal frees the bytes of the
  entries and leaves the `circ_buf`, the `read_buf` and the unterminated command
  (`:357`). `LeaksOnlyStructs` says that the first of these happens with every command and
  that, while the module is loaded and allocations succeed, no command's bytes are lost;
  `CleanupFreesCommands` speaks of the bytes of the entries.
* server, two critical sections or handlers meeting: a quit signal between
  `pthread_create` and `TAILQ_INSERT_TAIL` (`aesdsocket.c:389`) misses the new worker,
  hence `ExitLeavesOneWorker` and not none. A second timer signal that comes while the
  main thread handles the first goes to a worker; if that holds `file_mutex`, the handler
  waits for the thread it interrupted (`:132`, `SelfLocked`). A quit signal that interrupts
  a timestamp holding `file_mutex` joins a worker that waits for it,
  itself or in a handler of its own (`:402`, `JoinsAWaiter`).
  A client that stays connected and silent keeps its worker in `recv` and the shutdown in
  `pthread_join` (`:269`); one that does not take its answer keeps its worker in `send`, and
  every other one out of the file (`:219`). `server_file` and `server_shutdown` reach
  these states, and `ReceivedIsDumped` and `ShutdownCompletes` except exactly them: without
  any one of the exceptions TLC finds a behaviour that stops there, and with them it shows
  that nothing else stops the server. (One of them needs a larger instance:
  `ShutdownCompletes` meets `SelfLocked` only with `MaxAlarms = 2`, which
  `server_shutdown` takes too long for. With one connection of two packets and all
  faults that instance is checked in seconds, with two connections and no fault in minutes;
  the property holds in both.)
* server, failures: with `"w_open"` or `"d_open"` in `Faults`, `FileExclusive` fails (`:170` unlocks, and
  the function's end unlocks again, perhaps another thread's lock). A client that
  hangs up during its answer ends the server (`:219`, no handler for SIGPIPE). After a
  failed `pthread_create` the accept loop waits for ever (`HandOver`,
  `ShutdownCompletes` except it).
* device build: a command evicted between two reads leaves a hole in an answer
  (`:216`), so `AnswerIsWhole` holds while nothing has been forgotten. The driver's reads
  take no lock (`driver_race`), so it holds of answers of which no read ran beside a write
  that ended a command. A seek whose
  answer is one byte long stores that byte and the seek's own text as data (`:345`),
  the exception in `SeeksAreOwn`.
* receive buffer: `available_buffer` is computed from the last receive (`:285`), so
  after two short receives, or after a packet that made the buffer grow (`:314` does
  not reset `buffer_size`), a receive can go past the block. `FullReceivesFit` says that
  nothing else leads there.
* parser: the null behind the offset is stored at the buffer's index (`:81`); the
  newline of a well-formed command is what stops `atoi`.
* threading: the starter marks the thread successful before it has run
  (`threading.c:75`), the function returns true after a failed `pthread_create` (`:85`), and
  the mutex is held for the time meant for the wait before it (`:24`).
* system calls: a failed `wait` leaves the status zero and the call returns true
  (`systemcalls.c:73`), the exception in `ResultIsExact`; with two callers, each can
  reap the other's child.

## Proofs

All theorems hold for every value of the constants that the named assumptions allow
(`BufferAssumption`, `SizeAssumption`, `DriverAssumption`, `ServerAssumption`,
`DeviceAssumption`, `QueueAssumption`, `PartsAssumption`, `ExamplesAssumption`: sizes
and bounds are natural numbers, special values are distinct from the others, the
elements of the lists are finitely many). Every invariant that a run checks is stated
by a theorem, and so are the three refinements and the action property. The
conditions listed below are those without which the code does not have the property.

### The circular buffer (`CircularBufferLemmas`, `CircularBufferProofs`)

For every `MAX_OPS` > 0:

* `BufferCorrect`, `BufferTypeOK`, `BufferOwnership`: `TypeOK`, `OffsetsAgree` and
  `Ownership`. Their conjunction is inductive: ownership alone is not, because which
  pointer `add_entry` hands back depends on the offsets and the full flag agreeing.
  `AddEntryFields` computes the struct after all assignments, wrapped or not;
  `AddEntryWellFormed` carries the well-formedness.
* `BufferKeepsLastCommands`: the buffer implements `BoundedLog`. `AddEntryKeeps`
  shows that `Contents` after `add_entry` is the old contents with the new entry
  appended and, when full, the first dropped; the two cases differ in where the
  scan starts.
* `BufferSearchIsExact`: the search for a position, against the concatenation of the
  entries. This is an induction over the slots. The prover cannot instantiate the
  usual induction rules, so it is put as a statement about sets: a set of numbers
  that has 0 and with each number its successor has all of them (`SetInduction`, from
  the least element of its complement). A function defined by recursion is known to
  satisfy its equation once some function does; `RecursionExists` gives it for sums,
  the others by exhibiting one. `SumExists`, `SearchAgrees` and `ConcatCells` are what
  the driver's proofs use.

### The driver (`AesdCharProofs`)

For any number of threads, slots and addresses:

| Theorem | Property | Condition |
|---|---|---|
| `DriverTypeOK` | `TypeOK` | none, whatever fails and wherever unlocked reads come between the assignments |
| `DriverMutualExclusion` | `MutualExclusion` | none |
| `DriverOneOwner` | `OneOwner` | none |
| `DriverSeekReturnsRest` | `SeekReturnsRest` | none |
| `DriverLeaksOnlyStructs`, `DriverCleanupFreesCommands` | `LeaksOnlyStructs`, `CleanupFreesCommands` | allocations succeed: a failed `krealloc` overwrites the only pointer to the old block |
| `DriverRefinesDevice` | `RefinesDevice` | allocations succeed: the bytes assembled so far are lost with that pointer |
| `DriverNoReturnWithLock` | `NoReturnWithLock` | allocations and copies from the user succeed, no seek names a command above `MAX_OPS`: these are the paths that return with the lock held (`driver_wedged`) |
| `DriverQuietReadIsExact` | `QuietReadIsExact` | copies to the user succeed (the result of `copy_to_user` is ignored); the content is always shorter than half of `SizeMod` |

`ContentFits`, the last condition, is the statement that the content has fewer than
2^63 bytes: the code subtracts positions as `size_t` and stores them as `loff_t`. No
memory holds as much, and `SizeMod` is larger than twice any length in the instances
too. It stands beside `Spec` in the theorem (`Spec /\ []ContentFits`), because nothing
in the code enforces it.

*The common invariant* is `Inv`. `OneOwner` is not inductive: between two
assignments of `add_entry` the buffer is not well formed (`OpenBuffer`: an offset may be
one past the array), and what the rest of the assignments will make of it depends on
what `AddBuffptr` found. So `Memory` says three things, by where
the lock holder is: outside `add_entry` the buffer is well formed, each entry has a
block of its own of the right length, and so has the assembled command (`Sound`,
`PendingSound`); inside it `circ_buf` is what the assignments made so far turn some
sound buffer into (`InFlight`); after it, the displaced block is still allocated and
no slot's (`Displaced`). `Control` ties places to locals, and says that nobody is
inside a module that is not loaded. Steps that touch none of this are `Quiet` and
are dealt with once (`QuietInv`); the steps of `aesd_write` have a lemma each.

*Types.* `Locals` adds the types of positions and of each thread's locals, by place.
They depend on the sums over the slots being natural numbers, for a buffer that an
unlocked reader finds half updated too.

*Refinement.* The device's log and pending command are those of the structs, except
while the lock holder is between the store and the unlock: there they are those of
the buffer that the assignments started from, or lead to, depending on whether the
commit has happened (`Settled`, `Committed`). A step beside the lock holder changes
neither (`AsideSame`); of the holder's steps one is the device's write and the others
are stutters.

*Reads and seeks.* `Alone` says that a call whose thread is not in `overlap` runs
beside no thread inside `add_entry`, so it finds a sound buffer (`AloneSound`), the
same from its first look to its last (`BlocksKept`). `ReadPromises` and `SeekPromises`
say, place by place, what such a call has found so far: the total length, the entry
and offset of its position (by `SearchAgrees`), its size, its address. That the bytes
it copies are those of the concatenation is `StreamPart` for a read, whose bytes lie in
one entry, and `StreamIsRest` with `RestIsSuffix` for a seek, which gathers the rest of
one entry and all later ones.

### The server (`AesdServerProofs`)

For any number of connections, packets and timestamps:

| Theorem | Property | Condition |
|---|---|---|
| `ServerTypeOK` | `TypeOK` | none, whatever fails |
| `ServerDescriptorsAreOwn` | `DescriptorsAreOwn` | none; the property itself ends with the shutdown |
| `ServerHandOver` | `HandOver` | none |
| `ServerFileExclusive` | `FileExclusive` | opening succeeds (`OpensSucceed`): the failure path unlocks twice |
| `ServerFreedAfterJoin` | `FreedAfterJoin` | one quit signal at most |
| `ServerExitLeavesOneWorker` | `ExitLeavesOneWorker` | one quit signal at most; no SIGPIPE, which ends the process at once |
| `ServerRefinesStore` | `RefinesStore` | opening succeeds: a packet whose open failed is not stored, and the second unlock lets others into the file; no quit signal: the shutdown closes descriptors under the workers |

With two quit signals `FreedAfterJoin` is false: while the main thread walks the list,
the second signal goes to a worker, whose handler joins every thread of the list, its
own at the cost of nothing (joining oneself returns at once), and frees the nodes.

Every step is first classified twice, once by what it does to the file, the
descriptors and `file_mutex` (`FileStep`), once by what it does to nodes, threads and
`linked_list_mutex` (`ControlStep`); each invariant is then shown for the classes, with
one lemma for each of the four things that happen to stacks: the top frame is
replaced (`Moved`), a handler comes on top (`Pushed`), the top frame returns (`Popped`),
a thread is created (`Created`). `TypeInv` says which code a frame can be in: handlers
only above the thread's own code (`Fits`).

* `Exclusive`: every frame inside the file, at any depth, is the only one and belongs
  to the thread that `file_mutex` names. `FileExclusive` alone speaks of threads and not
  of the mutex, and is not inductive.
* `Descriptors`: until the shutdown a frame that has a descriptor is between its open
  and its close, the table shows the file under that number, no two frames have the
  same number, and a worker's socket is its own. It needs `Fresh`: a node is handed out
  once and gets one thread at most.
* `Nodes`, `Hand`: listed nodes are live and listed once; `linked_list_mutex` is held
  exactly from the accept loop's lock to the new worker's first step, or because no
  worker came.
* `QuitInv`: the handler of the one quit signal runs on the main thread, its walk over
  the list has joined every node before the one it is at (`Walk`), and nodes are freed
  only after the walk. `ExitInv`: a running worker is in the list, except the one just
  created, and the list is empty when the main thread goes on after the walk.

* `StoreInv`, for the refinement. The store's content is the file, except that a
  timestamp is written in two parts and counts when the second one is there; the store's
  answers are what the clients were sent, without the answer being sent. So the invariant says when the file can end in
  a timestamp without its newline: only while a handler is about to write it (`Half`,
  `Stamping`), which by `Exclusive` nobody else can look at. And it says, of each frame
  (`FrameOK`), that one which reads the file back has sent exactly the first `off` items
  of it (`Echo`), which stays true because the file grows only under the mutex that the
  reader holds, and that one which writes or reads has its descriptor open. From this
  each step is an append of the store, the end of an answer, a hangup or a stutter.

### The device build (`AesdServerDeviceProofs`, `SeekCommandLemmas`)

`DevicePiecesAreKept`, `DeviceAnswerIsWhole` and `DeviceSeeksAreOwn`: `PiecesAreKept`,
`AnswerIsWhole` and `SeeksAreOwn` for any number of clients, receives and commands
kept, any read size, any set of texts and any values that unwritten memory can hold.

`DeviceInv` has three parts about the device and four about each client. `Ended`: a
command ends with a byte that is nobody's data; hence so does the content, and a seek
whose answer is one byte long gets a byte that belongs to no client. `Remains`: the
content is the end of everything published. `ChunkOK`: what the buffer holds at each
place, and whose numbers a seek carries. `WholeOK`: the client's own bytes in what was
published and is pending, followed by those in its buffer, are its data in order.
`ReadOK`: while a client reads, its position is the number of bytes it was sent, and
none of its bytes is pending, since it reads only behind its own newline. `AnswerOK`: until
the device drops a command the answer is a beginning of what was published. Both are about
clients that are not in `torn`; what a torn one was sent, nothing is said of. Without
`ReadOK` the last is not inductive: a client that still had a byte pending would be sent
an answer without it.

A client's own bytes are filtered out of sequences that were flattened. `Gathers` puts
flattening as a function from positions to partial results; `FlattenGathers` and
`FlattenConcat` show, by induction over a set, that it exists and what it does with a
concatenation, and `OwnConcat` carries that to a client's bytes. There is one lemma per
action (`RecvStep`, `RecvSeekStep`, `IoctlStep`, `CallStep`, `WriteStep`, `ReadStep`,
`TornStep`, `HangupStep`).

`SeekCommandLemmas`: `AtoiIs` computes what `atoi` returns for digits followed by a
character that is none, `CommandIsRead` that a well-formed command is read as its two
numbers, `SeeksAreNumbers` that any other text yields natural numbers, however
badly it is terminated.

### The parts of the server (`ServerPartsProofs`)

* Tail queue: `QueueTypes`, `QueueListsAreLinked` and `QueueLoopsVisitAll`, for any number
  of heads and elements. `ListInv` says that no element is in two places (`Apart`) and that
  every list is linked as its sequence (`LinkedAs`). `Apart` is needed because a store
  through a back pointer that belongs to another list would break that one. Of each macro
  one lemma computes what it stores (`InsertTailLinks`, `RemoveLinks`, `ConcatLinks`,
  `SwapLinks`, ...) and one shows that the lists are linked afterwards. The four insertions
  share `LinkedIn` (an element put between two neighbours) and its `LinkedInKeeps`; removal
  is `LinkedPast`. The loops are an induction over the position they have reached (`WalkIs`).
* Receive buffer: `WorkerDumpedInOrder` and `WorkerFullReceivesFit`, for any buffer size and
  number of bytes. `BytesInv` numbers the bytes dumped and waiting. `RoomInv` relates the
  room that the code believes in to the block: as long as no receive was short and nothing
  has been dumped, `block` is `buffer_size` and exceeds what was received by `BUFFER_SIZE`.
* Parser: `ParserCommandsAreRead`, for any set of digits, from `CommandIsRead`.

### The examples (`ExamplesProofs`)

* `ThreadsJoinedIsSuccess`, for any number of threads: `ThreadInv` says where the holder of
  the mutex is and that a record whose thread has ended says success, whichever of the two
  unsynchronised writers came last.
* `CallsResultIsExact` and `CallsNoChildLeft`, for any number of calls of one caller.
  `CallOf` ties each child's state to whether its command ran, and counts the children left:
  one for each failed `wait`, and one more during a call. With two callers both statements
  are false, because `wait` takes any child.

### Only model-checked

The liveness properties: `CallsReturn` of the driver, `ReceivedIsDumped`,
`ShutdownCompletes`, and the examples' `StartedEnds` and `CallsReturn`. Liveness under
fairness is out of the prover's reach. The safety half of two of them is proved:
`NoReturnWithLock` for `CallsReturn`, `HandOver` for `ShutdownCompletes`. The statements of
the three violation runs are false, so there is nothing to prove about them.

## Not modelled

Left out of the server: the failures of its socket set-up (they end the process
before anything is shared); short writes; the shutdown of the device build (the same
code as that of the data-file build); a second quit signal, after which the first
walk over the list reads freed memory; the unlocked copy of the client's address,
which only reaches the log; a signal in the middle of the assignments of
`TAILQ_INSERT_TAIL` (the model inserts in one step). Of the device build, a SIGPIPE:
sending an answer to a client that hung up ends the process there too (`:219`); it only
cuts behaviours short, and what is checked of that build are statements about every
state. Of the ioctl: the 500-byte block
it gathers bytes in, taken to be large enough. Of `queue.h`: the singly-linked lists
and queues and the doubly-linked lists, which nothing here uses, and of the tail queue the
`_SAFE` and `_FROM` variants of the loops, which nothing uses either.

Left out for good: build files, the QEMU and kernel build scripts, the test
scaffolding, `writer` and `finder` (sequential, no state), the load and start scripts.

What is left to do lies in the model more than in the proofs: the device build's
shutdown and short writes as actions, and `linked_list_mutex` together with the tail
queue's pointers, so that a signal can come between two assignments of
`TAILQ_INSERT_TAIL`.

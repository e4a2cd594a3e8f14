------------------------------ MODULE Threading ------------------------------
(***************************************************************************)
(* The threading example: a caller starts threads that share one mutex;    *)
(* starter and thread both write the result record, without a lock, and    *)
(* the caller joins a thread to read and free it.                          *)
(***************************************************************************)
CONSTANTS
  Task,     \* the threads the caller starts, one call each
  NoTask,
  Faults    \* "malloc" and "create" may fail

VARIABLES
  crashed,   \* the process has used a null pointer
  caller,    \* where each call of start_thread_obtaining_mutex is
  result,    \* what it returned
  at,        \* where each thread is
  mutex,     \* the task that holds it
  data       \* thread_complete_success in the thread_data records

vars == <<crashed, caller, result, at, mutex, data>>

Set(t, b) == data' = [data EXCEPT ![t] = b]
At(t, here, there) == ~crashed /\ at[t] = here /\ at' = [at EXCEPT ![t] = there]

Init ==
  /\ crashed = FALSE
  /\ caller = [t \in Task |-> "before"] /\ result = [t \in Task |-> FALSE]
  /\ at = [t \in Task |-> "none"] /\ mutex = NoTask
  /\ data = [t \in Task |-> FALSE]

-----------------------------------------------------------------------------
(* start_thread_obtaining_mutex. *)

(* One call at a time: the caller is one thread. *)
Idle == ~crashed /\ \A t \in Task : caller[t] \in {"before", "returned", "joined"}

Start(t) ==
  /\ Idle /\ caller[t] = "before"
  /\ Set(t, FALSE)
  /\ \/ /\ at' = [at EXCEPT ![t] = "begin"]
        /\ caller' = [caller EXCEPT ![t] = "created"]
     \/ /\ "create" \in Faults
        /\ caller' = [caller EXCEPT ![t] = "failed"]
        /\ UNCHANGED at
  /\ UNCHANGED <<crashed, result, mutex>>

(* Where malloc fails the last lines write through the null pointer. *)
StartNoMemory(t) ==
  /\ Idle /\ caller[t] = "before" /\ "malloc" \in Faults
  /\ crashed' = TRUE
  /\ UNCHANGED <<caller, result, at, mutex, data>>

(* The starter marks the record although the thread is running, and        *)
(* returns the record's address, which is true.                            *)
StartReturn(t) ==
  /\ ~crashed /\ caller[t] \in {"created", "failed"}
  /\ Set(t, caller[t] = "created")
  /\ result' = [result EXCEPT ![t] = TRUE]
  /\ caller' = [caller EXCEPT ![t] = "returned"]
  /\ UNCHANGED <<crashed, at, mutex>>

(* Told that the thread was started, the caller waits for it and takes its *)
(* record.                                                                 *)
Join(t) ==
  /\ Idle /\ caller[t] = "returned" /\ result[t] /\ at[t] = "done"
  /\ caller' = [caller EXCEPT ![t] = "joined"]
  /\ UNCHANGED <<crashed, result, at, mutex, data>>

-----------------------------------------------------------------------------
(* threadfunc. *)

Begin(t) == At(t, "begin", "lock") /\ Set(t, FALSE) /\ UNCHANGED <<crashed, caller, result, mutex>>

(* Obtain the mutex and hold it, for the time meant for the first wait. *)
Lock(t) ==
  /\ At(t, "lock", "hold") /\ mutex = NoTask
  /\ mutex' = t
  /\ UNCHANGED <<crashed, caller, result, data>>

(* Fault: the mutex is not released. *)
Unlock_Not(t) == At(t, "hold", "end") /\ UNCHANGED <<crashed, caller, result, mutex, data>>

Unlock(t) ==
  /\ At(t, "hold", "end")
  /\ mutex' = NoTask
  /\ UNCHANGED <<crashed, caller, result, data>>

(* Fault: the record is left as it is. *)
End_NoMark(t) == At(t, "end", "done") /\ UNCHANGED <<crashed, caller, result, mutex, data>>

End(t) == At(t, "end", "done") /\ Set(t, TRUE) /\ UNCHANGED <<crashed, caller, result, mutex>>

threadfunc(t) == Begin(t) \/ Lock(t) \/ Unlock(t) \/ End(t)

-----------------------------------------------------------------------------
Next ==
  \E t \in Task : \/ Start(t) \/ StartNoMemory(t) \/ StartReturn(t) \/ Join(t) \/ threadfunc(t)

-----------------------------------------------------------------------------
(* Properties. *)

(* Starter and thread race on the record, and still the caller that joins  *)
(* a thread finds it marked successful, and the mutex not with it.         *)
JoinedIsSuccess ==
  \A t \in Task : caller[t] = "joined" => data[t] /\ mutex # t
=============================================================================

----------------------------- MODULE MCExamples -----------------------------
(***************************************************************************)
(* The two example libraries, each on its own.  part says which one a      *)
(* behaviour is about; the variables of the other are not used.            *)
(***************************************************************************)
EXTENDS Naturals

CONSTANTS Task, NoTask, ThreadFaults, Caller, MaxCalls, CallFaults

ASSUME ExamplesAssumption == NoTask \notin Task /\ MaxCalls \in Nat

VARIABLES
  part,
  crashed, caller, started, at, mutex, data,
  calls, where, child, ran, result, unwaited

Threads == INSTANCE Threading WITH result <- started, Faults <- ThreadFaults
System  == INSTANCE SystemCalls WITH at <- where, Faults <- CallFaults

threads == <<crashed, caller, started, at, mutex, data>>
system  == <<calls, where, child, ran, result, unwaited>>
vars == <<part, threads, system>>

Init ==
  \/ /\ part = "threading" /\ Threads!Init
     /\ calls = NoTask /\ where = NoTask /\ child = NoTask
     /\ ran = NoTask /\ result = NoTask /\ unwaited = NoTask
  \/ /\ part = "systemcalls" /\ System!Init
     /\ crashed = NoTask /\ caller = NoTask /\ started = NoTask
     /\ at = NoTask /\ mutex = NoTask /\ data = NoTask

InThreading(A) == part = "threading" /\ A /\ UNCHANGED <<part, system>>
InSystemCalls(A) == part = "systemcalls" /\ A /\ UNCHANGED <<part, threads>>

Next == InThreading(Threads!Next) \/ InSystemCalls(System!Next)

(* Started threads run, and the mutex is taken once by each, so it is free *)
(* often enough; the starter returns.  The caller need not join or start   *)
(* anything.  A parent goes on when a child has exited, but wait need not  *)
(* fail; children keep running, and the commands come to an end.           *)
Fairness ==
  /\ \A t \in Task : /\ WF_vars(InThreading(Threads!threadfunc(t)))
                      /\ WF_vars(InThreading(Threads!StartReturn(t)))
  /\ \A c \in Caller : WF_vars(InSystemCalls(System!Reap(c)))
  /\ \A j \in Caller \X (1 .. MaxCalls) : WF_vars(InSystemCalls(System!ChildStep(j)))

Spec == Init /\ [][Next]_vars /\ Fairness

-----------------------------------------------------------------------------
(* The caller that joins a thread finds it successful and the mutex free   *)
(* of it, although starter and thread race on the record.                  *)
JoinedIsSuccess == part = "threading" => Threads!JoinedIsSuccess

(* A thread that was started releases the mutex and ends, however many     *)
(* others want it, unless the process crashes.                             *)
StartedEnds ==
  \A t \in Task :
    (part = "threading" /\ at[t] = "begin") ~> (part = "threading" /\ (at[t] = "done" \/ crashed))

(* A call's result is that of its own command. *)
ResultIsExact == part = "systemcalls" => System!ResultIsExact

(* Only a failed wait leaves a child behind. *)
NoChildLeft == part = "systemcalls" => System!NoChildLeft

(* Whatever fails, the parent of do_exec does not wait for ever. *)
CallsReturn ==
  \A c \in Caller :
    (part = "systemcalls" /\ where[c] = "wait") ~> (part = "systemcalls" /\ where[c] = "idle")
=============================================================================

----------------------------- MODULE SystemCalls -----------------------------
(***************************************************************************)
(* The system call example: do_system, do_exec and do_exec_redirect, which *)
(* run a command and say whether it succeeded.  fork, open, execv, system  *)
(* and wait can fail; a command exits with zero or not.  wait reaps any    *)
(* child of the process that has exited.                                   *)
(***************************************************************************)
EXTENDS Naturals, FiniteSets

CONSTANTS
  Caller,    \* threads of the process that call these functions
  MaxCalls,  \* calls each makes
  Faults     \* what may fail: "system", "fork", "open", "exec", "wait"

VARIABLES
  calls,     \* calls each caller has made so far
  at,        \* of a caller: "idle" or "wait"
  child,     \* of each call's child: "none", "open", "exec", "run", "ok", "failed" or "reaped"
  ran,       \* whether the command of each call ran and exited with zero
  result,    \* what the last call of each caller returned
  unwaited   \* how often wait failed each caller

vars == <<calls, at, child, ran, result, unwaited>>

Job == Caller \X (1 .. MaxCalls)

Init ==
  /\ calls = [c \in Caller |-> 0] /\ at = [c \in Caller |-> "idle"]
  /\ child = [j \in Job |-> "none"] /\ ran = [j \in Job |-> FALSE]
  /\ result = [c \in Caller |-> FALSE] /\ unwaited = [c \in Caller |-> 0]

Call(c) ==
  /\ at[c] = "idle" /\ calls[c] < MaxCalls
  /\ calls' = [calls EXCEPT ![c] = @ + 1]

Return(c, value) == result' = [result EXCEPT ![c] = value]

(* system runs the command to its end; its value is zero only for success. *)
do_system(c) ==
  /\ Call(c)
  /\ \/ ran' = [ran EXCEPT ![<<c, calls'[c]>>] = TRUE] /\ Return(c, TRUE)
     \/ "system" \in Faults /\ Return(c, FALSE) /\ UNCHANGED ran
  /\ UNCHANGED <<at, child, unwaited>>

(* The two others fork; the child opens the output file first, or not. *)
Forks(c, first) ==
  /\ Call(c)
  /\ \/ /\ child' = [child EXCEPT ![<<c, calls'[c]>>] = first]
        /\ at' = [at EXCEPT ![c] = "wait"]
        /\ UNCHANGED result
     \/ /\ "fork" \in Faults
        /\ Return(c, FALSE)
        /\ UNCHANGED <<child, at>>
  /\ UNCHANGED <<ran, unwaited>>

do_exec(c) == Forks(c, "exec")
do_exec_redirect(c) == Forks(c, "open")

Child(j, here, there) ==
  child[j] = here /\ child' = [child EXCEPT ![j] = there] /\ UNCHANGED <<calls, at, result, unwaited>>

ChildOpen(j) ==
  /\ Child(j, "open", "exec") \/ ("open" \in Faults /\ Child(j, "open", "failed"))
  /\ UNCHANGED ran

(* Fault: after execv has failed the child goes on as the caller does. *)
ChildExec_Continue(j) ==
  /\ Child(j, "exec", "run") \/ ("exec" \in Faults /\ Child(j, "exec", "none"))
  /\ UNCHANGED ran

(* execv returns only if it failed, and then the child exits with one. *)
ChildExec(j) ==
  /\ Child(j, "exec", "run") \/ ("exec" \in Faults /\ Child(j, "exec", "failed"))
  /\ UNCHANGED ran

Command(j) ==
  \/ Child(j, "run", "ok") /\ ran' = [ran EXCEPT ![j] = TRUE]
  \/ Child(j, "run", "failed") /\ UNCHANGED ran

(* wait reaps whichever child has exited, if one has. *)
Exited == {j \in Job : child[j] \in {"ok", "failed"}}

(* Fault: the exit status is not looked at. *)
Reap_AnyStatus(c) ==
  /\ at[c] = "wait" /\ at' = [at EXCEPT ![c] = "idle"]
  /\ \E j \in Exited : child' = [child EXCEPT ![j] = "reaped"]
  /\ Return(c, TRUE)
  /\ UNCHANGED <<calls, ran, unwaited>>

(* Fault: the parent does not wait. *)
Reap_Not(c) ==
  /\ at[c] = "wait" /\ at' = [at EXCEPT ![c] = "idle"]
  /\ Return(c, TRUE)
  /\ UNCHANGED <<calls, child, ran, unwaited>>

(* The status of the child that was reaped decides. *)
Reap(c) ==
  /\ at[c] = "wait" /\ at' = [at EXCEPT ![c] = "idle"]
  /\ \E j \in Exited : child' = [child EXCEPT ![j] = "reaped"] /\ Return(c, child[j] = "ok")
  /\ UNCHANGED <<calls, ran, unwaited>>

(* Where wait fails, status keeps its initial value, zero. *)
WaitFails(c) ==
  /\ "wait" \in Faults
  /\ at[c] = "wait" /\ at' = [at EXCEPT ![c] = "idle"]
  /\ unwaited' = [unwaited EXCEPT ![c] = @ + 1]
  /\ Return(c, TRUE)
  /\ UNCHANGED <<calls, child, ran>>

ChildStep(j) == ChildOpen(j) \/ ChildExec(j) \/ Command(j)

Next ==
  \/ \E c \in Caller : do_system(c) \/ do_exec(c) \/ do_exec_redirect(c) \/ Reap(c) \/ WaitFails(c)
  \/ \E j \in Job : ChildStep(j)

-----------------------------------------------------------------------------
(* Properties. *)

(* A call returns true exactly when its own command ran and exited with    *)
(* zero: not when the fork, the open or the execv failed, not for what     *)
(* another child did; as long as wait has not failed.                      *)
ResultIsExact ==
  \A c \in Caller : at[c] = "idle" /\ calls[c] > 0 /\ unwaited[c] = 0
                      => result[c] = ran[<<c, calls[c]>>]

(* A call leaves no child behind, running or unreaped, for a later wait to *)
(* take for its own: only a failed wait does, and then exactly one.        *)
NoChildLeft ==
  \A c \in Caller : at[c] = "idle" =>
    Cardinality({k \in 1 .. MaxCalls : child[<<c, k>>] \notin {"none", "reaped"}}) = unwaited[c]
=============================================================================

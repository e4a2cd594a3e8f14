---------------------------- MODULE ExamplesProofs ----------------------------
(***************************************************************************)
(* The invariants of the two examples: for any number of threads, and for  *)
(* any number of calls of one caller, whatever fails.                      *)
(***************************************************************************)
EXTENDS MCExamples, FiniteSetTheorems, TLAPS

-----------------------------------------------------------------------------
(* The threading example. *)

ThreadTypes ==
  /\ crashed \in BOOLEAN
  /\ caller \in [Task -> {"before", "created", "failed", "returned", "joined"}]
  /\ at \in [Task -> {"none", "begin", "lock", "hold", "end", "done"}]
  /\ data \in [Task -> BOOLEAN]

(* Who holds the mutex is where it holds it.  A thread that never ran has  *)
(* no starter that could overwrite its record with success, and one that   *)
(* has ended finds only success written after its own mark.                *)
ThreadInv ==
  /\ ThreadTypes
  /\ \A t \in Task : /\ mutex = t <=> at[t] = "hold"
                     /\ caller[t] \in {"before", "failed"} => at[t] = "none"
                     /\ caller[t] = "joined" => at[t] = "done"
                     /\ at[t] = "done" => data[t]

(* Each step of starter, joiner and thread keeps the invariant. *)
LEMMA ThreadStep ==
  ASSUME ThreadInv, Threads!Next
  PROVE  ThreadInv'
  <1> USE DEF ThreadInv, ThreadTypes
  <1>1. PICK t \in Task : \/ Threads!Start(t) \/ Threads!StartNoMemory(t) \/ Threads!StartReturn(t)
                          \/ Threads!Join(t) \/ Threads!threadfunc(t)
    BY DEF Threads!Next
  <1>2. CASE Threads!Start(t)
    BY <1>2 DEF Threads!Start, Threads!Set, Threads!Idle
  <1>3. CASE Threads!StartNoMemory(t)
    BY <1>3 DEF Threads!StartNoMemory
  <1>4. CASE Threads!StartReturn(t)
    <2>1. CASE caller[t] = "created"
      BY <1>4, <2>1 DEF Threads!StartReturn, Threads!Set
    <2>2. CASE caller[t] = "failed"
      BY <1>4, <2>2 DEF Threads!StartReturn, Threads!Set
    <2> QED
      BY <1>4, <2>1, <2>2 DEF Threads!StartReturn
  <1>5. CASE Threads!Join(t)
    BY <1>5 DEF Threads!Join
  <1>6. CASE Threads!threadfunc(t)
    <2>1. CASE Threads!Begin(t)
      BY <2>1 DEF Threads!Begin, Threads!At, Threads!Set
    <2>2. CASE Threads!Lock(t)
      BY <2>2, ExamplesAssumption DEF Threads!Lock, Threads!At
    <2>3. CASE Threads!Unlock(t)
      BY <2>3, ExamplesAssumption DEF Threads!Unlock, Threads!At
    <2>4. CASE Threads!End(t)
      BY <2>4 DEF Threads!End, Threads!At, Threads!Set
    <2> QED
      BY <1>6, <2>1, <2>2, <2>3, <2>4 DEF Threads!threadfunc
  <1> QED
    BY <1>1, <1>2, <1>3, <1>4, <1>5, <1>6

(* The caller that joins a thread finds its record marked successful and   *)
(* the mutex not with it, although start_thread_obtaining_mutex and        *)
(* threadfunc write the record without a lock.                             *)
THEOREM ThreadsJoinedIsSuccess == Spec => []JoinedIsSuccess
  <1> DEFINE Inv == part = "threading" => ThreadInv
  <1>1. Init => Inv
    BY ExamplesAssumption DEF Init, Threads!Init, ThreadInv, ThreadTypes
  <1>2. Inv /\ [Next]_vars => Inv'
    <2> SUFFICES ASSUME Inv, [Next]_vars, part' = "threading" PROVE ThreadInv'
      OBVIOUS
    <2>1. CASE InThreading(Threads!Next)
      BY <2>1, ThreadStep DEF InThreading
    <2>2. CASE UNCHANGED vars
      BY <2>2 DEF vars, threads, ThreadInv, ThreadTypes
    <2> QED
      BY <2>1, <2>2 DEF Next, InSystemCalls
  <1>3. Inv => JoinedIsSuccess
    BY DEF JoinedIsSuccess, Threads!JoinedIsSuccess, ThreadInv
  <1> QED
    BY <1>1, <1>2, <1>3, PTL DEF Spec


-----------------------------------------------------------------------------
(* The system call example. *)

Job == Caller \X (1 .. MaxCalls)

(* The calls of c whose child is running, or has not been reaped. *)
Left(c) == {k \in 1 .. MaxCalls : child[<<c, k>>] \notin {"none", "reaped"}}

CallTypes ==
  /\ calls \in [Caller -> 0 .. MaxCalls]
  /\ where \in [Caller -> {"idle", "wait"}]
  /\ child \in [Job -> {"none", "open", "exec", "run", "ok", "failed", "reaped"}]
  /\ ran \in [Job -> BOOLEAN]
  /\ result \in [Caller -> BOOLEAN]
  /\ unwaited \in [Caller -> Nat]

(* Calls to come have no child; a child's state says whether its command   *)
(* has run; unless wait has failed the only child left is that of the call *)
(* that waits; and each failed wait has left one.                          *)
CallOf(c) ==
  /\ \A k \in 1 .. MaxCalls :
       /\ k > calls[c] => child[<<c, k>>] = "none" /\ ~ran[<<c, k>>]
       /\ child[<<c, k>>] = "ok" => ran[<<c, k>>]
       /\ child[<<c, k>>] \in {"open", "exec", "run", "failed"} => ~ran[<<c, k>>]
       /\ unwaited[c] = 0 /\ k \in Left(c) => where[c] = "wait" /\ k = calls[c]
  /\ where[c] = "idle" /\ calls[c] > 0 /\ unwaited[c] = 0 => (result[c] <=> ran[<<c, calls[c]>>])
  /\ where[c] = "idle" => Cardinality(Left(c)) = unwaited[c]
  /\ where[c] = "wait" => Cardinality(Left(c)) = unwaited[c] + 1

CallInv == CallTypes /\ \A c \in Caller : CallOf(c)

(* A child more, a child less. *)
LEMMA LeftChanges ==
  ASSUME NEW c \in Caller, NEW k \in 1 .. MaxCalls
  PROVE  /\ IsFiniteSet(Left(c)) /\ Cardinality(Left(c)) \in Nat
         /\ k \notin Left(c) /\ Left(c)' = Left(c) \cup {k} => Cardinality(Left(c)') = Cardinality(Left(c)) + 1
         /\ k \in Left(c) /\ Left(c)' = Left(c) \ {k} => Cardinality(Left(c)') = Cardinality(Left(c)) - 1
  <1>1. IsFiniteSet(1 .. MaxCalls)
    BY FS_Interval, ExamplesAssumption
  <1>2. IsFiniteSet(Left(c))
    BY <1>1, FS_Subset DEF Left
  <1> QED
    BY <1>2, FS_CardinalityType, FS_AddElement, FS_RemoveElement

(* A child that goes on is left as it was, and says what its command did. *)
LEMMA ChildKeeps ==
  ASSUME CallInv, \A c, d \in Caller : c = d, NEW j \in Job, System!ChildStep(j)
  PROVE  CallInv'
  <1>1. PICK c \in Caller, k \in 1 .. MaxCalls : j = <<c, k>>
    BY DEF Job
  <1>2. /\ child[j] \in {"open", "exec", "run"}
        /\ \E s \in {"exec", "run", "ok", "failed"} : child' = [child EXCEPT ![j] = s]
        /\ UNCHANGED <<calls, where, result, unwaited>>
        /\ \/ child'[j] = "ok" /\ ran' = [ran EXCEPT ![j] = TRUE]
           \/ child'[j] # "ok" /\ ran' = ran
    BY DEF System!ChildStep, System!ChildOpen, System!ChildExec, System!Command, System!Child, CallInv, CallTypes
  <1>3. /\ CallTypes'
        /\ child'[j] \in {"exec", "run", "ok", "failed"}
        /\ \A i \in Job \ {j} : child'[i] = child[i] /\ ran'[i] = ran[i]
        /\ child'[j] = "ok" => ran'[j]
        /\ child'[j] # "ok" => ran'[j] = ran[j]
    BY <1>2 DEF CallInv, CallTypes
  <1>4. ASSUME NEW d \in Caller PROVE Left(d)' = Left(d)
    <2>1. \A n \in 1 .. MaxCalls : <<d, n>> = j \/ <<d, n>> \in Job \ {j}
      BY DEF Job
    <2>2. \A n \in 1 .. MaxCalls : child[<<d, n>>]' \in {"none", "reaped"} <=> child[<<d, n>>] \in {"none", "reaped"}
      BY <1>2, <1>3, <2>1
    <2> QED
      BY <2>2 DEF Left
  <1>5. \A d \in Caller : \A n \in 1 .. MaxCalls : <<d, n>> = j => d = c /\ n = k
    BY <1>1
  <1>6. k \in Left(c) /\ k <= calls[c] /\ ~ran[j]
    <2>1. calls[c] \in Nat /\ k \in Nat /\ (k > calls[c] => child[j] = "none") /\ CallOf(c)
      BY <1>1, ExamplesAssumption DEF CallInv, CallOf, CallTypes
    <2>2. k \in Left(c) /\ ~ran[j]
      BY <1>1, <1>2, <2>1 DEF Left, CallOf
    <2> QED
      BY <1>2, <2>1, <2>2
  <1>7. ASSUME NEW d \in Caller PROVE CallOf(d)'
    <2>1. CallOf(d) /\ Left(d)' = Left(d) /\ d = c
      BY <1>4 DEF CallInv
    <2>2. \A n \in 1 .. MaxCalls : n # k => child'[<<d, n>>] = child[<<d, n>>] /\ ran'[<<d, n>>] = ran[<<d, n>>]
      <3> SUFFICES ASSUME NEW n \in 1 .. MaxCalls, n # k
                   PROVE  child'[<<d, n>>] = child[<<d, n>>] /\ ran'[<<d, n>>] = ran[<<d, n>>]
        OBVIOUS
      <3>1. <<d, n>> \in Job \ {j}
        BY <1>5 DEF Job
      <3> QED
        BY <3>1, <1>3
    <2>3. ASSUME NEW n \in 1 .. MaxCalls
          PROVE  /\ (n > calls[d] => child[<<d, n>>] = "none" /\ ~ran[<<d, n>>])'
                 /\ (child[<<d, n>>] = "ok" => ran[<<d, n>>])'
                 /\ (child[<<d, n>>] \in {"open", "exec", "run", "failed"} => ~ran[<<d, n>>])'
                 /\ (unwaited[d] = 0 /\ n \in Left(d) => where[d] = "wait" /\ n = calls[d])'
      <3>1. CASE n = k
        BY <1>1, <1>2, <1>3, <1>6, <2>1, <3>1 DEF CallOf, CallInv, CallTypes
      <3>2. CASE n # k
        BY <1>2, <2>1, <2>2, <3>2 DEF CallOf
      <3> QED
        BY <3>1, <3>2
    <2>4. (where[d] = "idle" /\ calls[d] > 0 /\ unwaited[d] = 0 => (result[d] <=> ran[<<d, calls[d]>>]))'
      <3> SUFFICES ASSUME where[d] = "idle", calls[d] > 0, unwaited[d] = 0
                   PROVE  result[d] <=> ran'[<<d, calls[d]>>]
        BY <1>2
      <3>1. calls[d] \in 1 .. MaxCalls /\ k # calls[d]
        BY <1>6, <2>1 DEF CallOf, CallInv, CallTypes
      <3> QED
        BY <2>1, <2>2, <3>1 DEF CallOf
    <2> QED
      BY <1>2, <2>1, <2>3, <2>4 DEF CallOf
  <1> QED
    BY <1>3, <1>7 DEF CallInv


(* A call begins: its number is fresh. *)
LEMMA CallNumber ==
  ASSUME CallInv, NEW c \in Caller, System!Call(c)
  PROVE  /\ where[c] = "idle" /\ calls'[c] = calls[c] + 1 /\ calls'[c] \in 1 .. MaxCalls
         /\ calls' \in [Caller -> 0 .. MaxCalls]
         /\ <<c, calls'[c]>> \in Job /\ child[<<c, calls'[c]>>] = "none" /\ ~ran[<<c, calls'[c]>>]
         /\ calls'[c] \notin Left(c)
         /\ \A n \in 1 .. MaxCalls : n > calls'[c] => n > calls[c]
  <1>1. calls[c] \in 0 .. MaxCalls /\ where[c] = "idle" /\ calls[c] < MaxCalls
        /\ calls' = [calls EXCEPT ![c] = calls[c] + 1]
    BY DEF System!Call, CallInv, CallTypes
  <1>2. calls'[c] = calls[c] + 1 /\ calls'[c] \in 1 .. MaxCalls /\ calls' \in [Caller -> 0 .. MaxCalls]
    BY <1>1, ExamplesAssumption DEF CallInv, CallTypes
  <1>3. child[<<c, calls'[c]>>] = "none" /\ ~ran[<<c, calls'[c]>>]
    <2>1. CallOf(c) /\ calls'[c] > calls[c]
      BY <1>1, <1>2 DEF CallInv
    <2> QED
      BY <1>2, <2>1 DEF CallOf
  <1> QED
    BY <1>1, <1>2, <1>3, ExamplesAssumption DEF Job, Left

(* do_system leaves no child, and its result is the command's. *)
LEMMA SystemKeeps ==
  ASSUME CallInv, \A c, d \in Caller : c = d, NEW c \in Caller, System!do_system(c)
  PROVE  CallInv'
  <1> DEFINE m == calls'[c]
  <1>1. /\ where[c] = "idle" /\ m = calls[c] + 1 /\ m \in 1 .. MaxCalls
        /\ calls' \in [Caller -> 0 .. MaxCalls]
        /\ <<c, m>> \in Job /\ child[<<c, m>>] = "none" /\ ~ran[<<c, m>>]
        /\ \A n \in 1 .. MaxCalls : n > m => n > calls[c]
    BY CallNumber DEF System!do_system
  <1>2. /\ UNCHANGED <<where, child, unwaited>>
        /\ \/ ran' = [ran EXCEPT ![<<c, m>>] = TRUE] /\ result' = [result EXCEPT ![c] = TRUE]
           \/ ran' = ran /\ result' = [result EXCEPT ![c] = FALSE]
    BY DEF System!do_system, System!Return
  <1>3. CallOf(c) /\ calls[c] \in Nat
    BY DEF CallInv, CallTypes
  <1> HIDE DEF m
  <1>4. /\ CallTypes' /\ (result'[c] <=> ran'[<<c, m>>])
        /\ \A n \in 1 .. MaxCalls : n # m => (ran'[<<c, n>>] <=> ran[<<c, n>>])
    <2>1. \A n \in 1 .. MaxCalls : <<c, n>> \in Job /\ (n # m => <<c, n>> # <<c, m>>)
      BY DEF Job
    <2> QED
      BY <1>1, <1>2, <2>1 DEF CallInv, CallTypes
  <1>5. Left(c)' = Left(c)
    BY <1>2 DEF Left
  <1>6. CallOf(c)'
    <2>1. calls'[c] = m
      BY DEF m
    <2>2. ASSUME NEW n \in 1 .. MaxCalls
          PROVE  /\ (n > calls[c] => child[<<c, n>>] = "none" /\ ~ran[<<c, n>>])'
                 /\ (child[<<c, n>>] = "ok" => ran[<<c, n>>])'
                 /\ (child[<<c, n>>] \in {"open", "exec", "run", "failed"} => ~ran[<<c, n>>])'
                 /\ (unwaited[c] = 0 /\ n \in Left(c) => where[c] = "wait" /\ n = calls[c])'
      <3>1. CASE n = m
        BY <1>1, <1>2, <1>3, <1>5, <2>1, <3>1 DEF CallOf
      <3>2. CASE n # m
        BY <1>1, <1>2, <1>3, <1>4, <1>5, <2>1, <3>2 DEF CallOf
      <3> QED
        BY <3>1, <3>2
    <2> QED
      BY <1>1, <1>2, <1>3, <1>4, <1>5, <2>1, <2>2 DEF CallOf
  <1> QED
    BY <1>4, <1>6 DEF CallInv


(* do_exec and do_exec_redirect: one child more, or a call that failed. *)
LEMMA ForksKeeps ==
  ASSUME CallInv, \A c, d \in Caller : c = d, NEW c \in Caller,
         NEW first \in {"exec", "open"}, System!Forks(c, first)
  PROVE  CallInv'
  <1> DEFINE m == calls'[c]
  <1>1. /\ where[c] = "idle" /\ m = calls[c] + 1 /\ m \in 1 .. MaxCalls
        /\ calls' \in [Caller -> 0 .. MaxCalls]
        /\ <<c, m>> \in Job /\ child[<<c, m>>] = "none" /\ ~ran[<<c, m>>] /\ m \notin Left(c)
        /\ \A n \in 1 .. MaxCalls : n > m => n > calls[c]
    BY CallNumber DEF System!Forks
  <1>2. /\ UNCHANGED <<ran, unwaited>>
        /\ \/ /\ child' = [child EXCEPT ![<<c, m>>] = first]
              /\ where' = [where EXCEPT ![c] = "wait"] /\ result' = result
           \/ /\ result' = [result EXCEPT ![c] = FALSE]
              /\ UNCHANGED <<child, where>>
    BY DEF System!Forks, System!Return
  <1>3. CallOf(c) /\ calls[c] \in Nat /\ unwaited[c] \in Nat
    BY DEF CallInv, CallTypes
  <1>4. calls'[c] = m
    OBVIOUS
  <1> HIDE DEF m
  <1>5. \A n \in 1 .. MaxCalls : <<c, n>> \in Job /\ (n # m => <<c, n>> # <<c, m>>)
    BY DEF Job
  <1>6. CASE child' = [child EXCEPT ![<<c, m>>] = first] /\ where' = [where EXCEPT ![c] = "wait"] /\ result' = result
    <2>1. /\ CallTypes' /\ where'[c] = "wait" /\ child'[<<c, m>>] = first
          /\ \A n \in 1 .. MaxCalls : n # m => child'[<<c, n>>] = child[<<c, n>>]
      BY <1>1, <1>2, <1>5, <1>6 DEF CallInv, CallTypes
    <2>2. Left(c)' = Left(c) \cup {m}
      BY <1>1, <2>1 DEF Left
    <2>3. Cardinality(Left(c)') = unwaited[c] + 1
      BY <1>1, <1>3, <2>2, LeftChanges DEF CallOf
    <2>4. ASSUME NEW n \in 1 .. MaxCalls
          PROVE  /\ (n > calls[c] => child[<<c, n>>] = "none" /\ ~ran[<<c, n>>])'
                 /\ (child[<<c, n>>] = "ok" => ran[<<c, n>>])'
                 /\ (child[<<c, n>>] \in {"open", "exec", "run", "failed"} => ~ran[<<c, n>>])'
                 /\ (unwaited[c] = 0 /\ n \in Left(c) => where[c] = "wait" /\ n = calls[c])'
      <3>1. CASE n = m
        BY <1>1, <1>2, <1>4, <2>1, <3>1
      <3>2. CASE n # m
        BY <1>1, <1>2, <1>3, <1>4, <2>1, <2>2, <3>2 DEF CallOf
      <3> QED
        BY <3>1, <3>2
    <2>5. CallOf(c)'
      BY <1>2, <2>1, <2>3, <2>4 DEF CallOf
    <2> QED
      BY <2>1, <2>5 DEF CallInv
  <1>7. CASE result' = [result EXCEPT ![c] = FALSE] /\ UNCHANGED <<child, where>>
    <2>1. CallTypes' /\ ~result'[c]
      BY <1>1, <1>2, <1>7 DEF CallInv, CallTypes
    <2>2. Left(c)' = Left(c)
      BY <1>7 DEF Left
    <2>3. ASSUME NEW n \in 1 .. MaxCalls
          PROVE  /\ (n > calls[c] => child[<<c, n>>] = "none" /\ ~ran[<<c, n>>])'
                 /\ (child[<<c, n>>] = "ok" => ran[<<c, n>>])'
                 /\ (child[<<c, n>>] \in {"open", "exec", "run", "failed"} => ~ran[<<c, n>>])'
                 /\ (unwaited[c] = 0 /\ n \in Left(c) => where[c] = "wait" /\ n = calls[c])'
      BY <1>1, <1>2, <1>3, <1>4, <1>7, <2>2 DEF CallOf
    <2>4. CallOf(c)'
      BY <1>1, <1>2, <1>3, <1>4, <1>7, <2>1, <2>2, <2>3 DEF CallOf
    <2> QED
      BY <2>1, <2>4 DEF CallInv
  <1> QED
    BY <1>2, <1>6, <1>7

(* wait takes the child of the call, unless an earlier wait failed, or     *)
(* fails and leaves it.                                                    *)
LEMMA WaitKeeps ==
  ASSUME CallInv, \A c, d \in Caller : c = d, NEW c \in Caller, System!Reap(c) \/ System!WaitFails(c)
  PROVE  CallInv'
  <1>1. /\ where[c] = "wait" /\ where' = [where EXCEPT ![c] = "idle"] /\ UNCHANGED <<calls, ran>>
        /\ CallOf(c) /\ calls[c] \in 0 .. MaxCalls /\ unwaited[c] \in Nat
    BY DEF System!Reap, System!WaitFails, CallInv, CallTypes
  <1>2. CASE System!WaitFails(c)
    <2>1. /\ CallTypes' /\ where'[c] = "idle" /\ unwaited'[c] = unwaited[c] + 1 /\ child' = child
      BY <1>1, <1>2 DEF System!WaitFails, System!Return, CallInv, CallTypes
    <2>2. Left(c)' = Left(c)
      BY <2>1 DEF Left
    <2>3. CallOf(c)'
      BY <1>1, <2>1, <2>2 DEF CallOf
    <2> QED
      BY <2>1, <2>3 DEF CallInv
  <1>3. CASE System!Reap(c)
    <2>1. PICK j \in Job : /\ child[j] \in {"ok", "failed"} /\ child' = [child EXCEPT ![j] = "reaped"]
                           /\ result' = [result EXCEPT ![c] = (child[j] = "ok")]
      BY <1>3 DEF System!Reap, System!Exited, System!Job, System!Return, Job
    <2>2. PICK k \in 1 .. MaxCalls : j = <<c, k>>
      BY DEF Job
    <2>3. /\ CallTypes' /\ where'[c] = "idle" /\ unwaited' = unwaited /\ child'[<<c, k>>] = "reaped"
          /\ (result'[c] <=> child[<<c, k>>] = "ok")
      BY <1>1, <1>3, <2>1, <2>2 DEF System!Reap, CallInv, CallTypes
    <2>4. \A n \in 1 .. MaxCalls : n # k => child'[<<c, n>>] = child[<<c, n>>]
      <3>1. \A n \in 1 .. MaxCalls : <<c, n>> \in Job /\ (n # k => <<c, n>> # j)
        BY <2>2 DEF Job
      <3> QED
        BY <2>1, <3>1 DEF CallInv, CallTypes
    <2>5. k \in Left(c) /\ Left(c)' = Left(c) \ {k}
      BY <2>1, <2>2, <2>3, <2>4 DEF Left
    <2>6. Cardinality(Left(c)') = unwaited[c]
      <3>1. Cardinality(Left(c)) = unwaited[c] + 1
        BY <1>1 DEF CallOf
      <3>2. Cardinality(Left(c)') = Cardinality(Left(c)) - 1
        BY <2>5, LeftChanges
      <3> QED
        BY <1>1, <3>1, <3>2
    <2>7. unwaited[c] = 0 => k = calls[c] /\ Left(c)' = {}
      BY <1>1, <2>5 DEF CallOf, Left
    <2>8. child[<<c, k>>] = "ok" <=> ran[<<c, k>>]
      BY <1>1, <2>1, <2>2 DEF CallOf
    <2>9. ASSUME NEW n \in 1 .. MaxCalls
          PROVE  /\ (n > calls[c] => child[<<c, n>>] = "none" /\ ~ran[<<c, n>>])'
                 /\ (child[<<c, n>>] = "ok" => ran[<<c, n>>])'
                 /\ (child[<<c, n>>] \in {"open", "exec", "run", "failed"} => ~ran[<<c, n>>])'
                 /\ (unwaited[c] = 0 /\ n \in Left(c) => where[c] = "wait" /\ n = calls[c])'
      <3>1. CASE n = k
        <4>1. ~(k > calls[c])
          BY <1>1, <2>1, <2>2 DEF CallOf
        <4> QED
          BY <1>1, <2>3, <2>7, <3>1, <4>1
      <3>2. CASE n # k
        BY <1>1, <2>3, <2>4, <2>7, <3>2 DEF CallOf
      <3> QED
        BY <3>1, <3>2
    <2>10. CallOf(c)'
      BY <1>1, <2>3, <2>6, <2>7, <2>8, <2>9 DEF CallOf
    <2> QED
      BY <2>3, <2>10 DEF CallInv
  <1> QED
    BY <1>2, <1>3

(* Every step of one caller and its children keeps the invariant. *)
LEMMA CallInvariant ==
  ASSUME \A c, d \in Caller : c = d
  PROVE  Spec => [](part = "systemcalls" => CallInv)
  <1> DEFINE Inv == part = "systemcalls" => CallInv
  <1>1. Init => Inv
    <2> SUFFICES ASSUME Init, part = "systemcalls" PROVE CallInv
      OBVIOUS
    <2>1. System!Init
      BY DEF Init
    <2>2. CallTypes
      BY <2>1, ExamplesAssumption DEF System!Init, System!Job, Job, CallTypes
    <2>3. \A c \in Caller : \A k \in 1 .. MaxCalls : child[<<c, k>>] = "none" /\ ~ran[<<c, k>>]
      BY <2>1 DEF System!Init, System!Job
    <2>4. ASSUME NEW c \in Caller PROVE CallOf(c)
      <3>1. Left(c) = {} /\ Cardinality({}) = 0
        BY <2>3, FS_EmptySet DEF Left
      <3>2. where[c] = "idle" /\ calls[c] = 0 /\ unwaited[c] = 0
        BY <2>1 DEF System!Init
      <3> QED
        BY <2>3, <3>1, <3>2 DEF CallOf
    <2> QED
      BY <2>2, <2>4 DEF CallInv
  <1>2. Inv /\ [Next]_vars => Inv'
    <2> SUFFICES ASSUME Inv, [Next]_vars, part' = "systemcalls" PROVE CallInv'
      OBVIOUS
    <2>1. CASE InSystemCalls(System!Next)
      <3>1. CallInv /\ System!Next
        BY <2>1 DEF InSystemCalls
      <3> QED
        BY <3>1, ChildKeeps, SystemKeeps, ForksKeeps, WaitKeeps
        DEF System!Next, System!do_exec, System!do_exec_redirect, System!Job, Job
    <2>2. CASE UNCHANGED vars
      BY <2>2 DEF vars, system, CallInv, CallTypes, CallOf, Left
    <2> QED
      BY <2>1, <2>2 DEF Next, InThreading
  <1> QED
    BY <1>1, <1>2, PTL DEF Spec

(* One caller, any number of calls, whatever fails: do_system, do_exec and *)
(* do_exec_redirect return true exactly when their own command ran and     *)
(* exited with zero, as long as wait has not failed.                       *)
THEOREM CallsResultIsExact ==
  ASSUME \A c, d \in Caller : c = d
  PROVE  Spec => []ResultIsExact
  <1>1. (part = "systemcalls" => CallInv) => ResultIsExact
    <2> SUFFICES ASSUME CallInv, NEW c \in Caller, where[c] = "idle", calls[c] > 0, unwaited[c] = 0
                 PROVE  result[c] = ran[<<c, calls[c]>>]
      BY DEF ResultIsExact, System!ResultIsExact
    <2>1. result[c] <=> ran[<<c, calls[c]>>]
      BY DEF CallInv, CallOf
    <2>2. result[c] \in BOOLEAN /\ ran[<<c, calls[c]>>] \in BOOLEAN
      <3>1. <<c, calls[c]>> \in Job
        BY ExamplesAssumption DEF CallInv, CallTypes, Job
      <3> QED
        BY <3>1 DEF CallInv, CallTypes
    <2> QED
      BY <2>1, <2>2
  <1> QED
    BY <1>1, CallInvariant, PTL

(* One caller, any number of calls, whatever fails: between calls the only *)
(* children left, running or unreaped, are those of the failed waits.      *)
THEOREM CallsNoChildLeft ==
  ASSUME \A c, d \in Caller : c = d
  PROVE  Spec => []NoChildLeft
  <1>1. (part = "systemcalls" => CallInv) => NoChildLeft
    <2> SUFFICES ASSUME CallInv, NEW c \in Caller, where[c] = "idle"
                 PROVE  System!Cardinality(Left(c)) = unwaited[c]
      BY DEF NoChildLeft, System!NoChildLeft, Left
    <2>1. System!Cardinality(Left(c)) = Cardinality(Left(c))
      BY DEF System!Cardinality, Cardinality
    <2> QED
      BY <2>1 DEF CallInv, CallOf
  <1> QED
    BY <1>1, CallInvariant, PTL
=============================================================================

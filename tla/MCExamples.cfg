SPECIFICATION Spec
CHECK_DEADLOCK FALSE
CONSTANTS
  Task = {t1, t2, t3}
  NoTask = NoTask
  ThreadFaults = {"malloc", "create"}
  Caller = {c1}
  MaxCalls = 4
  CallFaults = {"system", "fork", "open", "exec", "wait"}
INVARIANTS
  JoinedIsSuccess
  ResultIsExact
  NoChildLeft
PROPERTIES
  StartedEnds
  CallsReturn

\* One job at a time, two institutions: handlers, timers, answers and sessions.
CONSTANTS
  Job = {j1}
  Inst = {i1, i2}
  NoInst = NoInst
SPECIFICATION Spec
CHECK_DEADLOCK FALSE
INVARIANTS
  TypeOK
  RunningIsServed
  TimerWhileWaiting
PROPERTIES
  ProgressRunsForward
  ConsentIsAskedOnce
  RunningSettles

\* Two timers and a periodic timer share a queue of two entries with a task
\* that defers itself.
CONSTANTS
  HalfRange = 3
  Tasks = {t, p, other}
  IsrTasks = {}
  NoTask = NoTask
  MaxIrq = 0
  MaxAsap = 0
  MaxDeferred = 2
  Delays <- MCDelays
  MaxLag = 1
  Timers = {t}
  Others = {other}
  Tics <- MCTics
  FreshStates = {"IDLE", "RUNNING", "ERROR"}
  Periodic = p
  Periods = {1}
  MaxNest = 2
SPECIFICATION PeriodicSpec
INVARIANTS TimerEntries KeepsPace
PROPERTIES ArmedStaysArmed

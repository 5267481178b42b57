SPECIFICATION FairTemplateSpec
CONSTANTS
  Template = template_mgr
  Caller = caller
  Idle = idle_task
  Tasks = {template_mgr, caller, idle_task}
  IsrTasks = {}
  NoTask = null
  Unknown = unknown
  StateNames <- MCStateNames
  HalfRange = 1
  MaxLag = 0
  Delays = {0}
  MaxIrq = 0
  MaxAsap = 16
  MaxDeferred = 0
INVARIANTS CalledBackOnce WokenByOutcome
PROPERTIES LogTrue Ends

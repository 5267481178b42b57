\* A sound link; garbage returned is true.
CONSTANTS
  HalfRange = 1
  Tasks = {app, iface, coms, caller}
  IsrTasks = {coms}
  NoTask = NoTask
  MaxIrq = 1
  MaxAsap = 4
  MaxDeferred = 0
  Delays = {}
  MaxLag = 0
  App = app
  Client = iface
  Coms = coms
  Caller = caller
  Capacity = 2
  RingSize = 2
  MessageSizes = {2}
  MaxBacklog = 0
  ByteErrors = FALSE
  StrayEvents = {}
  GarbageIsNull = {FALSE}
  GarbageBool = {TRUE}
SPECIFICATION FairTstatSpec
PROPERTIES RoundEnds

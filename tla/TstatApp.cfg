\* Messages that fit the buffer, lost bytes, stray events, an interrupt queue of
\* two, garbage read and returned.
CONSTANTS
  HalfRange = 1
  Tasks = {app, iface, coms, caller}
  IsrTasks = {coms}
  NoTask = NoTask
  MaxIrq = 2
  MaxAsap = 4
  MaxDeferred = 0
  Delays = {}
  MaxLag = 0
  App = app
  Client = iface
  Coms = coms
  Caller = caller
  Capacity = 3
  RingSize = 3
  MessageSizes = {1, 3}
  MaxBacklog = 0
  ByteErrors = TRUE
  StrayEvents = {"BREAK"}
  GarbageIsNull = {TRUE, FALSE}
  GarbageBool = {TRUE, FALSE}
SPECIFICATION FairTstatSpec
INVARIANTS TstatTypeOK CompletedOnce OneThread ResumedWithModel WholeMessage
PROPERTIES PullEnds

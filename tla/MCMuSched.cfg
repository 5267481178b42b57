\* Two tasks, three deferred entries: entries ahead of, behind and level with
\* one another, overdue ones, removal of several, every queue at its limit, and
\* a clock that wraps.
CONSTANTS
  HalfRange = 3
  Tasks = {a, b}
  IsrTasks = {a}
  NoTask = NoTask
  MaxIrq = 1
  MaxAsap = 1
  MaxDeferred = 3
  Delays <- MCDelays
  MaxLag = 1
SPECIFICATION FairSpec
INVARIANTS TypeOK DeferredSorted
PROPERTIES RunsEarliestDue ImplementsCalendar QueuesServed

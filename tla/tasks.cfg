SPECIFICATION FairSpec
CONSTANTS
  Tasks = {a, b, c}
  Recurring = {r}
  Threads = {t1, t2}
  Interval <- ShortInterval
  task_head = task_head
  Null = Null
  Free = Free
CHECK_DEADLOCK FALSE
INVARIANTS TypeOK OnePlace TailHeals
PROPERTIES EveryTaskRuns WaitsEnd

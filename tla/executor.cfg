SPECIFICATION FairSpec
CONSTANTS
  Handlers = {h1, h2}
  Threads = {t1, t2}
  Producers = {p1, p2}
  NoHandler = NoHandler
  NoCommand = NoCommand
  MaxCommands = 2
INVARIANTS TypeOK ExclusiveExecution NoForgottenCommand NoMissedWakeup
PROPERTIES SerialExecution EveryCommandTaken ShutdownCompletes

SPECIFICATION PersistentSpec
CONSTANTS
  u1 = u1 u2 = u2
  Query = {u1, u2}
  Subject <- MCSubject
  MaxInterrupts = 2
  MaxBusFailures = 2
INVARIANTS
  DaemonTypeOK
  AnswerFitsSubject
  ReturnsOnlyInterrupted
PROPERTIES
  EveryQueryConcluded
  InterruptEnds

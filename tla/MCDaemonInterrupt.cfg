SPECIFICATION FairDaemonSpec
CONSTANTS
  u1 = u1 u2 = u2
  Query = {u1, u2}
  Subject <- MCSubject
  MaxInterrupts = 1
  MaxBusFailures = 0
PROPERTY
  InterruptEnds

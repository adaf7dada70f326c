SPECIFICATION Spec
CONSTANTS
  t1 = t1  t2 = t2  t3 = t3  billing = billing  other = other
  Threads = {t1, t2, t3}
  Names = {billing, other}
  NoThread = NoThread
  MaxOrphans = 2
INVARIANTS OneQueuePerName ConnectedToItsQueue
PROPERTY QueuesStay

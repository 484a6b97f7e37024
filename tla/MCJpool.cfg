SPECIFICATION FairSpec
CONSTANTS
  num = 3
  MaxWorks = 4
INVARIANTS
  TypeOK
  CountersExact
  QueueLinked
  WorksOwned
  PoolOutlivesWorkers
PROPERTIES
  NoLostWakeup
  IdleWaiterReturns
  DestroyReturns
  ImplementsWorkQueue

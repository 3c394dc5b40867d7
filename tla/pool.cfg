\* Pools of up to three threads.
CONSTANTS
  MaxThreads = 3
SPECIFICATION Spec
INVARIANTS TypeOK LoopsAreReady FairShare
PROPERTIES PoolStarts

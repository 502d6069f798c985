SPECIFICATION FairSpec
CONSTANTS
  Forwards = {f1, f2}
  Pages = {f1}
  Stoppers = {s1}
INVARIANT NoOrphanTunnel
PROPERTIES RemovedStaysRemoved StartReturns RemovedPortFreed

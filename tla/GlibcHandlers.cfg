\* Two threads, two interpreters and three registrations; no symmetry, since
\* the run checks liveness.
CONSTANTS
  None = None
  Threads = {t1, t2}
  Owners = {o1, o2}
  LateRegistration = TRUE
  MaxRegs = 3
SPECIFICATION FairSpec
INVARIANTS HandlersExact AtMostOnce NoLockCycle
PROPERTY CallsComplete

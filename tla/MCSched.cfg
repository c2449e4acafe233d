CONSTANTS
  MaxT = 3
  Kmain = kmain
  KThreads = {k1}
  Procs = {p1, p2}
  None = none
  Clean = clean
  Blank = blank
SPECIFICATION FairSpec
INVARIANTS
  TypeOK
  SavedContexts
  SyscallContext
  FpuPreserved
  PanelNotLeaked
PROPERTIES
  NoResurrection
  EverySlotRuns
CHECK_DEADLOCK FALSE

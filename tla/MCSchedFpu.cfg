CONSTANTS
  MaxT = 3
  Kmain = kmain
  KThreads = {k1}
  Procs = {p1, p2}
  None = none
  Clean = clean
  Blank = blank
SPECIFICATION Spec
INVARIANT FpuNeverLeaks
CHECK_DEADLOCK FALSE

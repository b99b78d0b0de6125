SPECIFICATION ImageSpec
CONSTANTS
  nb_pages = 1
  EE_NB_MAX_ELT = 4
  Addr = {0, 1, 2}
  Data = {4, 5}
  WordSize = 4
  MaxCrashes = 0
  CutErase = FALSE
  MayErase = FALSE
  RefusedOps = {}
  Blank = Blank
  Corrupt = Corrupt
  None = None
INVARIANTS
  FailureMeansNotKept

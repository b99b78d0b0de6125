SPECIFICATION SeenSpec
CONSTANTS
  nb_pages = 1
  EE_NB_MAX_ELT = 2
  Addr = {0, 3}
  Data = {1, 2}
  MaxCrashes = 1
  CutErase = FALSE
  MayErase = TRUE
  RefusedOps = {}
  Blank = Blank
  Corrupt = Corrupt
  None = None
PROPERTIES
  PowerLossIsRecovered

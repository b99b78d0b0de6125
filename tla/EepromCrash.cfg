SPECIFICATION SeenSpec
CONSTANTS
  nb_pages = 2
  EE_NB_MAX_ELT = 2
  Addr = {0, 3}
  Data = {1, 2}
  MaxCrashes = 2
  CutErase = TRUE
  MayErase = TRUE
  RefusedOps = {}
  Blank = Blank
  Corrupt = Corrupt
  None = None
INVARIANTS
  ReadingIsSound
  TransferHasRoom
  PlaceAgreesWithFlash
PROPERTIES
  KeepsItsPromise

SPECIFICATION Spec
CONSTANTS
  p = p
  q = q
  Blank = Blank
  None = None
  Absent = Absent
  Torn = Torn
  NoPack = NoPack
  RateMin = 0
  RateMax = 9
  MaxCalls = 6
  Procs <- MCProcs
  Versions <- MCVersions
  Contents <- MCContents
  Windows <- MCWindows
  Calendar <- MCCalendar
  Catalog <- MCCatalog
  SourceOf <- MCSourceOf
  Documents <- MCDocuments
INVARIANTS
  PackIsTraceable
  CopiesAreThePack
  ManifestComesLast
SYMMETRY MCSymmetry
CHECK_DEADLOCK FALSE

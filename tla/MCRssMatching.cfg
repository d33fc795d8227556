CONSTANTS
  i1 = i1
  s1 = s1
  s2 = s2
  Items = {i1}
  Shown = {"unknown"}
  Rules = {1, 2, 3}
  Downloaders = {"qa", "qb"}
  DownloaderOf <- MCDownloaderOf
  FiltersOf <- MCFiltersOf
  EarlyRules = {{1, 2, 3}, {2}}
  Scanners = {s1, s2}
  Quota = 1
  MaxEdits = 2
  NoItem = NoItem
  NoRule = 0
SPECIFICATION Spec
SYMMETRY Symmetry
INVARIANTS
  TypeOK
  NothingOverlooked
PROPERTIES
  PauseIsSilent
  PriorityKept
CHECK_DEADLOCK FALSE

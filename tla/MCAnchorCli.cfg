SPECIFICATION CliSpec
CONSTANTS
  a1 = a1
  a2 = a2
  bad = bad
  off = off
  on = on
  Workers = {w1, w2}
  Tags = {t1}
  AnchorIds = {a1, a2}
  Places <- MCPlaces
  Telemetries = {off, on}
  Databases = {d1}
  Documents <- MCDocuments
  Edits <- MCEdits
  CoordMax = 1
  MaxEntries = 2
  MaxRev = 4
  NoOne = NoOne
SYMMETRY Threads
INVARIANTS RevisionsWhole AnswersHold SessionTables EtagSound ToldIsTrue

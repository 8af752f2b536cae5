SPECIFICATION FairSpec
CONSTANTS
  s1 = s1
  s2 = s2
  s3 = s3
  Servers = {s1, s2, s3}
  Nobody = Nobody
  Known <- MCKnown
  Statements <- MCStatements
  MaxStarts = 4
  MaxFaults = 1
INVARIANT SchemaWhole
PROPERTY OneComesUp
CHECK_DEADLOCK FALSE

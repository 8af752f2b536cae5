SPECIFICATION Spec
CONSTANTS
  Workers = {w1}
  Tags = {t1}
  AnchorIds = {a1}
  Places = {p1, p2}
  Telemetries = {off}
  Databases = {d1, d2}
  MaxRev = 3
  NoOne = NoOne
INVARIANT EtagSound

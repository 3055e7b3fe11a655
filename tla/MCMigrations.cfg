\* Two containers of a rolling update, another of an image without ts-node, a script and two
\* reverts by hand, one stop anywhere.
CONSTANTS
  Container = {c1, c2, c3}
  WithTsNode = {c1, c2}
  Migrator = {s1}
  Reverter = {r1, r2}
  MaxStops = 1
SPECIFICATION Spec
INVARIANTS
  TypeOK
  RecordedMeansApplied
  RecordedOnce
  ServingFindsItsTable
PROPERTIES
  SchemaThenServes

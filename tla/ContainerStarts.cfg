\* One container, nobody to run a script, nothing fails.
CONSTANTS
  Container = {c1}
  WithTsNode = {c1}
  Migrator = {}
  Reverter = {}
  MaxStops = 0
SPECIFICATION Spec
PROPERTIES
  ContainerStarts

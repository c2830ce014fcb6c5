\* A directory reused between the analysis and the report.
CONSTANTS
  None = None
  p1 = p1
  p2 = p2
  P999MinSamples = 4
  Paths = {p1, p2}
  MaxCommands = 2
  MaxReuses = 1
  Worlds <- MCWorlds
  Replacements <- MCReplacements
  Commands <- MCCommands
SPECIFICATION Spec
INVARIANT EmbedsPooledManifests
CHECK_DEADLOCK FALSE

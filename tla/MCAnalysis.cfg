\* Two directories, two commands, one directory reused in between.
CONSTANTS
  None = None
  p1 = p1
  p2 = p2
  P999MinSamples = 4
  Paths = {p1, p2}
  MaxCommands = 2
  MaxReuses = 1
  Worlds <- MCWorlds
  Replacements <- MCReplacements
  Commands <- MCCommands
SPECIFICATION Spec
INVARIANTS TypeOK WithheldNeverPublished ArtifactMatchesExit TablesOverRawSamples
           GoodputCountsEveryRequest NullsExplained WarmupIsPrefix OrderIndependent 
CHECK_DEADLOCK FALSE

\* Eight lists of phases, draws up to a phase and a half, time up to three
\* cycles; six-point sweeps, default and explicit plateau sizes, factor 1.5.
CONSTANTS
  None = None
  Workloads <- MCValid
  Resolution = 3
  MaxPlanned = 2
  MaxGap = 4
  MaxTime = 30
  Round <- MCRound
  Quot <- MCQuot
  Blur <- MCBlur
  Sweeps <- MCSweeps
  PlateauPoints <- MCPlateauPoints
  Factor <- MCFactor
SPECIFICATION AlgorithmsSpec
INVARIANTS PlanAsDeclared KneeIsFirstSustained KneeLeavesLowerPlateau
CHECK_DEADLOCK FALSE

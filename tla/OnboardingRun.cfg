SPECIFICATION FairSpec
CONSTANTS
  r1 = r1
  r2 = r2
  Runs = {r1, r2}
  Skips <- ShortSkips
  Pipelines <- ShortPipelines
  MaxDrafts = 1
  MaxCrashes = 1
INVARIANTS RunningRunIsExecuted
PROPERTIES RunningRunSettles

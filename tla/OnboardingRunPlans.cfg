SPECIFICATION Spec
CONSTANTS
  r1 = r1
  Runs = {r1}
  Skips <- AllSkips
  Pipelines <- AllPipelines
  MaxDrafts = 2
  MaxCrashes = 2
INVARIANTS CompletedRunIsWhole CommitFollowsChecks
PROPERTIES ConfigIsCommittedLast

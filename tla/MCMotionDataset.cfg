\* Two builds of one or three clips with up to two workers.
CONSTANTS
  Clips = {1, 2, 3}
  Inputs <- SourceSets
  MaxJobs = 2
  Builds = 2
SPECIFICATION Spec
CHECK_DEADLOCK FALSE

INVARIANTS FinishedBuildIsExact NoClipTwice TrainingReadsWholeShards ForcedPrecomputeIsCurrent

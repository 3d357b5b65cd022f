SPECIFICATION Spec
CONSTANT Ids <- MCIds
INVARIANTS InterleavedIffOutOfOrder LoopsComputeBuildPlan RollsBackLatestFirst
CHECK_DEADLOCK FALSE

\* Two policy sessions and one resume, both loops fair.
CONSTANTS
  Capacity = 1
  Sessions = 2
  Resumes = 1
SPECIFICATION FairSpec
CHECK_DEADLOCK FALSE
INVARIANTS SessionMatchesMode FollowsOwnSession LostHostIsRenewed
PROPERTIES ResumesOnFreshChunk ImplementsTeleopModes PauseReachesClient DeadInputPausesPolicy

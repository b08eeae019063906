\* Two episodes, one restart, a ring of two slots that three frames lap.
CONSTANTS
  Capacity = 1
  Slots = 2
  Frames = 3
  Episodes = 2
  Runs = 1
  DiscardOnShutdown = TRUE
SPECIFICATION FairSpec
CHECK_DEADLOCK FALSE
INVARIANTS SavedEpisodesLoad OnlySavedBetweenEpisodes DescribedFrame
PROPERTIES ImplementsEpisodeLog SilentCameraEndsEpisode

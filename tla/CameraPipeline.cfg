SPECIFICATION FairSpec
CONSTANTS
  MaxAge = 1
  FrameSkip = 2
  MaxReads = 6
  MaxTracks = 4
  Scenes <- MCScenes
INVARIANTS AnnouncedOnce StoppedClean
PROPERTIES SameFrameQuiet StillKeepsTrack FeedRecovers
CHECK_DEADLOCK FALSE

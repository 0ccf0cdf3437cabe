SPECIFICATION FairSpec
CONSTANTS
  e1 = e1
  e2 = e2
  Elements = {e1, e2}
  MaxFades = 4
  MaxFrames = 2
CHECK_DEADLOCK FALSE
INVARIANTS OneFadeAtATime OpacityKept LastFadeWins
PROPERTIES QueuesDrain

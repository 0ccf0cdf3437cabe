SPECIFICATION FairSpec
CONSTANTS
  c1 = c1
  c2 = c2
  b1 = b1
  b2 = b2
  NoBar = NoBar
  Charts = {c1, c2}
  Bars = {b1, b2}
  Steps = 2
  LazySteps = 1
  MaxInputs = 6
  MaxSize = 2
CHECK_DEADLOCK FALSE
INVARIANTS NothingUnseen TooltipOfHovered DestroyedIsSilent
PROPERTIES ComesToRest

SPECIFICATION DrawSpec
CONSTANTS
  NoStack = NoStack
  Reports <- MCReports
  Places <- MCPlaces
  Columns = 9
  Rows = 9
INVARIANTS LaidOut BarsInTheirPlace Painted PointsAtWhatIsSeen

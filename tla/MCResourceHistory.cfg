SPECIFICATION HistorySpec
CONSTANTS
  Metrics = {"cpu"}
  Window = 3
  Steps = {0, 1, 2, 4}
  MaxCollections = 3
  Looks = {0, 1}
INVARIANTS
  OneCollection
  FrameIsTruthful
PROPERTIES
  NeverScrollsBack
  RefreshNotLost
  ChartCatchesUp

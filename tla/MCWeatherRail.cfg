SPECIFICATION WeatherSpec
CONSTANTS
  Locations <- MCHome
  Origin = "0"
  Configs <- MCAutomatic
  Forecasts <- MCForecasts
  Airs = {}
  RefreshInterval = 100
  RetryAfters = {0}
  TimerLimit = 1000
  CacheStale = 0
  ShownHours = 1
  ShownDays = 1
  HourLength = 2
  DayHours = 2
  MaxNow = 5
  MaxRequests = 1
PROPERTIES
  RailKeepsUp
INVARIANTS
  StaleWhileRecovering

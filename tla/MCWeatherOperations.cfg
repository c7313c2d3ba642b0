SPECIFICATION WeatherSpec
CONSTANTS
  Locations <- MCLocations
  Origin = "0"
  Configs <- MCConfigs
  Forecasts <- MCForecast
  Airs = {1}
  RefreshInterval = 100
  RetryAfters = {0, 50, 400}
  TimerLimit = 1000
  CacheStale = 0
  ShownHours = 1
  ShownDays = 1
  HourLength = 2
  DayHours = 2
  MaxNow = 0
  MaxRequests = 2
INVARIANTS
  OneOperation
  NeverIdle
  ShowsOnePlace
PROPERTIES
  Recovers
  DataSurvives

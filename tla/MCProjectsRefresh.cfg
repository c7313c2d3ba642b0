SPECIFICATION ProjectsSpec
CONSTANTS
  PublicRepos = {1}
  PrivateRepos = {}
  Runs = {1}
  Runners = {}
  Tokens = {FALSE, TRUE}
  MaxConcurrent = 2
  AuthenticatedPoll = 1
  AnonymousPoll = 1
  Hour = 4
  Budget = 8
  Delays = {0, 2}
  MaxPages = 2
  MaxOutstanding = 0
  MaxCount = 0
  UpdatedAt <- MCUpdatedAt
INVARIANTS
  SlotsAreUsed
  OneRefresh
  FailureNeverLooksFresh
PROPERTIES
  RateLimitDelaysPolling
  KeepsRefreshing

SPECIFICATION ProjectsSafety
CONSTANTS
  PublicRepos = {1, 2}
  PrivateRepos = {}
  Runs = {1, 2}
  Runners = {}
  Tokens = {FALSE}
  MaxConcurrent = 2
  AuthenticatedPoll = 1
  AnonymousPoll = 1
  Hour = 4
  Budget = 8
  Delays = {0}
  MaxPages = 1
  MaxOutstanding = 1
  MaxCount = 0
  UpdatedAt <- MCUpdatedAt
INVARIANTS
  SelectionNamesOneProject
  DetailsFollowSelection
PROPERTIES
  SelectionStays
  MetricsStay
  ListChangesAtOnce

SPECIFICATION ProjectsSafety
CONSTANTS
  PublicRepos = {1, 2}
  PrivateRepos = {}
  Runs = {1}
  Runners = {7}
  Tokens = {TRUE}
  MaxConcurrent = 2
  AuthenticatedPoll = 1
  AnonymousPoll = 1
  Hour = 4
  Budget = 8
  Delays = {0}
  MaxPages = 1
  MaxOutstanding = 1
  MaxCount = 0
  UpdatedAt <- MCUpdatedAt
INVARIANTS
  RunnersComplete

SPECIFICATION FairSpec
CONSTANTS
  c1 = c1  c2 = c2  d1 = d1  d2 = d2
  Caller = {c1, c2}
  Endpoint = {0, 1, 2}
  Group = {0, 1}
  GroupOf <- MCGroupOf
  NoList = NoList
  NoEndpoint = NoEndpoint
  AccWidth = 4
  Starts <- MCStarts
  Unsteady = {0}
  MaxUpsets = 1
  Doc = {d1, d2}
  Hash <- MCHash
  NoDoc = NoDoc
  ShardCounts = {0, 2}
  Capacity = 1
  Methods <- MCMethods
  Contents = {{d2}, {d1, d2}}
  Written = {d1}
  MaxCalls = 2
INVARIANTS TypeOK CacheIsCurrent PickIsOfGroup ClosedAfterProducers AnswerIsExact ReplicasAgree ConnectionsKept ExitHasCause
CHECK_DEADLOCK FALSE
PROPERTIES QueriesEnd UsesHubProxy

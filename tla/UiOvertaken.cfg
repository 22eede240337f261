SPECIFICATION Spec
CONSTANTS
  Devices = {d1}
  Tasks = {t1}
  Replies = {r1}
  FeedLimit = 2
  RequesterFactor = 1
  NotListed = NotListed
  Pages = {b1}
  QueueLimit = 2
  MaxRecords = 1
  MaxSeq = 1
  MaxVisits = 1
  MaxPolls = 1
  MaxQueued = 2
  MaxOutages = 0
  MaxFetched = 0
INVARIANT BrowserEndsWithBoard

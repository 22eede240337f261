SPECIFICATION StorySpec
CONSTANTS
  Devices = {d1}
  Tasks = {t1}
  Replies = {r1}
  FeedLimit = 2
  RequesterFactor = 1
  NotListed = NotListed
  Pages = {b1}
  QueueLimit = 1
  MaxRecords = 3
  MaxSeq = 1
  MaxVisits = 2
  MaxPolls = 1
  MaxQueued = 1
  MaxOutages = 2
  MaxFetched = 1
INVARIANTS TypeOK FeedFollowsBoard BacklogWakes RowsLagOneWriter RepliesFindTheirTask
PROPERTIES PagesShowHealth LossIsShown

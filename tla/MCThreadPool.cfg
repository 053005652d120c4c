SPECIFICATION PoolAndQueueSpec
CONSTANTS
  Clients = {c1, c2}
  Workers = {w1, w2}
  Jobs = {j1, j2}
  QueueCapacity = 1
  Nobody = nobody
  NoJob = nojob
  Entries = {e1, e2}
  Empty = empty
  Limit = 5
  FirstSize = 2
INVARIANTS TokensCoverWork
PROPERTIES ImplementsService ImplementsQueue AcceptedJobsEnd WorkersEnd

SPECIFICATION PoolAndQueueSpec
CONSTANTS
  Clients = {c1, c2}
  Workers = {w1}
  Jobs = {j1, j2}
  QueueCapacity = 0
  Nobody = nobody
  NoJob = nojob
  Entries = {e1, e2}
  Empty = empty
  Limit = 5
  FirstSize = 2
PROPERTIES StopCancelsQueued

SPECIFICATION Spec
CONSTANTS
  root = root f = f g = g h = h w1 = w1 w2 = w2
  Worker <- MCWorker
  Folder <- MCFolder
  Root = root
  Children <- MCChildren
  Shard <- MCShard
  Nothing = Nothing
  Rescues = 3
  Deadline = FALSE
  MaxLapses = 1 MaxErrors = 1 MaxCrashes = 0
INVARIANTS SessionKept

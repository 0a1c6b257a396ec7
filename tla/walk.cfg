SPECIFICATION FairSpec
CONSTANTS
  root = root f = f g = g h = h w1 = w1 w2 = w2
  Worker <- MCWorker
  Folder <- MCFolder
  Root = root
  Children <- MCChildren
  Shard <- MCShard
  Nothing = Nothing
  Rescues = 1
  Deadline = TRUE
  MaxLapses = 2 MaxErrors = 2 MaxCrashes = 1
INVARIANTS TypeOK FolderInOnePlace WholeTree LapsesAreRescued
PROPERTIES WalksOneQueue CompletionKeepsSession WalkCompletes

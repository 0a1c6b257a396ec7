SPECIFICATION Spec
CONSTANTS
  a = a b = b e = e d = d root = root c1 = c1 c2 = c2 c3 = c3 x = x y = y z = z
  Path <- MCPath
  Folder <- MCFolder
  Root = root
  Home <- MCHome
  Within <- MCWithin
  Base <- MCBase
  NoName = NoName
  Content <- MCContent
  Size <- MCSize
  Oversized <- MCNone
  EditValues <- MCEdits
  Refusable <- MCItem
  Details <- MCTerse
  Absent = Absent Opaque = Opaque Unlisted = Unlisted Sizeless = Sizeless NoImage = NoImage NoSummary = NoSummary
  FloorNum = 1 FloorDen = 2
  Weekly = TRUE Deadline = TRUE MayLackDigest = FALSE MayLackSize = FALSE
  MaxEdits = 2 MaxFaults = 1 MaxRefusals = 1
SYMMETRY MCSymmetry
INVARIANTS TypeOK KilledRunRepeatsOneBatch ReconcileRepairs InOrder Held
PROPERTIES NothingRecordedUnheld NeverTrashListed

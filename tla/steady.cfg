SPECIFICATION Spec
CONSTANTS
  a = a b = b e = e d = d root = root c1 = c1 c2 = c2 c3 = c3 x = x y = y z = z
  Path <- MCTrio
  Folder <- MCFolder
  Root = root
  Home <- MCTrioHome
  Within <- MCTrioWithin
  Base <- MCTrioBase
  NoName = NoName
  Content <- MCMore
  Size <- MCMoreSize
  Oversized <- MCBig
  EditValues <- MCTrioEdits
  Refusable <- MCPath
  Details <- MCNamed
  Absent = Absent Opaque = Opaque Unlisted = Unlisted Sizeless = Sizeless NoImage = NoImage NoSummary = NoSummary
  FloorNum = 1 FloorDen = 2
  Weekly = TRUE Deadline = FALSE MayLackDigest = TRUE MayLackSize = FALSE
  MaxEdits = 2 MaxFaults = 0 MaxRefusals = 1
INVARIANTS MirrorIsProton RunHoldsListing Steady
PROPERTIES NeverTrashListed TrashAfterBatches

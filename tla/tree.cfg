SPECIFICATION FairSpec
CONSTANTS
  File <- MCFile
  Dir <- MCDir
  Up <- MCUp
  Top = top top = top
  Names <- MCNames
  Fold <- MCFold
  Content <- MCContent
  Values <- MCValues
  Folder = "folder"
  Absent = Absent
  NoUid = NoUid
  Fresh = 10
  Deadline = TRUE MayLackSize = TRUE
  MaxEdits = 1 MaxRecases = 1 MaxMeddles = 1 MaxFaults = 1
INVARIANTS TypeOK OneNodePerKey
PROPERTIES KnownFilesStay TrashesTheRecorded Settles

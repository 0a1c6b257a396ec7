SPECIFICATION Spec
CONSTANTS
  File <- MCFile
  Dir <- MCDir
  Up <- MCSide
  Top = top top = top
  Names <- MCNames
  Fold <- MCSharp
  Content <- MCContent
  Values <- MCValues
  Folder = "folder"
  Absent = Absent
  NoUid = NoUid
  Fresh = 9
  Deadline = TRUE MayLackSize = FALSE
  MaxEdits = 1 MaxRecases = 0 MaxMeddles = 0 MaxFaults = 0
PROPERTIES DropsOnlyLacking

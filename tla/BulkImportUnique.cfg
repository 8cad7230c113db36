SPECIFICATION Spec
CONSTANTS
  u1 = u1
  u2 = u2
  k1 = k1
  NoSource = NoSource
  JobIds <- TwoUploads
  Uploads <- TwoUploads
  Paths <- AllPaths
  Tables <- TwoTables
  BatchTables <- UsersOnly
  Keys <- OneKey
  Files <- SmallFiles
  MaxFiles = 2
  MaxFaults = 0
CHECK_DEADLOCK FALSE
INVARIANT UniqueUsernames

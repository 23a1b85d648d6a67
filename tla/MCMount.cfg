SPECIFICATION Spec
CONSTANTS
  file1 = file1
  file2 = file2
  Names = {file1, file2}
  Clients <- MCClients
  Root = Root
  EarlyHash = {file2}
  Threshold = 1
  SyncSizeLimit = 0
  SyncTimeLimit = 5
  FdLimit = 2
  Bytes = {1}
  MaxSize = 2
  MaxOps <- MCMaxOps
  MaxMounts = 2
  MaxDirHandles = 1
INVARIANTS ReadsBack CrashKeepsClosed

SPECIFICATION Spec
CONSTANTS
  Monitor = Monitor
  Caller = Caller
  Nobody = Nobody
  DirPaths <- MCDirPaths
  FilePaths <- MCFilePaths
  RenamedTo <- MCRenamedTo
  create_numpaths = 3
  query_number = 3
  FLAGS_num = 2
  FLAGS_reads = 2
  BatchSize = 2
  Jobs <- MCJobs
INVARIANT NoUseAfterReturn
INVARIANT SamplesApart
INVARIANT RunsTogether
PROPERTY Returns

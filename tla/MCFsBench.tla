------------------------------- MODULE MCFsBench -------------------------------
(***************************************************************************)
(* Two directories, one in the other, with a file in each, and one file    *)
(* number more than the trace has; two keys.  Three threads that list a    *)
(* directory each exercise the barrier; two threads run the lists of       *)
(* benchmarks.                                                             *)
(***************************************************************************)
EXTENDS FsBench

MCDirPaths == <<<<10>>, <<10, 11>>>>
MCFilePaths == <<<<10, 12>>, <<10, 11, 13>>>>
MCRenamedTo(x) == x + 50

FsJob(threads, list, wakeups) == [program |-> "fsbench", threads |-> threads, benchmarks |-> list, spurious |-> wakeups]
DbJob(threads, list) == [program |-> "db_bench", threads |-> threads, benchmarks |-> list, spurious |-> FALSE]

MCJobs ==
  {FsJob(3, <<"lsstatquery">>, FALSE), FsJob(3, <<"lsstatquery">>, TRUE),
   FsJob(2, <<"metadatacreate", "scanquery", "deletequery", "onedircreate", "onedirquery">>, FALSE),
   FsJob(2, <<"smallfilecreate", "smallfilequery", "metadataquery">>, FALSE),
   FsJob(2, <<"metadatacreatecompact", "scanfilequery", "renamequery", "deletequery">>, FALSE),
   DbJob(2, <<"fillseq", "readseq", "readrandom", "readwhilewriting", "deleteseq">>),
   DbJob(2, <<"fillrandom", "readhot", "overwrite", "fillbatch", "deleterandom", "compact">>)}
================================================================================

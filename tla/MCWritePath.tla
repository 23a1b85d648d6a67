---------------------------- MODULE MCWritePath ----------------------------
EXTENDS WritePath, CodingLaws

\* Three batches of one entry that end in, at and across the ends of blocks,
\* pages and regions, with a crash
LogClient == [batches |-> <<<<1>>, <<2>>, <<3>>>>, sizes |-> {1, 4, 7}, syncs |-> BOOLEAN,
              heights |-> {1}, reads |-> 0, targets |-> {1}, faults |-> 0, crash |-> TRUE]
\* The same with an append or a sync that fails
FaultClient == [LogClient EXCEPT !.sizes = {3, 7}, !.faults = 1]
\* Batches of two entries, inserted around each other, beside a reader
ReadClient(keys) == [batches |-> keys, sizes |-> {1}, syncs |-> {FALSE}, heights |-> {1, 2},
                     reads |-> 2, targets |-> {2, 3}, faults |-> 0, crash |-> FALSE]

MCClients == {LogClient, FaultClient, ReadClient(<<<<2, 4>>, <<3>>>>), ReadClient(<<<<3>>, <<2, 1>>>>)}
=============================================================================

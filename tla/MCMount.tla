-------------------------------- MODULE MCMount --------------------------------
\* A client of one file makes more calls than a client of two.
EXTENDS Mount

CONSTANTS file1, file2

MCClients == {{file1}, {file1, file2}}
MCMaxOps(names) == IF names = {file1} THEN 6 ELSE 4

================================================================================

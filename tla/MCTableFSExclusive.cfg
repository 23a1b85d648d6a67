CONSTANTS
  Name = {"a", "b"}
  MaxIno = 2
  Attr = {1, 2}
  Fh = {f1}
  Dh = {d1}
  Failing = {"Open", "Write"}
  Clients <- ExclusiveClients
  Capacity = 4
  HandleCount = 6
  Handle <- MCHandle
  Key <- MCKey
  NoRecord = noRecord
  NoHandle = noHandle
  Exclusive = TRUE
SPECIFICATION Spec
INVARIANTS AnswersAreCurrent BlobBacked
PROPERTIES OpenCloseKeepTree ImplementsNameSpace

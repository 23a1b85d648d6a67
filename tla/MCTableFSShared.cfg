CONSTANTS
  Name = {"a", "b"}
  MaxIno = 2
  Attr = {1, 2}
  Fh = {f1, f2}
  Dh = {d1}
  Failing = {}
  Clients <- SharedClients
  Capacity = 1
  HandleCount = 5
  Handle <- MCHandle
  Key <- MCKey
  NoRecord = noRecord
  NoHandle = noHandle
  Exclusive = FALSE
SPECIFICATION Spec
INVARIANTS HandlesBalanced UnpinnedIsClean CleanIsCurrent UniqueInodes DentryFresh

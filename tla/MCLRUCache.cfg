CONSTANTS
  Key = {k1, k2, k3}
  Handle = {h1, h2, h3, h4}
  Value = {v1, v2}
  Capacity = 2
  MaxHolds = 2
SPECIFICATION Spec
INVARIANTS RefCounts TableIsList OverCapacityUnlisted
PROPERTIES EvictsOldestFirst ImplementsContract

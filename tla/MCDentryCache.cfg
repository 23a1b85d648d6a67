CONSTANTS
  Key = {k1, k2, k3}
  Value = {v1, v2}
  NoValue = none
  Node = {n1, n2, n3, n4}
  MaxSize = 3
SYMMETRY Symmetry
SPECIFICATION Spec
INVARIANTS NoDanglingIterator OnlyForgets
PROPERTIES ImplementsLossyMap

SPECIFICATION Spec
CHECK_DEADLOCK FALSE
CONSTANTS
  MaxLetter = 3
  kMaxSequenceNumber = 99
  RestartInterval = 2
  BlockSize = 11
  FilterBase = 8
  BloomHash <- MCHash
  HashMax = 64
  HashTurn = 8
  BitsPerKey = 3
  MinBits = 4
  ByteBits = 2
  NoIterator = NoIterator
  UserKeys <- MCKeys
  Layouts <- MCLayouts
  MaxSeq = 5

PROPERTY NextMovesOn

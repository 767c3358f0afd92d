SPECIFICATION Spec
CONSTANTS
  Byte <- Bits
  Xor <- BitXor
  KEY_LENGTH = 2
  Key <- SomeKey
  IV <- SomeIV
  Eof = 1
  BufferLen = 2
  MaxBlocks = 3
INVARIANTS TypeOK PrefixOnly RoundTrip
CHECK_DEADLOCK FALSE

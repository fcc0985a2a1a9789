\* The comment on what Decrypt returns.
CONSTANTS
  BlockSize <- MCBlockSize
  Text <- MCText
  Garbage <- MCGarbage
SPECIFICATION Spec
CHECK_DEADLOCK FALSE
INVARIANT DecryptReturnsPlain

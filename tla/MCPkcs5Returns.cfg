\* Encrypt returns; the system runs on as long as it can.
CONSTANTS
  BlockSize <- MCBlockSize
  Text <- MCText
  Garbage <- MCGarbage
SPECIFICATION FairSpec
CHECK_DEADLOCK FALSE
PROPERTY EncryptReturns

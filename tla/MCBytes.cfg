\* What encrypt.c and utils.c get right, over all lengths; each text is done in
\* the end.
CONSTANTS
  BlockSize <- MCBlockSize
  Text <- MCText
  Garbage <- MCGarbage
  FieldLists <- MCFieldLists
  MaxBurst <- MCMaxBurst
  MaxDamaged <- MCMaxDamaged
SPECIFICATION Spec
CHECK_DEADLOCK FALSE
INVARIANTS
  CipherReadable
  EncodedFits
  WireForm
  Detected
  Residue

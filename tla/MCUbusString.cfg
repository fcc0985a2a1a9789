\* The static buffer over every sequence of short, long and missing strings.
CONSTANTS
  Size0 <- MCSize0
  CharMod <- MCCharMod
  Length <- MCLength
SPECIFICATION StringSpec
INVARIANTS
  InBounds
  ShortIsExact
  NothingStale

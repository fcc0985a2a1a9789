\* All sequences of calls on two lists.
CONSTANTS
  h1 = h1
  h2 = h2
  e1 = e1
  e2 = e2
  e3 = e3
  Heads <- MCHead
  Entries <- MCEntry
SPECIFICATION Spec
SYMMETRY MCSymmetry
INVARIANTS
  Represents
  Observed

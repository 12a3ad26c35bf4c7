SPECIFICATION Spec
CONSTANTS
  Size = 2
  Last = 4
INVARIANTS
  SomethingThere

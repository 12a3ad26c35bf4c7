SPECIFICATION DiningSpec
CONSTANTS
  PROFESSORS = 5
  Meals = 1
INVARIANTS
  NeighboursApart

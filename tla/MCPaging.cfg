SPECIFICATION Spec
CONSTANTS
  no_pages = 3
  page_size = 4
  Adresses = {0, 3, 4, 8, 12}
  MaxLength = 6
INVARIANTS
  TypeOK
  HoldsMostRecent
  NotesRight
  OptimalIsBest
PROPERTIES
  FirstInFirstOut

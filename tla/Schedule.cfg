SPECIFICATION Spec
CONSTANTS
  Lists <- MCLists
  Starts <- MCStarts
  Asks <- MCAsks
  MaxAsks = 1
  Checks = {0, 5, 120}
  MaxLate = 1
INVARIANTS
  TypeOK
  NeverPastWindow
  NothingMissed
PROPERTIES
  NotShownLate
  ItemsShown

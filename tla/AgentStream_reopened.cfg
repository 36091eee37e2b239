CONSTANTS
  Families <- MCFamilies
  Narrow = "narrow"
  MaxLines = 4
  Texts <- MCReopening
  Widths = {"narrow", "broad"}
  Budgets = {1, 3}
  Resizes <- MCResizes
  MaxQueue = 2
SPECIFICATION Spec
INVARIANT NothingBreaks
CHECK_DEADLOCK FALSE

CONSTANTS
  Families <- MCFamilies
  Narrow = "narrow"
  MaxLines = 4
  Texts <- MCTexts
  Widths = {"narrow", "broad"}
  Budgets = {1, 3}
  Resizes <- MCResizes
  MaxQueue = 2
SPECIFICATION Spec
INVARIANTS StreamedIsOneShot SliceIsItsEmission
CHECK_DEADLOCK FALSE

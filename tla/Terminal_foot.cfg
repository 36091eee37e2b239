SPECIFICATION Spec
CONSTANTS
  WordChars = {"a", "w"}
  Marks = {"m"}
  WideChars = {"w"}
  Tab <- Spaces
  Gutter = 2
  MaxUndoUnits = 2
  MaxUndoSize = 4
  ComposerMaxRows = 3
  ApprovalMaxRows = 2
  ShellRows <- Before
  Columns <- Cols
  Heights = {3, 5, 6}
  AskRows = 2
  Scenes <- AllScenes
INVARIANTS
  ScreenIsSound
PROPERTIES
  ImplementsTextField BandHolds
CHECK_DEADLOCK FALSE

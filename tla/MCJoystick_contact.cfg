CONSTANTS
  Touches <- SomeTouches
  MaxChanges = 1
SPECIFICATION Spec
INVARIANTS
  ContactShowsLeds

CONSTANTS
  Value = {a, b}
  MaxLen = 3
  MaxCount = 2
SPECIFICATION AccessSpec
INVARIANT PositionSurvives

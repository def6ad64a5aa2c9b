CONSTANTS
  Value = {a, b}
  MaxLen = 3
  MaxCount = 2
SPECIFICATION AccessSpec
PROPERTIES ReadsThere WritesThere SizeIsLength

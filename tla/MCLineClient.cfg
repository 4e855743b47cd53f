SPECIFICATION FairSpec
CONSTANTS
  Blanks <- MCBlanks
  Lower <- MCLower
  Lines <- MCLines
  Values <- MCValues
  NoLine = NoLine
INVARIANTS ResponsesPaired QuitTogether KeysCanBeNamed
PROPERTIES RequestsReturn
CHECK_DEADLOCK FALSE

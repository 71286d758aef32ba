\* What the wrapper says of an install that cannot be resolved.
SPECIFICATION UnitSpec
CONSTANTS
  Callers <- MCCallers
  StartTimeout = 3
  RunTimeout = 1
  Slack = 1
  MaxEdits = 2
  NoFile = NoFile
INVARIANT FallsBack

\* As MCServed, with the default bound.
SPECIFICATION FairTickSpec
CONSTANTS
  i1 = i1
  i2 = i2
  a1 = a1
  a2 = a2
  a3 = a3
  b1 = b1
  b2 = b2
  Issues = {i1, i2}
  Runs = {a1, a2, b1}
  NoRun = NoRun
  IssueOf <- MCIssueOf
  Ticks = {t1}
  Timer = t1
  Rank <- MCRank
  Page = 2
  Bound = 1
  Mapped = {"In Progress", "In Review", "Blocked"}
  MaxFaults = 0
  MaxEdits = 2
PROPERTY EveryoneServed

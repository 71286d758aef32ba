\* Two ticks that overlap on one issue.
SPECIFICATION TickSpec
CONSTANTS
  i1 = i1
  i2 = i2
  a1 = a1
  a2 = a2
  a3 = a3
  b1 = b1
  b2 = b2
  Issues = {i1}
  Runs = {a1, a2, a3}
  NoRun = NoRun
  IssueOf <- MCIssueOf
  Ticks = {t1, t2}
  Timer = t1
  Rank <- MCRank
  Page = 1
  Bound = 1
  Mapped = {"In Progress", "In Review"}
  MaxFaults = 2
  MaxEdits = 1
INVARIANTS
  TickTypeOK
  OneRuntimeCard

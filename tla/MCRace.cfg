\* Two runs of one issue: conflicts, zombies, recovery by the other one.
CONSTANTS
  r1 = r1  r2 = r2  i1 = i1
  NoRun = NoRun
  Runs <- MCTwoRuns
  Issues = {i1}
  IssueOf <- MCTwoIssueOf
  TTL = 3
  HB = 1
  Gated = {r1, r2}
  Outcomes <- MCFewOutcomes
  MaxFaults = 2
SPECIFICATION MCSpec
INVARIANTS CompletedIsEarned AnswersAreTrue BeatingHoldsLock ParkedIsShown
VIEW MCView
SYMMETRY MCSymmetry

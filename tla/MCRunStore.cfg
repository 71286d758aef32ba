\* Two runs compete for an issue, a third works on another one.
CONSTANTS
  r1 = r1  r2 = r2  r3 = r3  i1 = i1  i2 = i2
  NoRun = NoRun
  Runs <- MCRuns
  Issues <- MCIssues
  IssueOf <- MCIssueOf
  TTL = 2
  MaxExtras = 1
SPECIFICATION MCSpec
INVARIANTS StoreTypeOK LockIffRunning TrailMatchesRow HoldersOK
PROPERTIES RowsAreFinal ImplementsLease

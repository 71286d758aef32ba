\* What the README says of a failed heartbeat.
CONSTANTS
  r1 = r1  r2 = r2  i1 = i1
  NoRun = NoRun
  Runs <- MCOneRun
  Issues = {i1}
  IssueOf <- MCOneIssueOf
  TTL = 3
  HB = 1
  Gated = {r1}
  Outcomes <- MCOutcomes
  MaxFaults = 6
SPECIFICATION MCSpec
INVARIANTS HeartbeatFailureFails

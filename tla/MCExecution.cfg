\* One run and its dispatch: any card at each of two reads, calls that get lost.
CONSTANTS
  r1 = r1  i1 = i1
  NoRun = NoRun
  NoValue = NoValue
  Runs = {r1}
  Issues = {i1}
  IssueOf <- MCIssueOf
  Caller = r1
  TTL = 3
  HB = 1
  Gated = {r1}
  Timeout = 1
  Metadata <- MCMetadata
  Contexts <- MCContexts
  Assignees <- MCAssignees
  Outcomes <- AdapterOutcomes
  MaxFaults = 3
SPECIFICATION MCFairSpec
INVARIANTS TypeOK StoredInOrder CompletedTrailIsWhole TrailIsWholeOrAbsent GatesAreOnRecord AuditMeetsContract
PROPERTIES ImplementsRuntime OrphanLockExpires CallsEnd

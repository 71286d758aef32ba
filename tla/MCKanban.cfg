\* One dispatch, any card at every read.
CONSTANTS
  NoValue = NoValue
  Timeout = 3
  Metadata <- MCMetadata
  Contexts <- MCContexts
  Assignees <- MCAssignees
SPECIFICATION FairAdapterSpec
INVARIANTS AdapterTypeOK ReportsFollowCard ContractAgrees TrailEndsAsCall CompletionIsTraced
PROPERTIES DispatchEnds

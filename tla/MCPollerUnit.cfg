\* Activations of the unit and of shells, on a host that changes twice.
SPECIFICATION FairUnitSpec
CONSTANTS
  Callers <- MCCallers
  StartTimeout = 3
  RunTimeout = 1
  Slack = 1
  MaxEdits = 2
  NoFile = NoFile
INVARIANTS UnitTypeOK PassIsEntitled ChecksSuffice CanaryForetells ProbeForetells TimeoutsNest
PROPERTY ActivationEnds

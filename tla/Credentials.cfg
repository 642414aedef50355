SPECIFICATION Spec
CONSTANTS
  MaxTime = 5
  MaxIssues = 2
  Validity = 3
  ListMaxAge = 1
  FetchTime = 1
  MaxEvents = 2
  Subjects = {"aliases", "unmappable"}
  MaxStreams = 2
  SignalMaxAge = 1
  PollTime = 0
  Retain = 3
  Life <- Lives
  OpkMaxAge = 2
  Configs <- ListOrSignals
INVARIANT ListRevocationBites
INVARIANT NeverBackwards
INVARIANT AcknowledgedIsKept
INVARIANT SignalRevocationBites
INVARIANT RefusedStaysRefused

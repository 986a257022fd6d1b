SPECIFICATION FairSpec
CONSTANTS
  e1 = e1  e2 = e2  b1 = b1  b2 = b2  i1 = i1  i2 = i2
  Events = {e1, e2}
  GlobalEvents = {e2}
  NoEvent = NoEvent
  Batches = {b1, b2}
  Instances = {i1, i2}
  HostOf <- TwoHosts
  Stamps = {0}
  BatchSize = 1
  MaxAttempts = 2
  SchemaCurrent = TRUE
  MaxFaults = 1
  MaxResets = 1
INVARIANTS TypeOK ProcessedWasReceived GivenUpAfterMaxAttempts ForwardedWasAccepted
PROPERTIES EventuallySettled
CHECK_DEADLOCK FALSE

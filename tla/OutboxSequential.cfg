SPECIFICATION FairSpec
CONSTANTS
  e1 = e1  e2 = e2  b1 = b1  b2 = b2  i1 = i1  i2 = i2
  Events = {e1, e2}
  GlobalEvents = {}
  NoEvent = NoEvent
  Batches = {b1}
  Instances = {i1}
  HostOf <- SingleSlot
  Stamps = {0, 1}
  BatchSize = 1
  MaxAttempts = 2
  SchemaCurrent = TRUE
  MaxFaults = 1
  MaxResets = 1
INVARIANTS SnapshotIsCurrent
PROPERTIES ForwarderSpec EventuallySettled
CHECK_DEADLOCK FALSE

SPECIFICATION Spec
CONSTANTS
  e1 = e1  e2 = e2  b1 = b1  b2 = b2  i1 = i1  i2 = i2
  Events = {e1}
  GlobalEvents = {}
  NoEvent = NoEvent
  Batches = {b1, b2}
  Instances = {i1}
  HostOf <- OneEventOneHost
  Stamps = {0}
  BatchSize = 1
  MaxAttempts = 2
  SchemaCurrent = TRUE
  MaxFaults = 0
  MaxResets = 0
PROPERTIES StatusTransitions
CHECK_DEADLOCK FALSE

SPECIFICATION FairSpec
CONSTANTS
  m1 = m1  m2 = m2  t1 = t1  t2 = t2  s1 = s1  s2 = s2  i1 = i1  i2 = i2
  Types = {t1, t2}
  Messages = {m1, m2}
  TypeOf <- OneType
  NoMessage = NoMessage
  Handlers = {h1}
  Instances = {i1}
  Sweeps = {s1}
  HostOf <- OneHost
  Count = 1
  MaxLen = 2
  MaxFaults = 0
  MaxUnsubscribes = 0
PROPERTIES AtLeastOnce
CHECK_DEADLOCK FALSE

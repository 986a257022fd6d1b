SPECIFICATION Spec
CONSTANTS
  r1 = r1  r2 = r2  r3 = r3  r4 = r4  r5 = r5
  acme = acme  Acme = Acme  invalid = invalid
  Requests = {r1, r2, r3, r4, r5}
  Kind <- Calls
  Slugs = {acme, Acme, invalid}
  Normal <- Lowered
  ValidSlugs = {acme}
  Names = {n1, n2, blank}
  ValidNames = {n1, n2}
  Plans = {free}
  Unchanged = Unchanged
INVARIANTS ChangesAnnounced
CHECK_DEADLOCK FALSE

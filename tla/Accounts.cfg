SPECIFICATION AccountsSpec
CONSTANTS
  r1 = r1  r2 = r2  r3 = r3  r4 = r4  r5 = r5  r6 = r6  r7 = r7
  acme = acme  Acme = Acme  beta = beta  invalid = invalid
  admin = admin  Admin = Admin  other = other  noAddress = noAddress
  Requests = {r1, r2, r3, r4, r5, r6, r7}
  Kind <- Calls
  Slugs = {acme, Acme, beta, invalid}
  Normal <- Lowered
  ValidSlugs = {acme, beta}
  Names = {n1}
  ValidNames = {n1}
  Plans = {free}
  Unchanged = Unchanged
  Emails = {admin, Admin, other, noAddress}
  NormalEmail <- LoweredEmail
  ValidEmails = {admin, other}
  AdminEmails = {Admin, other, noAddress}
  AdminSlugs = {acme, invalid}
  NoUser = NoUser
INVARIANTS AccountsTypeOK SlugsUnique EmailsUnique TokenBound BootstrapOutcome OwnerFirst
PROPERTIES SuspensionSticks
SYMMETRY Interchangeable
CHECK_DEADLOCK FALSE

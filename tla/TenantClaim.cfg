SPECIFICATION Spec
CONSTANTS
  r1 = r1  r2 = r2  r3 = r3  r4 = r4  r5 = r5  r6 = r6  r7 = r7
  d1 = d1  d2 = d2  d3 = d3  t1 = t1  t2 = t2
  Tenants = {t1, t2}
  NoTenant = NoTenant
  Tokens <- Callers
  Requests = {r1, r2}
  Kind <- TriggerAndRead
  Definitions = {d1, d2, d3}
  DefinitionTenant <- TenantOf
  IsActive <- Active
  Null = Null
  Undefined = Undefined
INVARIANTS OwnTenantOnly
CHECK_DEADLOCK FALSE

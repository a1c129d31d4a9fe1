SPECIFICATION FairSpec
CONSTANTS
  c1 = c1
  c2 = c2
  r1 = r1
  j1 = j1
  j2 = j2
  h1 = h1
  h2 = h2
  may = may
  acme = acme
  own = own
  pro = pro
  team = team
  free = free
  none = none
  None = none
  Callers = {c1, c2}
  Months = {may}
  MaxAttempts = 2
  Requests = {r1}
  MaxMeterAttempts = 2
  Events <- MCEvents
  Tenants = {acme, own}
  Default = own
  Free = free
  Handlers = {h1, h2}
  MaxDeliveries = 2
  Ticks = {j1, j2}
  Workloads <- MCWorkloads
  MaxFaults = 2
INVARIANTS
  UsageInvoiced
  OneReplicaActs
  PaymentsApplyOnce
PROPERTIES
  WebhooksAtLeastOnce
  DeliveriesEnd
CHECK_DEADLOCK FALSE

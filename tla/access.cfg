SPECIFICATION GatewaySpec
CONSTANTS
  k1 = k1
  k2 = k2
  k3 = k3
  a = a
  b = b
  q1 = q1
  q2 = q2
  root = root
  admin = admin
  clerk = clerk
  acme = acme
  own = own
  user = user
  guest = guest
  web = web
  app = app
  team = team
  lab = lab
  hub = hub
  None = None
  Keys = {k1, k2, k3}
  MaxSecrets = 4
  Replicas = {a, b}
  TTL = 2
  NegativeTTL = 1
  Latency = 1
  MaxEntries = 1
  Tenants = {acme}
  Own = own
  Parties = {root, admin, clerk}
  Roles <- MCRoles
  Bound <- MCBound
  Users = {user, guest}
  Projects = {web, app}
  DefaultProject = web
  Nodes = {team, lab, hub}
  NodeTenant <- MCNodeTenant
  MaxRecords = 2
  Slots = {q1, q2}
  Workloads <- MCWorkloads
PROPERTIES
  OperatorsStayHome
  DeadSecretsFade
CHECK_DEADLOCK FALSE

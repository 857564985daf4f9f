SPECIFICATION ServicesSpec
CONSTANTS
  s1 = s1
  s2 = s2
  l1 = l1
  l2 = l2
  k1 = k1
  k2 = k2
  b1 = b1
  o1 = o1
  o2 = o2
  f1 = f1
  f2 = f2
  f3 = f3
  g1 = g1
  x1 = x1
  x2 = x2
  u1 = u1
  u2 = u2
  v1 = v1
  v2 = v2
  out = out
  err = err
  exe = exe
  c1 = c1
  c2 = c2
  c3 = c3
  c4 = c4
  reg = reg
  onnxA = onnxA
  onnxB = onnxB
  onnxC = onnxC
  m1 = m1
  m2 = m2
  q1 = q1
  q2 = q2
  Servers = {s1, s2}
  Logins = {l1, l2}
  Home <- MCHome
  Clients = {host}
  Tokens = {k1, k2}
  Bearers = {b1}
  Operators = {o1, o2}
  MaxFailures = 2
  Workloads <- MCWorkloads
  NoToken = NoToken
  Groups <- MCGroups
  Requests = {f1, f2, f3, g1, x1, x2}
  Kind <- MCKind
  Version <- MCVersion
  Path <- MCPath
  Pid <- MCPid
  Uploads = {u1, u2}
  Target <- MCTarget
  Versions = {v1, v2}
  MaxRetries = 1
  MaxInodes = 4
  MaxCrashes = 1
  NoVersion = NoVersion
  Stores = {"file", "memory"}
  Pumps = {out, err}
  Executor = exe
  Emits <- MCEmits
  PageLimit = 2
  NoThread = NoThread
  Creators = {c1, c2, c3, c4}
  Recipe <- MCRecipe
  Checks = {reg}
  Asks <- MCAsks
  Contents = {onnxA, onnxB, onnxC}
  Plans <- MCPlans
  Signature <- MCSignature
  Nothing = Nothing
  NoDigest = NoDigest
  Models = {m1, m2}
  Clerks = {q1, q2}
  Window = 1
  Scopes <- MCScopes
  NoModel = NoModel
INVARIANTS
  ServicesTypeOK
  LockoutBounds
  SessionsFollowPassword
  RowIsVerified
  DownloadsSettle
  VerdictIsSound
  RolloutsAreVetted
PROPERTIES
  FollowsFeed
CHECK_DEADLOCK FALSE

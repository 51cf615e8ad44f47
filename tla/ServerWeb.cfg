SPECIFICATION MCSpec
CONSTANTS
  Tabs = {t1, t2}
  MaxUsers = 2
  MaxVersion = 1
  MaxAnswers = 2
  MethodSets <- MCMethodSets
  Timely = TRUE
  Agents = {a1, a2}
  Pages = {a1, a2}
  Secrets = {a2}
  MaxClients = 2
  MaxTokens = 2
  MaxRestarts = 2
  Unwritable = {"identity"}
  OneAtATime = TRUE
  Hooks = {w1, w2}
  Kinds = {"job"}
  MaxEvents = 3
  MaxPending = 2
  MaxEdits = 1
  Down = {w2}
  MaxRuns = 2
  MaxOutages = 1
  MaxDrops = 1
  MaxMarks = 1
  MaxTroubles = 1
  MaxPushes = 2
  Certs = {c1, c2}
  Trusted = {c1}
  NoCert = NoCert
  MaxSecrets = 2
  MaxKeys = 1
  MaxChanges = 5
  MaxRenewals = 1
  MaxLosses = 1
CHECK_DEADLOCK FALSE
INVARIANTS SessionsKept ClientsKept DeliveriesKept TabAgrees CredentialsKept
PROPERTIES RevokedStaysRevoked

SPECIFICATION Spec
CONSTANTS
  a1 = a1
  a2 = a2
  chat = chat
  mail = mail
  i1 = i1
  i2 = i2
  i3 = i3
  q1 = q1
  q2 = q2
  d1 = d1
  d2 = d2
  Rows = {i1}
  Alerts = {a1}
  Channels = {chat, mail}
  Emails = {mail}
  Critical = {}
  Targets <- MailTarget
  Flushes = {q1, q2}
  Digests = {d1, d2}
  Sweeps = {}
  Pipelines = {"pipeline"}
  Batch = 2
  DigestBatch = 2
  MaxAttempts = 2
  Quota = 1
  Closable = {mail}
  MaxCrashes = 1
  MaxRevivals = 2
  None = None
INVARIANTS
  TypeOK
  SentOnce
  DeadWasTried
  NothingForgotten
PROPERTIES
  FinalStays
CHECK_DEADLOCK FALSE

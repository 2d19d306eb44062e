SPECIFICATION FairSpec
CONSTANTS
  a1 = a1
  a2 = a2
  chat = chat
  mail = mail
  i1 = i1
  i2 = i2
  i3 = i3
  q1 = q1
  q2 = q2
  d1 = d1
  d2 = d2
  Rows = {i1, i2, i3}
  Alerts = {a1}
  Channels = {mail}
  Emails = {mail}
  Critical = {}
  Targets <- MailTarget
  Flushes = {q1}
  Digests = {d1}
  Sweeps = {"sweep"}
  Pipelines = {}
  Batch = 1
  DigestBatch = 1
  MaxAttempts = 1
  Quota = 1
  Closable = {}
  MaxCrashes = 1
  MaxRevivals = 0
  None = None
PROPERTIES
  Settles
  EscalationTries
CHECK_DEADLOCK FALSE

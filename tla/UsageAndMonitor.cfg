\* Two uploads, a provider call, a retry, an old recording, two days; or two probes, three
\* observations in a row, both settings, two crashes, refused events and lost answers.
SPECIFICATION PartsSpec
CONSTANTS
  u1 = u1
  u2 = u2
  a1 = a1
  t1 = t1
  old = old
  Uploads = {u1, u2}
  AiCalls = {a1}
  Retries = {t1}
  Existing = {old}
  Size <- UsageSize
  Seconds = {2, 3}
  DailyLimit <- UsageDailyLimit
  MaxRecordings = 2
  MaxBytes = 6
  LastDay = 2
  Codes = {1, 2}
  Modes = {"webhook", "health"}
  DependsOn <- SecondOnFirst
  Threshold = 3
  MaxCrashes = 2
INVARIANTS DailyWithinLimits LedgerIsExact CallsArePaid
PROPERTIES GrowsWithinLimits RequestsEnd ChangesAfterStreak PingMeansTold EndsAnnounced
CHECK_DEADLOCK FALSE

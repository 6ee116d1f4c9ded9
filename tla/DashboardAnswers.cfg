\* Two clients, of whom a list shows one; two conversations, one of them there at first
\* with an action item.
SPECIFICATION Spec
CONSTANTS
  k1 = k1
  k2 = k2
  c1 = c1
  c2 = c2
  t1 = t1
  Clients = {k1, k2}
  Conversations = {c1, c2}
  Tasks = {t1}
  ConversationOf <- DashboardConversationOf
  TextOf <- DashboardTextOf
  Existing = {c1}
  FirstClient = k1
  Day = 1
  FollowupAfter = 1
  ListLimit = 1
  SnoozeDays = 1
  MaxNow = 1
  MaxCommits = 1
  MaxChanges = 1
INVARIANTS ListedIsCounted SettledIsFresh RecordedIsKept
PROPERTIES QuietIsKept
CHECK_DEADLOCK FALSE

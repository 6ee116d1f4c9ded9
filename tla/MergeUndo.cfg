SPECIFICATION MergeSpec
CONSTANTS
  a1 = a1 x1 = x1 x2 = x2 x3 = x3 anna = anna bert = bert
  Keys = {anna, bert}
  Matchable = {anna, bert}
  Silent = {}
  Overlap = FALSE
  Conversations = {"c1"}
  Attempts = {a1}
  Of <- JustOne
  Mentions <- JustAnna
  Clients = {x1, x2, x3}
  Existing = {x1, x2}
  KeyOf <- X1X2
  SelectAnyTime = FALSE
  MaxSelections = 1
  MaxEdits = 1
  MaxMerges = 2
INVARIANTS LinksNameClients MergedIsWhole
PROPERTIES UndoRestores NewerWorkIsKept MergeIsAsShown
CHECK_DEADLOCK FALSE

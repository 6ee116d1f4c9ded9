\* An attempt of each of two conversations, which name the same person; the user links between attempts.
SPECIFICATION Spec
CONSTANTS
  a1 = a1 a2 = a2 a3 = a3 x1 = x1 x2 = x2 x3 = x3 x4 = x4 anna = anna bert = bert
  Keys = {anna, bert}
  Conversations = {"c1", "c2"}
  Attempts = {a1, a2}
  Of <- OneEach
  Mentions <- AnnaTwice
  Clients = {x1, x2, x3}
  Existing = {x1}
  KeyOf <- X1IsBert
  Matchable = {anna, bert}
  Silent = {}
  Overlap = FALSE
  SelectAnyTime = FALSE
  MaxSelections = 1
PROPERTIES MatchingFailureIsIsolated
CHECK_DEADLOCK FALSE

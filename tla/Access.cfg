CONSTANTS
  c = c  e = e  top = top  x = x  y = y
  Chats = {c}
  Root = top
  Files = {x}
  OwnChats = FALSE
  Needs = {"read", "change"}
  MaxChanges = 3
  MaxEdits = 3
  MaxWaiting = 1
  MaxMishaps = 1
SPECIFICATION Spec
INVARIANTS RevokedGone Agree
PROPERTIES OnlyWhatTheyAllowed TrashesOnlyRemoved SyncsBegin
CHECK_DEADLOCK FALSE

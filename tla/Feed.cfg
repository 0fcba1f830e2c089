CONSTANTS
  top = top
  a = a
  x = x
  ann = ann
  me = me
  Folders = {top, a}
  Files = {x}
  People = {ann, me}
  Me = me
  Makers = {ann}
  FirstSpace = top
  Owner = ann
  Within <- Empty
  Roles = {"none", "viewer"}
  Limit = 1
  MaxLog = 2
SPECIFICATION FeedSpec
INVARIANTS TreeSound InStep
PROPERTIES ThirtyDays
CHECK_DEADLOCK FALSE

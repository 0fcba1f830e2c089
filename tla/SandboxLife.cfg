CONSTANTS
  a = a  b = b  d = d  ann = ann  bob = bob  c1 = c1  c2 = c2  c3 = c3
  None = None  Sweeper = Sweeper
  Sandboxes = {a}
  Chats = {}
  People = {ann}
  Owner <- OneOwner
  Calls = {c1, c2}
  Kinds = {"ensure", "turn", "file", "delete", "sweep"}
  PerPerson = 1
  PerNode = 1
  PauseAfter = 1  StopAfter = 2  RemoveAfter = 2  ForgetAfter = 2
  MaxQuiet = 2
  MaxRestarts = 0
  DockerFails = FALSE
SPECIFICATION FairSpec
INVARIANTS SweepSparesUsed FreshTold KeptFilesWake
PROPERTIES RequestsEnd QuietSleeps DeletedReclaimed

CHECK_DEADLOCK FALSE

CONSTANTS
  a = a  b = b  d = d  ann = ann  c1 = c1  c2 = c2  c3 = c3
  None = None  Sweeper = Sweeper
  Sandboxes = {a, b, d}
  Chats = {}
  People = {ann, bob}
  bob = bob
  Owner <- TwoOwners
  Calls = {c1, c2}
  Kinds = {"ensure", "turn"}
  PerPerson = 1
  PerNode = 2
  PauseAfter = 1  StopAfter = 1  RemoveAfter = 0  ForgetAfter = 0
  MaxQuiet = 0
  MaxRestarts = 1
  DockerFails = TRUE
SPECIFICATION Spec
SYMMETRY SymmetricAnn
INVARIANTS AwakeCap PersonCap
PROPERTIES TakesSlots

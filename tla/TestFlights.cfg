CONSTANTS
  ann = ann  kimono = kimono  photos = photos  k1 = k1  k2 = k2
  NoKey = NoKey
  People = {ann}
  Main = kimono
  Others = {photos}
  Keys = {k1}
  MaxChanges = 4
  MaxMishaps = 1
SPECIFICATION Spec
INVARIANTS Remembers
PROPERTIES OnlyOurs InTheEnd
CHECK_DEADLOCK FALSE

SPECIFICATION Spec
CONSTANTS
  w1 = w1
  w2 = w2
  a = a
  b = b
  c1 = c1
  c2 = c2
  f1 = f1
  f2 = f2
  NoRecord = NoRecord
  NoName = NoName
  NoFrame = NoFrame
  Processes = {w1, w2}
  Names = {a, b}
  Contents = {c1, c2}
  Frames = {f1, f2}
  FrameRows = 2
  MaxTabs = 1
CONSTRAINT OneTableAtATime
SYMMETRY Symmetry
INVARIANTS
  RowsAgree
  WindowComesBack
PROPERTIES
  NewWindowHasItsSession

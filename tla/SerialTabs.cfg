SPECIFICATION Spec
CONSTANTS
  t1 = t1
  t2 = t2
  u1 = u1
  u2 = u2
  NoTerminal = NoTerminal
  NoUser = NoUser
  Terminals = {t1, t2}
  Users = {u1}
  Commanded = {u1}
  MaxFds = 3
SYMMETRY Symmetry
INVARIANTS
  TabInv
  PortIsItsOwn
PROPERTIES
  IsTabSession

SPECIFICATION Spec
CONSTANTS
  t1 = t1
  t2 = t2
  t3 = t3
  u1 = u1
  NoTerminal = NoTerminal
  NoUser = NoUser
  Terminals = {t1, t2, t3}
  Users = {u1}
  Commanded = {u1}
  FoundChoices = {TRUE, FALSE}
SYMMETRY Symmetry
INVARIANTS
  ConnectedHasShell
PROPERTIES
  ShellsStayInHand
  IsTabSession

SPECIFICATION Spec
CONSTANTS
  t1 = t1
  t2 = t2
  u1 = u1
  NoTerminal = NoTerminal
  NoUser = NoUser
  Terminals = {t1, t2}
  Users = {u1}
  Commanded = {u1}
  RememberChoices = {FALSE}
  MaxDialogs = 2
SYMMETRY Symmetry
INVARIANTS
  TabInv
  PasswordToItsPrompt
PROPERTIES
  IsTabSession

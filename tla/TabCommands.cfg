SPECIFICATION Spec
CONSTANTS
  t1 = t1
  t2 = t2
  p1 = p1
  p2 = p2
  NoTerminal = NoTerminal
  Terminals = {t1, t2}
  Passwords = {p1, p2}
  MaxDialogs = 2
SYMMETRY Symmetry
INVARIANTS
  LockedTakesNoInput
  FindKeepsToItsTab
  PasteFollowsStatus
PROPERTIES
  LockPasswordKept
  PopupSparesLocked

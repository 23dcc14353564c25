SPECIFICATION Spec
CONSTANTS
  t1 = t1
  t2 = t2
  u1 = u1
  u2 = u2
  n1 = n1
  n2 = n2
  NoTerminal = NoTerminal
  NoUser = NoUser
  NoName = NoName
  Terminals = {t1}
  Users = {u1}
  Names = {n1}
  RememberChoices = {FALSE}
  SecretChoices = {TRUE, FALSE}
  FoundChoices = {TRUE}
  AsksHostKey = TRUE
  MaxDialogs = 2
  Commanded = {}
INVARIANTS
  KillsOnlyTheConnection

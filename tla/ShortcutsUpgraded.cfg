SPECIFICATION KeysSpec
CONSTANTS
  FileActions = {"connect"}
  EditActions = {"find"}
  SessionActions = {"clone"}
  Keys = {1, 2, 3, 4}
  Default <- MCDefault
  Position <- MCPosition
  Releases = {{"connect", "clone"}, {"connect", "find", "clone"}}
  NoRow = 0
INVARIANTS
  KeysDistinct
  BoundAsStored
PROPERTIES
  EditsComeBack

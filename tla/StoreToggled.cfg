SPECIFICATION StoreSpec
CONSTANTS
  t1 = t1
  t2 = t2
  f = f
  g = g
  h = h
  NoStruct = NoStruct
  Terminals = {t1}
  MaxRecords = 2
  Hosts = {"shell"}
  Folders = {f, g, h}
  Quoted = {h}
  MaxLabel = 1
  AutoSaves = {TRUE, FALSE}
SYMMETRY Symmetry
INVARIANTS
  NamesUnique
  FoldersHoldThemselves
  SavedAsShown

SPECIFICATION Spec
CONSTANTS
  LiveOptions = {"font"}
  BellOptions = {"bell"}
  ScrollOptions = {}
  KeyOptions = {}
  BarOptions = {"toolbar"}
  DialogOptions = {}
  AutoSave = "auto_save"
  Order <- MCOrder
  Quoted <- MCQuoted
  t1 = t1
  t2 = t2
  Terminals = {t1, t2}
  Languages = {"en_US"}
  FirstLanguage = "en_US"
  NoOptions = NoOptions
SYMMETRY Symmetry
INVARIANTS
  
  ClosedDialogShowsOptions
  WindowFollowsOptions
PROPERTIES
  SavedComesBack

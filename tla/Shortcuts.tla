------------------------------ MODULE Shortcuts ------------------------------
(***************************************************************************)
(* The keyboard shortcuts (src/src/iaccels.c, src/src/caccels.c): the      *)
(* table the user edits under Global Options - Keybindings, the file it is *)
(* kept in, and the accelerator group of the window, which the File menu,  *)
(* the Edit menu and the notebook fill from the table when they are made   *)
(* and every popup of the Edit menu fills again.                           *)
(***************************************************************************)
EXTENDS Naturals

CONSTANTS FileActions,     \* actions of the File menu
          EditActions,     \* actions of the Edit menu, which pops up too
          SessionActions,  \* actions of the notebook
          Keys,            \* the keys, with their modifiers
          Default,         \* LCRT_KB_KEY
          Position,        \* the place of an action in LCRT_KB_NAME
          Releases,        \* the sets of actions earlier versions have had
          NoRow            \* the row of an action that a file does not have

Actions == FileActions \cup EditActions \cup SessionActions

\* Every action has a default key, and no two share one.
DistinctKeys(k) == \A a, b \in Actions : a # b => k[a] # k[b]

ASSUME ShortcutsAssumption ==
  /\ NoRow \notin Keys /\ Releases \subseteq SUBSET Actions
  /\ Default \in [Actions -> Keys] /\ DistinctKeys(Default)
  /\ Actions # {} /\ Position \in [Actions -> Nat]

VARIABLES
  phase,     \* what lcrt is doing
  unwritten, \* the rows that it has still to write
  key,       \* laccels->config.key
  dirty,     \* laccels->dirty
  autoSave,  \* lsettings->auto_save_config
  file,      \* the rows of the shortcuts table, NoRow where there is none
  created,   \* the table exists
  bound,     \* the pairs of a key and an action in the accelerator group
  asked,     \* history: Save Settings Now was chosen since the last edit
  left,      \* history: the keys at an exit that saves, or those at no exit
  behind     \* history: actions that the file found at first has no row of, or
             \* whose row a save that was cut short has not come to

fileVars == <<file, created>>
memoryVars == <<key, dirty, autoSave>>
keysVars == <<phase, unwritten, memoryVars, fileVars, bound, asked, left, behind>>

Phases == {"off", "creating", "up", "saving"}

Rows == [Actions -> Keys \cup {NoRow}]
NoRows == [a \in Actions |-> NoRow]

\* The file is the one an lcrt of some release has left, or there is none.
KeysInit ==
  /\ phase = "off" /\ unwritten = {} /\ dirty = FALSE /\ bound = {} /\ asked = FALSE
  /\ key = Default /\ autoSave = TRUE /\ left = NoRows
  /\ \/ created = FALSE /\ file = NoRows /\ behind = {}
     \/ /\ created = TRUE /\ \E release \in Releases : behind = Actions \ release
        /\ file \in {f \in Rows :
              /\ \A a \in Actions : f[a] = NoRow <=> a \in behind
              /\ \A a, b \in Actions \ behind : a # b => f[a] # f[b]}

-----------------------------------------------------------------------------
\* lcrt_accels_load_local_config: an action without a row keeps its default,
\* "maybe this is the new entry which i added".
Loaded(f) == [a \in Actions |-> IF f[a] = NoRow THEN Default[a] ELSE f[a]]

\* gtk_widget_add_accelerator and gtk_accel_group_connect.
Bindings(k, acts) == {<<k[a], a>> : a \in acts}

\* Mutant: the notebook is made before the table is loaded.
Start_EarlyNotebook(on) ==
  /\ phase = "off"
  /\ dirty' = FALSE /\ asked' = FALSE /\ autoSave' = on /\ created' = TRUE
  /\ \/ /\ created
        /\ phase' = "up" /\ key' = Loaded(file)
        /\ bound' = Bindings(key', Actions \ SessionActions) \cup Bindings(Default, SessionActions)
        /\ UNCHANGED unwritten
     \/ /\ ~created
        /\ phase' = "creating" /\ unwritten' = Actions
        /\ UNCHANGED <<key, bound>>
  /\ UNCHANGED <<file, left, behind>>

\* lcrt_create_accels, then the menus and the notebook.  A missing table is made
\* first: CREATE TABLE here, its rows one by one.
Start(on) ==
  /\ phase = "off"
  /\ dirty' = FALSE /\ asked' = FALSE /\ autoSave' = on /\ created' = TRUE
  /\ \/ /\ created
        /\ phase' = "up" /\ key' = Loaded(file) /\ bound' = Bindings(key', Actions)
        /\ UNCHANGED unwritten
     \/ /\ ~created
        /\ phase' = "creating" /\ unwritten' = Actions
        /\ UNCHANGED <<key, bound>>
  /\ UNCHANGED <<file, left, behind>>

\* A row of its own statement, the rows in the order of their names.
WriteRow(a, k) ==
  /\ a \in unwritten /\ \A b \in unwritten : Position[a] <= Position[b]
  /\ file' = [file EXCEPT ![a] = k]
  /\ unwritten' = unwritten \ {a}

\* lcrt_accels_create_local_config, a row of the defaults.
CreateRow(a) ==
  /\ phase = "creating"
  /\ WriteRow(a, Default[a])
  /\ IF unwritten' = {} THEN phase' = "up" /\ bound' = Bindings(key, Actions)
                        ELSE UNCHANGED <<phase, bound>>
  /\ UNCHANGED <<memoryVars, created, asked, left, behind>>

\* Mutant: only the actions of the same menu are compared.
Edit_OwnMenu(a, k) ==
  /\ phase = "up"
  /\ \A b \in Actions \ {a} :
       (b \in FileActions <=> a \in FileActions) => key[b] # k
  /\ key' = [key EXCEPT ![a] = k]
  /\ dirty' = TRUE /\ asked' = FALSE
  /\ UNCHANGED <<phase, unwritten, autoSave, fileVars, bound, left, behind>>

\* lcrt_accels_on_edited; a key that another action has is refused with a
\* message.  The table changes, the accelerator group does not.
Edit(a, k) ==
  /\ phase = "up"
  /\ \A b \in Actions \ {a} : key[b] # k
  /\ key' = [key EXCEPT ![a] = k]
  /\ dirty' = TRUE /\ asked' = FALSE
  /\ UNCHANGED <<phase, unwritten, autoSave, fileVars, bound, left, behind>>

\* lcrt_terminal_on_button_press_event on a connected terminal: another Edit
\* menu is made, with accelerators of its own.  Its widgets stay when it closes.
EditPopup ==
  /\ phase = "up"
  /\ bound' = bound \cup Bindings(key, EditActions)
  /\ UNCHANGED <<phase, unwritten, memoryVars, fileVars, asked, left, behind>>

\* Options - Auto Save Options.
ToggleAutoSave ==
  /\ phase = "up"
  /\ autoSave' = ~autoSave
  /\ UNCHANGED <<phase, unwritten, key, dirty, fileVars, bound, asked, left, behind>>

\* Options - Save Settings Now: the table of the settings, not this one.
SaveNow ==
  /\ phase = "up"
  /\ asked' = TRUE
  /\ UNCHANGED <<phase, unwritten, memoryVars, fileVars, bound, left, behind>>

\* The process is gone with its memory.
Gone ==
  /\ phase' = "off" /\ dirty' = FALSE /\ bound' = {} /\ asked' = FALSE
  /\ key' = Default /\ autoSave' = TRUE

\* lcrt_destroy_accels.
Exit ==
  /\ phase = "up"
  /\ \/ /\ autoSave /\ dirty
        /\ phase' = "saving" /\ unwritten' = Actions
        /\ UNCHANGED <<memoryVars, bound, asked, left>>
     \/ /\ ~(autoSave /\ dirty)
        /\ left' = IF autoSave THEN key ELSE NoRows
        /\ Gone
        /\ UNCHANGED unwritten
  /\ UNCHANGED <<fileVars, behind>>

\* Mutant: a row is updated and a missing one is not inserted.
Saved_NoInsert(row, k) == IF row = NoRow THEN NoRow ELSE k

\* A row that cannot be updated is inserted.
Saved(row, k) == k

\* lcrt_accels_save_local_config: one statement a row, or two, and each of them a
\* transaction.
SaveRow(a) ==
  /\ phase = "saving"
  /\ WriteRow(a, Saved(file[a], key[a]))
  /\ IF unwritten' = {} THEN Gone /\ left' = key
                        ELSE UNCHANGED <<phase, memoryVars, bound, asked, left>>
  /\ UNCHANGED <<created, behind>>

\* lcrt dies, at any moment.
Crash ==
  /\ phase # "off"
  /\ left' = NoRows /\ unwritten' = {}
  /\ behind' = IF phase = "saving" /\ unwritten # Actions THEN behind \cup unwritten ELSE behind
  /\ Gone
  /\ UNCHANGED fileVars

KeysNext ==
  \/ \E on \in BOOLEAN : Start(on)
  \/ \E a \in Actions, k \in Keys : Edit(a, k)
  \/ \E a \in Actions : CreateRow(a) \/ SaveRow(a)
  \/ EditPopup \/ ToggleAutoSave \/ SaveNow
  \/ Exit \/ Crash

KeysSpec == KeysInit /\ [][KeysNext]_keysVars

-----------------------------------------------------------------------------
(* Properties.                                                             *)
(***************************************************************************)
\* The shape of the state: the table always has a key for every action.
KeysTypeOK ==
  /\ phase \in Phases /\ unwritten \subseteq Actions
  /\ dirty \in BOOLEAN /\ autoSave \in BOOLEAN
  /\ created \in BOOLEAN /\ asked \in BOOLEAN
  /\ key \in [Actions -> Keys] /\ file \in Rows /\ left \in Rows
  /\ behind \subseteq Actions
  /\ bound \subseteq Keys \X Actions

\* No two actions of the table have one key, through any edits, exits, crashes
\* and starts (what lcrt_accels_on_edited checks for one edit at a time), unless
\* the row of one of them was missing in the file found at first, so that its
\* default can be a key that another action has been given, or has been left with
\* its old key by a save that a kill cut short.
KeysDistinct ==
  \A a, b \in Actions : a # b /\ key[a] = key[b] => a \in behind \/ b \in behind

\* Nothing to save means the file would bring back the keys of the table, also
\* when it has no rows for some of the actions.
CleanIsStored == phase = "up" /\ ~dirty => key = Loaded(file)

\* The keys that work are those a restart would bring back: an edit takes effect
\* only then, except that the popups of the Edit menu add new keys of their own
\* actions, and never take a key away.
BoundAsStored ==
  phase = "up" => \A a \in Actions :
     /\ <<Loaded(file)[a], a>> \in bound
     /\ \A k \in Keys : <<k, a>> \in bound /\ a \notin EditActions => k = Loaded(file)[a]

\* The first start after an exit with auto save has the keys that exit had.
EditsComeBack ==
  [][phase = "off" /\ phase' # "off" /\ left # NoRows => key' = left]_keysVars

\* A key is bound to one action (the warning of lcrt_accels_on_edited).
KeyBoundOnce ==
  \A a, b \in Actions, k \in Keys : <<k, a>> \in bound /\ <<k, b>> \in bound => a = b

\* After Save Settings Now, and until the next edit, the file has the keys.
AskedIsSaved == phase = "up" /\ asked => key = Loaded(file)
=============================================================================

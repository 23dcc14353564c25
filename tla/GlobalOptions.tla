---------------------------- MODULE GlobalOptions ----------------------------
(***************************************************************************)
(* The global options (src/src/isettings.c, src/src/csettings.c).  An      *)
(* option lives in several places: the lt_ field of struct lcrt_settings,  *)
(* its widget in the dialog, the open terminals or the bars it shapes, a   *)
(* check item of a menu, and a row of the settings file.  Each handler     *)
(* copies it to some of them.  The dialog is not modal: tabs and menus are *)
(* used while it is up.                                                    *)
(*                                                                         *)
(* Options are grouped by where their handlers put them; a value stands    *)
(* for a font, a colour, a number of lines, on or off.                     *)
(*                                                                         *)
(* The settings table is written a row at a time and read by position.     *)
(***************************************************************************)
EXTENDS Naturals, Sequences

CONSTANTS
  LiveOptions,    \* set by their own widget at once: font, colours, image
  BellOptions,    \* set by Apply, also in the open terminals
  ScrollOptions,  \* set by Apply, in the terminals opened from then on
  KeyOptions,     \* set by Apply, looked up when needed: the F10 key
  BarOptions,     \* set by Apply and the View menu: toolbar and status bar
  DialogOptions,  \* set by Apply: the dialog at start up
  AutoSave,       \* auto_save_config, set by the Options menu
  Order,          \* the options as LCRT_LT_NAME has them
  Quoted,         \* the options and values whose text has an apostrophe
  Terminals, Languages, FirstLanguage,
  NoOptions       \* the options of no save

\* What the terminals show, and what the Terminal page of the dialog has.
LookOptions == LiveOptions \cup BellOptions \cup ScrollOptions
WidgetOptions == LookOptions \cup KeyOptions \cup BarOptions \cup DialogOptions
Options == WidgetOptions \cup {AutoSave}

\* No option is in two groups, each has one place in the table, and only a font and
\* an image can be named with an apostrophe; the defaults are not.
ASSUME OptionsAssumption ==
  /\ LiveOptions \cap (BellOptions \cup ScrollOptions \cup KeyOptions) = {}
  /\ BellOptions \cap (ScrollOptions \cup KeyOptions) = {}
  /\ ScrollOptions \cap KeyOptions = {}
  /\ BarOptions \cap (LookOptions \cup KeyOptions \cup DialogOptions) = {}
  /\ DialogOptions \cap (LookOptions \cup KeyOptions) = {}
  /\ AutoSave \notin WidgetOptions
  /\ FirstLanguage \in Languages
  /\ NoOptions \notin [Options -> 0 .. 3]
  /\ Order \in Seq(Options) /\ \A o \in Options : \E i \in DOMAIN Order : Order[i] = o
  /\ \A i, j \in DOMAIN Order : Order[i] = Order[j] => i = j
  /\ Quoted \subseteq LiveOptions \X {0}

\* LCRT_LT_SHOW_DIALOG_NONE, CONNECT, QUICK_CONNECT, DEFAULT are 0 to 3.
Values(o) == IF o \in DialogOptions THEN 0 .. 3 ELSE 0 .. 1
\* LCRT_LT_CONFIG.
Default == [o \in Options |-> IF o \in DialogOptions THEN 3 ELSE 1]

VARIABLES
  running,   \* lcrt is up
  lt,        \* the lt_ fields of struct lcrt_settings, auto_save_config
  widget,    \* what the dialog's widgets show
  dialogUp,  \* the dialog is on the screen
  tabs,      \* the terminals in the notebook
  look,      \* how each terminal was set up
  bar,       \* the bars on the screen
  menuBar,   \* the check items of the View menu
  menuAuto,  \* the check item Auto Save Options
  created,   \* the settings table exists
  file,      \* its rows, in the order in which they were inserted
  job,       \* what lcrt is writing rows for
  row,       \* the place of the next one
  language,  \* config_language: the language of this run
  combo,     \* the language that the dialog shows
  stored,    \* the language in the language file
  kept,      \* history: the options at the last save that was completed
  touched,   \* history: options whose rows a save has come to since
  chosen,    \* history: the language the dialog had at the last Apply
  stale      \* history: options a Reset set while their menus and bars stayed

dialogVars == <<widget, dialogUp, combo>>
viewVars == <<bar, menuBar>>
tabVars == <<tabs, look>>
fileVars == <<created, file, job, row, kept, touched>>
languageVars == <<language, stored, chosen>>
vars == <<running, lt, dialogVars, tabVars, viewVars, menuAuto, fileVars,
          languageVars, stale>>

\* f with the options in S as in g.
Take(f, g, S) == [o \in DOMAIN f |-> IF o \in S THEN g[o] ELSE f[o]]

Only(f, S) == [o \in S |-> f[o]]

-----------------------------------------------------------------------------
(* Start and end.                                                          *)
(***************************************************************************)
\* Mutant: the row of Auto Save Options is not written.
RowValue_NoAutoSave(options, o) ==
  IF o = AutoSave THEN 1 ELSE IF o \in DialogOptions /\ options[o] # 0 THEN 1 ELSE options[o]

\* lcrt_settings_save_local_config writes "1" for every start-up dialog.
RowValue(options, o) ==
  IF o \in DialogOptions /\ options[o] # 0 THEN 1 ELSE options[o]

\* UPDATE, and INSERT if that changed no row.  The statements have the value between
\* apostrophes as it is: one with an apostrophe makes both fail, which nobody notices.
Put(rows, o, v) ==
  IF <<o, v>> \in Quoted THEN rows
  ELSE IF \E i \in DOMAIN rows : rows[i].name = o
  THEN [i \in DOMAIN rows |-> IF rows[i].name = o THEN [name |-> o, value |-> v] ELSE rows[i]]
  ELSE Append(rows, [name |-> o, value |-> v])

\* lcrt_settings_load_local_config reads the rows by their place: a row that is not
\* there leaves the default, and the text of another option's row is read as any value.
Place(o) == CHOOSE i \in DOMAIN Order : Order[i] = o
Misread == {o \in Options : Place(o) \in DOMAIN file /\ file[Place(o)].name # o}
Loaded(wrong) ==
  [o \in Options |-> IF Place(o) \notin DOMAIN file THEN Default[o]
                     ELSE IF o \in Misread THEN wrong[o] ELSE file[Place(o)].value]

\* What the widgets are made with: the radio buttons of the start-up dialog are
\* on None.
WidgetsFor(options) ==
  [o \in WidgetOptions |-> IF o \in DialogOptions THEN 0 ELSE options[o]]

\* The process is gone with its memory.
Gone ==
  /\ running' = FALSE /\ dialogUp' = FALSE /\ stale' = {}
  /\ tabs' = {} /\ look' = <<>>
  /\ lt' = Default /\ widget' = WidgetsFor(Default)
  /\ bar' = Only(Default, BarOptions) /\ menuBar' = bar' /\ menuAuto' = 1
  /\ combo' = language /\ job' = "none" /\ row' = 1
  /\ UNCHANGED languageVars

Init ==
  /\ running = FALSE /\ dialogUp = FALSE /\ stale = {}
  /\ tabs = {} /\ look = <<>>
  /\ lt = Default /\ widget = WidgetsFor(Default)
  /\ bar = Only(Default, BarOptions) /\ menuBar = bar /\ menuAuto = 1
  /\ created = FALSE /\ file = <<>> /\ job = "none" /\ row = 1
  /\ kept = NoOptions /\ touched = {}
  /\ stored = FirstLanguage /\ chosen = stored
  /\ combo = stored /\ language = stored

\* Mutant: the toolbar is made before the settings are loaded.
Start_EarlyBars ==
  /\ ~running
  /\ running' = TRUE
  /\ \E wrong \in [Misread -> 0 .. 3] :
       (\A o \in Misread : wrong[o] \in Values(o)) /\ lt' = Loaded(wrong)
  /\ created' = TRUE /\ job' = IF created THEN "none" ELSE "create"
  /\ widget' = WidgetsFor(lt')
  /\ bar' = Only(Default, BarOptions) /\ menuBar' = Only(lt', BarOptions)
  /\ menuAuto' = lt'[AutoSave]
  /\ language' = stored /\ combo' = stored
  /\ UNCHANGED <<dialogUp, tabVars, file, row, kept, touched, stored, chosen, stale>>

\* lcrt_config_load, lcrt_create_settings, the menus and lcrt_window_set_status.
\* Without a settings table the defaults are used, and one is created for them.
Start ==
  /\ ~running
  /\ running' = TRUE
  /\ \E wrong \in [Misread -> 0 .. 3] :
       (\A o \in Misread : wrong[o] \in Values(o)) /\ lt' = Loaded(wrong)
  /\ created' = TRUE /\ job' = IF created THEN "none" ELSE "create"
  /\ widget' = WidgetsFor(lt')
  /\ bar' = Only(lt', BarOptions) /\ menuBar' = bar'
  /\ menuAuto' = lt'[AutoSave]
  /\ language' = stored /\ combo' = stored
  /\ UNCHANGED <<dialogUp, tabVars, file, row, kept, touched, stored, chosen, stale>>

WriteRow ==
  /\ job # "none"
  /\ file' = Put(file, Order[row], IF job = "create" THEN Default[Order[row]]
                                   ELSE RowValue(lt, Order[row]))
  /\ UNCHANGED created

\* lcrt_settings_create_local_config and lcrt_settings_save_local_config: each row is
\* in a statement of its own.
WriteNext ==
  /\ row < Len(Order) /\ WriteRow
  /\ row' = row + 1
  /\ touched' = IF job = "create" THEN touched ELSE touched \cup {Order[row]}
  /\ UNCHANGED <<running, lt, dialogVars, tabVars, viewVars, menuAuto, job, kept,
                 languageVars, stale>>

WriteLast ==
  /\ row = Len(Order) /\ WriteRow
  /\ row' = 1 /\ job' = "none"
  /\ IF job = "create" THEN UNCHANGED <<kept, touched>> ELSE kept' = lt /\ touched' = {}
  /\ IF job = "exit" THEN Gone
     ELSE UNCHANGED <<running, lt, dialogVars, tabVars, viewVars, menuAuto, languageVars, stale>>

\* lcrt_destroy_window: lcrt_destroy_settings saves if auto_save_config is set.
Exit ==
  /\ running
  /\ IF lt[AutoSave] = 1
     THEN /\ job' = "exit"
          /\ UNCHANGED <<running, lt, dialogVars, tabVars, viewVars, menuAuto, row,
                         languageVars, stale>>
     ELSE Gone
  /\ UNCHANGED <<created, file, kept, touched>>

Crash ==
  /\ running
  /\ Gone
  /\ UNCHANGED <<created, file, kept, touched>>

\* Options - Save Settings Now.
SaveNow ==
  /\ running
  /\ job' = "save"
  /\ UNCHANGED <<running, lt, dialogVars, tabVars, viewVars, menuAuto, created, file, row,
                 kept, touched, languageVars, stale>>

-----------------------------------------------------------------------------
(* The dialog.                                                             *)
(***************************************************************************)
ShowDialog ==
  /\ running /\ ~dialogUp
  /\ dialogUp' = TRUE
  /\ UNCHANGED <<running, lt, widget, combo, tabVars, viewVars, menuAuto, fileVars,
                 languageVars, stale>>

\* The user sets a widget that waits for Apply.
SetWidget(o, v) ==
  /\ dialogUp /\ o \notin LiveOptions
  /\ o \in DialogOptions => v # 3
  /\ widget' = [widget EXCEPT ![o] = v]
  /\ UNCHANGED <<running, lt, dialogUp, combo, tabVars, viewVars, menuAuto, fileVars,
                 languageVars, stale>>

SelectLanguage(l) ==
  /\ dialogUp
  /\ combo' = l
  /\ UNCHANGED <<running, lt, widget, dialogUp, tabVars, viewVars, menuAuto, fileVars,
                 languageVars, stale>>

\* The options in S of the open terminals are set.
SetTerminals(S, options) == look' = [t \in tabs |-> Take(look[t], options, S)]

\* The handlers of the font, the colours, the image and the transparency.
SetLive(o, v) ==
  /\ dialogUp
  /\ lt' = [lt EXCEPT ![o] = v]
  /\ widget' = [widget EXCEPT ![o] = v]
  /\ SetTerminals({o}, lt')
  /\ UNCHANGED <<running, dialogUp, combo, tabs, viewVars, menuAuto, fileVars,
                 languageVars, stale>>

\* lcrt_settings_on_applybutton_clicked.  A language other than that of this run
\* is stored at once.
ApplyWidgets ==
  /\ lt' = Take(lt, widget, WidgetOptions \ LiveOptions)
  /\ SetTerminals(BellOptions, widget)
  /\ bar' = Only(widget, BarOptions)
  /\ stored' = IF combo # language THEN combo ELSE stored
  /\ chosen' = combo
  /\ stale' = stale \ BarOptions
  /\ UNCHANGED <<running, tabs, menuBar, menuAuto, fileVars, language, combo>>

\* Mutant: the bell's check button is left as it is.
CloseDialog_NotBell(options) ==
  /\ widget' = Take(widget, options, (LookOptions \ BellOptions) \cup KeyOptions)
  /\ dialogUp' = FALSE

\* lcrt_settings_on_cancelbutton_clicked: the widgets of the Terminal page and
\* the F10 key show the options again, the others stay.
CloseDialog(options) ==
  /\ widget' = Take(widget, options, LookOptions \cup KeyOptions)
  /\ dialogUp' = FALSE

Apply == dialogUp /\ ApplyWidgets /\ UNCHANGED <<widget, dialogUp>>

\* lcrt_settings_on_okbutton_clicked.
Ok == dialogUp /\ ApplyWidgets /\ CloseDialog(lt')

Cancel ==
  /\ dialogUp
  /\ CloseDialog(lt)
  /\ UNCHANGED <<running, lt, combo, tabVars, viewVars, menuAuto, fileVars, languageVars, stale>>

\* Mutant: the terminals are not set.
Reset_NotOpenTabs ==
  /\ dialogUp
  /\ lt' = Default
  /\ widget' = Take(widget, Default, LookOptions)
  /\ stale' = BarOptions \cup {AutoSave}
  /\ UNCHANGED <<running, dialogUp, combo, tabVars, viewVars, menuAuto, fileVars, languageVars>>

\* lcrt_settings_terminal_on_restore_default_clicked: every option, the widgets
\* of the Terminal page, the terminals.
Reset ==
  /\ dialogUp
  /\ lt' = Default
  /\ widget' = Take(widget, Default, LookOptions)
  /\ SetTerminals(LookOptions, Default)
  /\ stale' = BarOptions \cup {AutoSave}
  /\ UNCHANGED <<running, dialogUp, combo, tabs, viewVars, menuAuto, fileVars, languageVars>>

-----------------------------------------------------------------------------
(* The menus and the tabs.                                                 *)
(***************************************************************************)
\* Opening the View menu sets its check items from the options, and a check item
\* that changes runs lcrt_view_on_toolbar_activate; then the user may click one.
ViewMenu(clicked) ==
  LET on == [o \in BarOptions |-> IF o \in clicked THEN 1 - lt[o] ELSE lt[o]]
      ran == {o \in BarOptions : menuBar[o] # lt[o]} \cup clicked
  IN
  /\ running
  /\ menuBar' = on
  /\ bar' = Take(bar, on, ran)
  /\ lt' = Take(lt, on, ran)
  /\ widget' = Take(widget, on, ran)
  /\ stale' = stale \ {o \in BarOptions : bar'[o] = lt'[o]}
  /\ UNCHANGED <<running, dialogUp, combo, tabVars, menuAuto, fileVars, languageVars>>

\* Options - Auto Save Options.
ToggleAutoSave ==
  /\ running
  /\ menuAuto' = 1 - menuAuto
  /\ lt' = [lt EXCEPT ![AutoSave] = menuAuto']
  /\ stale' = stale \ {AutoSave}
  /\ UNCHANGED <<running, dialogVars, tabVars, viewVars, fileVars, languageVars>>

\* lcrt_create_terminal.
OpenTab(t) ==
  /\ running /\ t \notin tabs
  /\ tabs' = tabs \cup {t}
  /\ look' = [u \in tabs' |-> IF u = t THEN Only(lt, LookOptions) ELSE look[u]]
  /\ UNCHANGED <<running, lt, dialogVars, viewVars, menuAuto, fileVars, languageVars, stale>>

CloseTab(t) ==
  /\ t \in tabs
  /\ tabs' = tabs \ {t}
  /\ look' = Only(look, tabs')
  /\ UNCHANGED <<running, lt, dialogVars, viewVars, menuAuto, fileVars, languageVars, stale>>

DialogStep ==
  \/ \E o \in WidgetOptions : \E v \in Values(o) : SetWidget(o, v)
  \/ \E o \in LiveOptions : \E v \in Values(o) : SetLive(o, v)
  \/ \E l \in Languages : SelectLanguage(l)
  \/ ShowDialog \/ Apply \/ Ok \/ Cancel \/ Reset

UserStep ==
  \/ Exit \/ SaveNow
  \/ DialogStep
  \/ \E o \in BarOptions : ViewMenu({o})
  \/ ViewMenu({})
  \/ ToggleAutoSave
  \/ \E t \in Terminals : OpenTab(t) \/ CloseTab(t)

\* The rows are written in one call: only a crash comes between them.
Next ==
  \/ Start \/ Crash \/ WriteNext \/ WriteLast
  \/ job = "none" /\ UserStep

Spec == Init /\ [][Next]_vars

-----------------------------------------------------------------------------
(* Properties.                                                             *)
(***************************************************************************)
\* An open terminal has the font, colours, transparency and bell of the options,
\* whichever of the dialog's handlers set them, before or after it was opened.
TabsFollowOptions ==
  \A t \in tabs : \A o \in LiveOptions \cup BellOptions : look[t][o] = lt[o]

\* A dialog that is closed will open with the options as they are: Ok, Cancel and
\* the window's close button leave no widget of the Terminal page behind.
ClosedDialogShowsOptions ==
  running /\ ~dialogUp => \A o \in LookOptions \cup KeyOptions : widget[o] = lt[o]

\* The window's copies of the options agree with them, unless a Reset changed an
\* option and no handler has put its copy right since: the bars are on the screen
\* as the options say, and the check item that lcrt_window_get_auto_save reads
\* agrees with auto_save_config, so that options and sessions are saved by one rule.
WindowFollowsOptions ==
  running => /\ \A o \in BarOptions \ stale : bar[o] = lt[o]
             /\ AutoSave \notin stale => menuAuto = lt[AutoSave]

\* Rows and options are in the same order, so that reading by position finds each
\* option's own row.
RowsInPlace == \A i \in DOMAIN file : Place(file[i].name) = i

\* While the rows are in their places a start has the options of the last completed
\* save, whatever was not saved since and whichever statements failed: all but the
\* start-up dialog, those whose text has an apostrophe, and those whose rows a save
\* that was killed has come to.
SavedComesBack ==
  [][~running /\ running' /\ kept # NoOptions /\ RowsInPlace
       => \A o \in Options \ (DialogOptions \cup touched) :
            <<o, kept[o]>> \notin Quoted => lt'[o] = kept[o]]_vars

\* A start has the options of the last save.
SettingsAreSaved ==
  [][~running /\ running' /\ kept # NoOptions
       => \A o \in Options \ DialogOptions : lt'[o] = kept[o]]_vars

\* "All settings will effect immediately": also those of the open terminals.
EffectImmediately ==
  \A t \in tabs : \A o \in LookOptions : look[t][o] = lt[o]

\* The bars are on the screen as the options say.
BarsAsSet == running => \A o \in BarOptions : bar[o] = lt[o]

\* The options are saved on exit only if Auto Save Options is ticked.
SavedIfTicked == job = "exit" => menuAuto = 1

\* The language of the next run is the one that was applied last.
LanguageNextTime == stored = chosen

\* A start has the start-up dialog of the last save.
DialogComesBack ==
  [][~running /\ running' /\ kept # NoOptions
       => \A o \in DialogOptions : lt'[o] = kept[o]]_vars
=============================================================================

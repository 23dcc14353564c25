--------------------------- MODULE Dialogs_proofs ---------------------------
(***************************************************************************)
(* Theorems about the two dialogs that edit what lcrt keeps: the global    *)
(* options (GlobalOptions) and the form of a session (QuickConnect).       *)
(***************************************************************************)
EXTENDS GlobalOptions, QuickConnect, TLAPS

-----------------------------------------------------------------------------
(* Global options.  The copies of an option agree with the option itself,  *)
(* for any options and any number of terminals.  Besides the properties    *)
(* the invariant says where the functions are defined: every handler       *)
(* rebuilds them from one another.                                         *)
(***************************************************************************)
\* The options of a terminal and of the Terminal page.
Shared == LiveOptions \cup BellOptions

DomainOK ==
  /\ DOMAIN lt = Options /\ DOMAIN widget = WidgetOptions
  /\ DOMAIN look = tabs /\ \A t \in tabs : DOMAIN look[t] = LookOptions

IInv ==
  /\ DomainOK
  /\ ~running => tabs = {}
  /\ TabsFollowOptions
  /\ ClosedDialogShowsOptions

\* One option is in one place only; WidgetsFor and Take by their values.
LEMMA Groups ==
  /\ Shared \subseteq LookOptions
  /\ LookOptions \subseteq WidgetOptions /\ KeyOptions \subseteq WidgetOptions
  /\ BarOptions \subseteq WidgetOptions
  /\ WidgetOptions \subseteq Options /\ AutoSave \in Options
  /\ (LookOptions \cup KeyOptions) \cap (BarOptions \cup DialogOptions \cup {AutoSave}) = {}
  /\ LiveOptions \cap BellOptions = {}
  BY OptionsAssumption DEF Shared, LookOptions, WidgetOptions, Options

LEMMA GoneIInv ==
  ASSUME IInv, Gone
  PROVE  IInv'
<1>1. DOMAIN lt' = Options /\ DOMAIN widget' = WidgetOptions
  BY DEF Gone, Default, WidgetsFor
<1>2. tabs' = {} /\ DOMAIN look' = {} /\ ~running'
  BY DEF Gone
<1> QED BY <1>1, <1>2 DEF IInv, DomainOK, TabsFollowOptions, ClosedDialogShowsOptions

LEMMA InitIInv == Init => IInv
<1> SUFFICES ASSUME Init PROVE IInv
  OBVIOUS
<1>1. DOMAIN lt = Options /\ DOMAIN widget = WidgetOptions
  BY DEF Init, Default, WidgetsFor
<1>2. tabs = {} /\ DOMAIN look = {} /\ ~running
  BY DEF Init
<1> QED BY <1>1, <1>2 DEF IInv, DomainOK, TabsFollowOptions, ClosedDialogShowsOptions

\* Nothing is open yet, and the widgets are made from the options.
LEMMA StartIInv ==
  ASSUME IInv, Start
  PROVE  IInv'
<1>1. DOMAIN lt' = Options
  BY DEF Start, Loaded
<1>2. tabs' = {} /\ DOMAIN look' = {}
  BY DEF Start, IInv, DomainOK, tabVars
<1>3. /\ DOMAIN widget' = WidgetOptions
      /\ \A o \in LookOptions \cup KeyOptions : widget'[o] = lt'[o]
  BY Groups DEF Start, WidgetsFor
<1> QED BY <1>1, <1>2, <1>3 DEF IInv, DomainOK, TabsFollowOptions, ClosedDialogShowsOptions

\* The dialog is up and stays up: the options change at S, and so do the open
\* terminals where S has options of theirs.
LEMMA DialogIInv ==
  ASSUME IInv, dialogUp', running' = running, tabs' = tabs,
         DOMAIN lt' = Options, DOMAIN widget' = WidgetOptions,
         DOMAIN look' = tabs, \A t \in tabs : DOMAIN look'[t] = LookOptions,
         \A t \in tabs : \A o \in Shared :
            look'[t][o] = lt'[o] \/ (look'[t][o] = look[t][o] /\ lt'[o] = lt[o])
  PROVE  IInv'
<1>1. TabsFollowOptions'
  BY DEF IInv, TabsFollowOptions, Shared
<1> QED BY <1>1 DEF IInv, DomainOK, ClosedDialogShowsOptions

\* What SetTerminals does.
LEMMA SetTerminalsLook ==
  ASSUME DomainOK, NEW S, NEW options, SetTerminals(S, options)
  PROVE  /\ DOMAIN look' = tabs
         /\ \A t \in tabs : DOMAIN look'[t] = LookOptions
         /\ \A t \in tabs : \A o \in LookOptions :
               look'[t][o] = IF o \in S THEN options[o] ELSE look[t][o]
  BY DEF DomainOK, SetTerminals, Take

LEMMA SetLiveIInv ==
  ASSUME IInv, NEW o \in LiveOptions, NEW v, SetLive(o, v)
  PROVE  IInv'
<1>1. DOMAIN lt' = Options /\ DOMAIN widget' = WidgetOptions
  BY DEF SetLive, IInv, DomainOK
<1>2. \A p \in Options \ {o} : lt'[p] = lt[p]
  BY DEF SetLive, IInv, DomainOK
<1>3. SetTerminals({o}, lt') /\ DomainOK
  BY DEF SetLive, IInv
<1>4. /\ DOMAIN look' = tabs
      /\ \A t \in tabs : DOMAIN look'[t] = LookOptions
      /\ \A t \in tabs : \A p \in LookOptions :
            look'[t][p] = IF p \in {o} THEN lt'[p] ELSE look[t][p]
  BY <1>3, SetTerminalsLook
<1>5. dialogUp' /\ running' = running /\ tabs' = tabs
  BY DEF SetLive
<1> QED BY <1>1, <1>2, <1>4, <1>5, Groups, DialogIInv

\* What an Apply does to the options and the terminals.
LEMMA ApplyLook ==
  ASSUME IInv, ApplyWidgets
  PROVE  /\ DOMAIN lt' = Options
         /\ DOMAIN look' = tabs
         /\ \A t \in tabs : DOMAIN look'[t] = LookOptions
         /\ \A t \in tabs : \A o \in Shared :
               look'[t][o] = lt'[o] \/ (look'[t][o] = look[t][o] /\ lt'[o] = lt[o])
         /\ running' = running /\ tabs' = tabs
<1>1. /\ DOMAIN lt' = Options
      /\ \A o \in Options :
            lt'[o] = IF o \in WidgetOptions \ LiveOptions THEN widget[o] ELSE lt[o]
  BY DEF ApplyWidgets, Take, IInv, DomainOK
<1>2. SetTerminals(BellOptions, widget) /\ DomainOK
  BY DEF ApplyWidgets, IInv
<1>3. /\ DOMAIN look' = tabs
      /\ \A t \in tabs : DOMAIN look'[t] = LookOptions
      /\ \A t \in tabs : \A o \in LookOptions :
            look'[t][o] = IF o \in BellOptions THEN widget[o] ELSE look[t][o]
  BY <1>2, SetTerminalsLook
<1>4. running' = running /\ tabs' = tabs
  BY DEF ApplyWidgets
<1>5. ASSUME NEW t \in tabs, NEW o \in Shared
      PROVE  look'[t][o] = lt'[o] \/ (look'[t][o] = look[t][o] /\ lt'[o] = lt[o])
  <2>1. o \in LookOptions /\ o \in Options /\ o \in WidgetOptions
    BY Groups
  <2>2. CASE o \in BellOptions
    BY <1>1, <1>3, <2>1, <2>2, Groups
  <2>3. CASE o \in LiveOptions
    BY <1>1, <1>3, <2>1, <2>3, Groups
  <2> QED BY <2>2, <2>3 DEF Shared
<1> QED BY <1>1, <1>3, <1>4, <1>5

LEMMA ApplyIInv ==
  ASSUME IInv, Apply
  PROVE  IInv'
<1>1. ApplyWidgets /\ dialogUp' /\ DOMAIN widget' = WidgetOptions
  BY DEF Apply, IInv, DomainOK
<1> QED BY <1>1, ApplyLook, DialogIInv

\* Closing the dialog makes its widgets agree with the options.
LEMMA ClosedWidgets ==
  ASSUME NEW options, DomainOK, CloseDialog(options)
  PROVE  /\ DOMAIN widget' = WidgetOptions
         /\ \A o \in LookOptions \cup KeyOptions : widget'[o] = options[o]
<1>1. LookOptions \cup KeyOptions \subseteq WidgetOptions
  BY Groups
<1> QED BY <1>1 DEF DomainOK, CloseDialog, Take

LEMMA OkIInv ==
  ASSUME IInv, Ok
  PROVE  IInv'
<1>1. ApplyWidgets /\ DomainOK /\ CloseDialog(lt')
  BY DEF Ok, IInv
<1>2. /\ DOMAIN widget' = WidgetOptions
      /\ \A o \in LookOptions \cup KeyOptions : widget'[o] = lt'[o]
  BY <1>1, ClosedWidgets
<1>3. TabsFollowOptions'
  BY <1>1, ApplyLook DEF IInv, TabsFollowOptions, Shared
<1> QED BY <1>1, <1>2, <1>3, ApplyLook DEF IInv, DomainOK, ClosedDialogShowsOptions

LEMMA CancelIInv ==
  ASSUME IInv, Cancel
  PROVE  IInv'
<1>1. /\ DOMAIN widget' = WidgetOptions
      /\ \A o \in LookOptions \cup KeyOptions : widget'[o] = lt[o]
  BY ClosedWidgets DEF Cancel, IInv
<1>2. UNCHANGED <<lt, tabs, look, running>>
  BY DEF Cancel, tabVars
<1> QED BY <1>1, <1>2 DEF IInv, DomainOK, TabsFollowOptions, ClosedDialogShowsOptions

LEMMA ResetIInv ==
  ASSUME IInv, Reset
  PROVE  IInv'
<1>1. DOMAIN lt' = Options /\ lt' = Default
  BY DEF Reset, Default
<1>2. DOMAIN widget' = WidgetOptions
  BY DEF Reset, Take, IInv, DomainOK
<1>3. SetTerminals(LookOptions, Default) /\ DomainOK
  BY DEF Reset, IInv
<1>4. /\ DOMAIN look' = tabs
      /\ \A t \in tabs : DOMAIN look'[t] = LookOptions
      /\ \A t \in tabs : \A o \in LookOptions :
            look'[t][o] = IF o \in LookOptions THEN Default[o] ELSE look[t][o]
  BY <1>3, SetTerminalsLook
<1>5. dialogUp' /\ running' = running /\ tabs' = tabs
  BY DEF Reset
<1> QED BY <1>1, <1>2, <1>4, <1>5, Groups, DialogIInv

\* The View menu changes bar options only, and their widgets with them.
LEMMA ViewMenuIInv ==
  ASSUME IInv, NEW clicked \in SUBSET BarOptions, ViewMenu(clicked)
  PROVE  IInv'
<1> DEFINE on == [o \in BarOptions |-> IF o \in clicked THEN 1 - lt[o] ELSE lt[o]]
           ran == {o \in BarOptions : menuBar[o] # lt[o]} \cup clicked
<1>1. ran \subseteq BarOptions
  OBVIOUS
<1>2. lt' = Take(lt, on, ran) /\ widget' = Take(widget, on, ran)
  BY DEF ViewMenu
<1> HIDE DEF on, ran
<1>3. /\ DOMAIN lt' = Options /\ DOMAIN widget' = WidgetOptions
      /\ \A o \in Options \ BarOptions : lt'[o] = lt[o]
      /\ \A o \in WidgetOptions \ BarOptions : widget'[o] = widget[o]
  BY <1>1, <1>2 DEF Take, IInv, DomainOK
<1>4. UNCHANGED <<tabs, look, running, dialogUp>>
  BY DEF ViewMenu, tabVars
<1>5. LookOptions \cup KeyOptions \subseteq WidgetOptions \ BarOptions
  BY Groups
<1>6. \A o \in LookOptions \cup KeyOptions : lt'[o] = lt[o] /\ widget'[o] = widget[o]
  BY <1>3, <1>5, Groups
<1>7. TabsFollowOptions'
  BY <1>4, <1>6, Groups DEF IInv, TabsFollowOptions, Shared
<1>8. ClosedDialogShowsOptions'
  BY <1>4, <1>6 DEF IInv, ClosedDialogShowsOptions
<1> QED BY <1>3, <1>4, <1>7, <1>8 DEF IInv, DomainOK

LEMMA ToggleAutoSaveIInv ==
  ASSUME IInv, ToggleAutoSave
  PROVE  IInv'
<1>1. DOMAIN lt' = Options /\ \A o \in LookOptions \cup KeyOptions : lt'[o] = lt[o]
  BY Groups DEF ToggleAutoSave, IInv, DomainOK
<1>2. UNCHANGED <<tabs, look, running, dialogUp, widget>>
  BY DEF ToggleAutoSave, tabVars, dialogVars
<1>3. TabsFollowOptions'
  BY <1>1, <1>2, Groups DEF IInv, TabsFollowOptions, Shared
<1> QED BY <1>1, <1>2, <1>3 DEF IInv, DomainOK, ClosedDialogShowsOptions

LEMMA TabIInv ==
  ASSUME IInv, NEW t \in Terminals, OpenTab(t) \/ CloseTab(t)
  PROVE  IInv'
<1>1. UNCHANGED <<lt, running, dialogUp, widget>>
  BY DEF OpenTab, CloseTab, dialogVars
<1>2. /\ DOMAIN look' = tabs' /\ \A u \in tabs' : DOMAIN look'[u] = LookOptions
      /\ \A u \in tabs' : \A o \in LookOptions :
           \/ look'[u][o] = lt[o]
           \/ u \in tabs /\ look'[u][o] = look[u][o]
  <2>1. CASE OpenTab(t)
    BY <2>1 DEF OpenTab, Only, IInv, DomainOK
  <2>2. CASE CloseTab(t)
    BY <2>2 DEF CloseTab, Only, IInv, DomainOK
  <2> QED BY <2>1, <2>2
<1>3. TabsFollowOptions'
  BY <1>1, <1>2, Groups DEF IInv, TabsFollowOptions, Shared
<1>4. ~running => tabs' = {}
  BY DEF OpenTab, CloseTab, IInv
<1> QED BY <1>1, <1>2, <1>3, <1>4 DEF IInv, DomainOK, ClosedDialogShowsOptions

\* A step that the options, the dialog and the tabs have no part in.
LEMMA SameIInv ==
  ASSUME IInv, UNCHANGED <<running, lt, widget, dialogUp, tabs, look>>
  PROVE  IInv'
BY DEF IInv, DomainOK, TabsFollowOptions, ClosedDialogShowsOptions

\* One step of each action of Next.
LEMMA NextIInv == IInv /\ [Next]_vars => IInv'
<1> SUFFICES ASSUME IInv, [Next]_vars PROVE IInv'
  OBVIOUS
<1>1. CASE Start
  BY <1>1, StartIInv
<1>2. CASE Exit
  BY <1>2, GoneIInv, SameIInv DEF Exit, dialogVars, tabVars
<1>3. CASE Crash
  BY <1>3, GoneIInv DEF Crash
<1>4. CASE SaveNow
  BY <1>4, SameIInv DEF SaveNow, dialogVars, tabVars
<1>16. CASE WriteNext
  BY <1>16, SameIInv DEF WriteNext, dialogVars, tabVars
<1>17. CASE WriteLast
  BY <1>17, GoneIInv, SameIInv DEF WriteLast, dialogVars, tabVars
<1>5. ASSUME NEW o \in WidgetOptions, NEW v, SetWidget(o, v) PROVE IInv'
  BY <1>5 DEF SetWidget, IInv, DomainOK, TabsFollowOptions, ClosedDialogShowsOptions,
              tabVars
<1>6. ASSUME NEW o \in LiveOptions, NEW v, SetLive(o, v) PROVE IInv'
  BY <1>6, SetLiveIInv
<1>7. ASSUME NEW l \in Languages, SelectLanguage(l) PROVE IInv'
  BY <1>7 DEF SelectLanguage, IInv, DomainOK, TabsFollowOptions, ClosedDialogShowsOptions,
              tabVars
<1>8. CASE ShowDialog
  BY <1>8 DEF ShowDialog, IInv, DomainOK, TabsFollowOptions, ClosedDialogShowsOptions,
              tabVars
<1>9. CASE Apply \/ Ok
  BY <1>9, ApplyIInv, OkIInv
<1>10. CASE Cancel \/ Reset
  BY <1>10, CancelIInv, ResetIInv
<1>11. ASSUME NEW clicked \in SUBSET BarOptions, ViewMenu(clicked) PROVE IInv'
  BY <1>11, ViewMenuIInv
<1>12. CASE ToggleAutoSave
  BY <1>12, ToggleAutoSaveIInv
<1>13. ASSUME NEW t \in Terminals, OpenTab(t) \/ CloseTab(t) PROVE IInv'
  BY <1>13, TabIInv
<1>14. CASE UNCHANGED vars
  BY <1>14 DEF vars, tabVars, dialogVars, fileVars, IInv, DomainOK, TabsFollowOptions,
               ClosedDialogShowsOptions
<1>15. CASE DialogStep
  BY <1>15, <1>5, <1>6, <1>7, <1>8, <1>9, <1>10 DEF DialogStep
<1> QED BY <1>1, <1>2, <1>3, <1>4, <1>11, <1>12, <1>13, <1>14, <1>15, <1>16, <1>17
         DEF Next, UserStep

\* An open terminal has the font, colours, transparency and bell of the options,
\* for any options and terminals.
THEOREM TerminalsFollowOptions == Spec => []TabsFollowOptions
<1>1. IInv => TabsFollowOptions
  BY DEF IInv
<1> QED BY InitIInv, NextIInv, <1>1, PTL DEF Spec

\* Whichever button closed the dialog, its Terminal page and F10 check button
\* show the options when it is opened again.
THEOREM ClosedDialogAgrees == Spec => []ClosedDialogShowsOptions
<1>1. IInv => ClosedDialogShowsOptions
  BY DEF IInv
<1> QED BY InitIInv, NextIInv, <1>1, PTL DEF Spec

-----------------------------------------------------------------------------
(* The copies of an option outside the dialog, and the settings file.      *)
(***************************************************************************)
\* Every place of an option has a value of it, and so has every row of it.
Valued(f, S) == DOMAIN f = S /\ \A o \in S : f[o] \in Values(o)
WindowInv ==
  /\ Valued(lt, Options) /\ Valued(widget, WidgetOptions)
  /\ DOMAIN bar = BarOptions /\ menuAuto \in 0 .. 1
  /\ WindowFollowsOptions

TableFits(tb) ==
  /\ tb \in Seq([name : Options, value : 0 .. 3])
  /\ \A i \in DOMAIN tb : tb[i].value \in Values(tb[i].name)

\* The row of o, where it is read from, has what options say, if it can be written.
Holds(tb, o, options) ==
  <<o, RowValue(options, o)>> \notin Quoted =>
     Place(o) \in DOMAIN tb /\ tb[Place(o)].value = RowValue(options, o)

\* The table has the rows of the last completed save, but for those that a later one
\* has come to, and a save has written the rows before the next one.  Rows keep their
\* places: one that is out of place stays so.
FileInv ==
  /\ row \in DOMAIN Order /\ (job = "none" => row = 1)
  /\ job \in {"none", "create", "save", "exit"} /\ (job # "none" => running)
  /\ running => created
  /\ TableFits(file)
  /\ kept # NoOptions => Valued(kept, Options) /\ created /\ job # "create"
  /\ RowsInPlace =>
       /\ kept # NoOptions => \A o \in Options \ touched : Holds(file, o, kept)
       /\ job \in {"save", "exit"} => \A o \in Options : Place(o) < row => Holds(file, o, lt)

LEMMA AutoSaveApart ==
  /\ AutoSave \notin WidgetOptions /\ AutoSave \notin BarOptions
  /\ AutoSave \notin DialogOptions /\ AutoSave \in Options
BY OptionsAssumption DEF WidgetOptions, Options

LEMMA ValuesOf ==
  /\ \A o : 0 \in Values(o) /\ 1 \in Values(o) /\ Values(o) \subseteq 0 .. 3
  /\ \A o : o \notin DialogOptions => Values(o) = 0 .. 1
  /\ Valued(Default, Options)
BY DEF Values, Valued, Default

LEMMA NameOf ==
  ASSUME NEW tb, TableFits(tb), NEW i \in DOMAIN tb
  PROVE  tb[i].name \in Options
<1> DEFINE R == [name : Options, value : 0 .. 3]
<1>1. tb \in Seq(R)
  BY DEF TableFits
<1>2. \A r \in R : r.name \in Options
  OBVIOUS
<1> HIDE DEF R
<1>3. tb[i] \in R
  BY <1>1
<1> QED BY <1>2, <1>3

LEMMA PlaceOf ==
  /\ \A o \in Options : Place(o) \in DOMAIN Order /\ Order[Place(o)] = o
  /\ \A r \in DOMAIN Order : Order[r] \in Options /\ Place(Order[r]) = r
  /\ DOMAIN Order = 1 .. Len(Order) /\ Len(Order) \in Nat /\ 1 \in DOMAIN Order
<1>1. Order \in Seq(Options) /\ AutoSave \in Options
  BY OptionsAssumption DEF Options
<1>2. \A o \in Options : Place(o) \in DOMAIN Order /\ Order[Place(o)] = o
  BY OptionsAssumption DEF Place
<1>3. \A r \in DOMAIN Order : Order[r] \in Options
  BY <1>1
<1>4. \A r \in DOMAIN Order : Place(Order[r]) = r
  BY <1>2, <1>3, OptionsAssumption
<1>5. DOMAIN Order = 1 .. Len(Order) /\ Len(Order) \in Nat
  BY <1>1
<1>6. 1 \in DOMAIN Order
  <2>1. Place(AutoSave) \in 1 .. Len(Order)
    BY <1>1, <1>2, <1>5
  <2> QED BY <1>5, <2>1
<1> QED BY <1>2, <1>3, <1>4, <1>5, <1>6

\* What a row is written with gives every option but the start-up dialog back.
LEMMA RowValueOf ==
  ASSUME NEW options, Valued(options, Options), NEW o \in Options
  PROVE  /\ RowValue(options, o) \in Values(o)
         /\ o \notin DialogOptions => RowValue(options, o) = options[o]
BY ValuesOf DEF RowValue, Valued

\* One row is changed or inserted, or none; the others stay where they are.
LEMMA PutOf ==
  ASSUME NEW tb, TableFits(tb), NEW o \in Options, NEW v \in Values(o)
  PROVE  /\ TableFits(Put(tb, o, v))
         /\ \A i \in DOMAIN tb :
              /\ i \in DOMAIN Put(tb, o, v)
              /\ Put(tb, o, v)[i].name = tb[i].name
              /\ tb[i].name # o => Put(tb, o, v)[i] = tb[i]
         /\ <<o, v>> \notin Quoted => \E i \in DOMAIN Put(tb, o, v) :
              Put(tb, o, v)[i].name = o /\ Put(tb, o, v)[i].value = v
<1> DEFINE new == [name |-> o, value |-> v]
           R == [name : Options, value : 0 .. 3]
<1>1. new \in R /\ new.name = o /\ new.value = v
  BY ValuesOf
<1>2. tb \in Seq(R) /\ \A i \in DOMAIN tb : tb[i].value \in Values(tb[i].name)
  BY DEF TableFits
<1>3. CASE <<o, v>> \in Quoted
  BY <1>3 DEF Put
<1>4. CASE <<o, v>> \notin Quoted /\ \E i \in DOMAIN tb : tb[i].name = o
  <2> DEFINE P == [i \in DOMAIN tb |-> IF tb[i].name = o THEN new ELSE tb[i]]
  <2>1. Put(tb, o, v) = P
    BY <1>4 DEF Put
  <2>2. P \in Seq(R)
    BY <1>1, <1>2
  <2>3. DOMAIN P = DOMAIN tb /\ \A i \in DOMAIN tb :
          (tb[i].name = o => P[i] = new) /\ (tb[i].name # o => P[i] = tb[i])
    OBVIOUS
  <2> HIDE DEF P, new, R
  <2>4. \A i \in DOMAIN P : P[i].value \in Values(P[i].name) /\ P[i].name = tb[i].name
    BY <1>1, <1>2, <2>3
  <2>5. \E i \in DOMAIN P : P[i].name = o /\ P[i].value = v
    BY <1>1, <1>4, <2>3
  <2> QED BY <2>1, <2>2, <2>3, <2>4, <2>5 DEF TableFits, R
<1>5. CASE <<o, v>> \notin Quoted /\ ~ \E i \in DOMAIN tb : tb[i].name = o
  <2> DEFINE P == Append(tb, new)
  <2>1. Put(tb, o, v) = P
    BY <1>5 DEF Put
  <2> HIDE DEF new, R
  <2>2. /\ P \in Seq(R) /\ DOMAIN P = 1 .. Len(tb) + 1 /\ DOMAIN tb = 1 .. Len(tb)
        /\ Len(tb) \in Nat /\ P[Len(tb) + 1] = new /\ \A i \in DOMAIN tb : P[i] = tb[i]
    BY <1>1, <1>2
  <2> HIDE DEF P
  <2>3. \A i \in DOMAIN P : P[i].value \in Values(P[i].name)
    <3> TAKE i \in DOMAIN P
    <3>1. i \in DOMAIN tb \/ i = Len(tb) + 1
      BY <2>2
    <3> QED BY <1>1, <1>2, <2>2, <3>1
  <2>4. \E i \in DOMAIN P : P[i].name = o /\ P[i].value = v
    <3>1. Len(tb) + 1 \in DOMAIN P
      BY <2>2
    <3> QED BY <1>1, <2>2, <3>1
  <2>5. \A i \in DOMAIN tb : i \in DOMAIN P
    BY <2>2
  <2> QED BY <2>1, <2>2, <2>3, <2>4, <2>5 DEF TableFits, R
<1> QED BY <1>3, <1>4, <1>5

\* Widgets, and a copy that takes some of its options from another.
LEMMA WidgetsOf ==
  ASSUME NEW options, Valued(options, Options)
  PROVE  Valued(WidgetsFor(options), WidgetOptions)
BY ValuesOf, Groups DEF WidgetsFor, Valued

LEMMA TakeOf ==
  ASSUME NEW S, NEW f, Valued(f, S), NEW g, NEW T, \A o \in S \cap T : g[o] \in Values(o)
  PROVE  /\ Valued(Take(f, g, T), S)
         /\ \A o \in S : Take(f, g, T)[o] = IF o \in T THEN g[o] ELSE f[o]
BY DEF Take, Valued

LEMMA WindowInit == Init => WindowInv
BY ValuesOf, WidgetsOf DEF Init, WindowInv, WindowFollowsOptions, Only, Valued

LEMMA WindowGone ==
  ASSUME WindowInv, Gone
  PROVE  WindowInv'
<1>1. Valued(lt', Options) /\ Valued(widget', WidgetOptions)
  BY ValuesOf, WidgetsOf DEF Gone
<1>2. DOMAIN bar' = BarOptions /\ menuAuto' \in 0 .. 1 /\ ~running'
  BY DEF Gone, Only
<1> QED BY <1>1, <1>2 DEF WindowInv, WindowFollowsOptions

\* What a start reads.
LEMMA LoadedOf ==
  ASSUME TableFits(file), NEW wrong, \A o \in Misread : wrong[o] \in Values(o)
  PROVE  /\ Valued(Loaded(wrong), Options)
         /\ RowsInPlace => \A o \in Options : Place(o) \in DOMAIN file =>
              Loaded(wrong)[o] = file[Place(o)].value
<1>1. ASSUME NEW o \in Options PROVE Loaded(wrong)[o] \in Values(o)
  <2>1. CASE Place(o) \notin DOMAIN file
    BY <2>1, ValuesOf DEF Loaded, Valued
  <2>2. CASE o \in Misread
    BY <2>2 DEF Loaded, Misread
  <2>3. CASE Place(o) \in DOMAIN file /\ o \notin Misread
    <3>1. file[Place(o)].name = o
      BY <2>3 DEF Misread
    <3> QED BY <2>3, <3>1 DEF Loaded, TableFits
  <2> QED BY <2>1, <2>2, <2>3
<1>2. ASSUME RowsInPlace, NEW o \in Options, Place(o) \in DOMAIN file
      PROVE  Loaded(wrong)[o] = file[Place(o)].value
  <2>1. file[Place(o)].name \in Options /\ Place(file[Place(o)].name) = Place(o)
    BY <1>2, NameOf DEF RowsInPlace
  <2>2. file[Place(o)].name = o
    BY <2>1, PlaceOf
  <2> QED BY <1>2, <2>2 DEF Loaded, Misread
<1>3. DOMAIN Loaded(wrong) = Options
  BY DEF Loaded
<1> QED BY <1>1, <1>2, <1>3 DEF Valued

LEMMA WindowStart ==
  ASSUME WindowInv, TableFits(file), Start
  PROVE  WindowInv'
<1>1. /\ widget' = WidgetsFor(lt')
      /\ bar' = Only(lt', BarOptions) /\ menuAuto' = lt'[AutoSave]
  BY DEF Start
<1>2. Valued(lt', Options)
  <2>1. PICK wrong : (\A o \in Misread : wrong[o] \in Values(o)) /\ lt' = Loaded(wrong)
    BY DEF Start
  <2> QED BY <2>1, LoadedOf
<1>3. Valued(widget', WidgetOptions)
  BY <1>1, <1>2, WidgetsOf
<1>4. menuAuto' \in 0 .. 1
  <2>1. AutoSave \in Options /\ AutoSave \notin DialogOptions
    BY AutoSaveApart
  <2> QED BY <1>1, <1>2, <2>1, ValuesOf DEF Valued
<1>5. DOMAIN bar' = BarOptions /\ WindowFollowsOptions'
  BY <1>1 DEF Only, WindowFollowsOptions
<1> QED BY <1>1, <1>2, <1>3, <1>4, <1>5 DEF WindowInv

\* A step that leaves the window alone.
LEMMA WindowStays ==
  ASSUME WindowInv, UNCHANGED <<running, viewVars, menuAuto, stale>>,
         Valued(lt', Options), Valued(widget', WidgetOptions),
         \A o \in BarOptions \cup {AutoSave} : lt'[o] = lt[o]
  PROVE  WindowInv'
BY DEF WindowInv, WindowFollowsOptions, viewVars

LEMMA WindowApply ==
  ASSUME WindowInv, ApplyWidgets, Valued(widget', WidgetOptions)
  PROVE  WindowInv'
<1> DEFINE S == WidgetOptions \ LiveOptions
<1>1. /\ lt' = Take(lt, widget, S) /\ bar' = Only(widget, BarOptions)
      /\ stale' = stale \ BarOptions /\ UNCHANGED <<running, menuAuto>>
  BY DEF ApplyWidgets
<1>2. /\ Valued(lt', Options)
      /\ \A o \in Options : lt'[o] = IF o \in S THEN widget[o] ELSE lt[o]
  BY <1>1, TakeOf DEF WindowInv, Valued
<1>3. BarOptions \subseteq S /\ BarOptions \subseteq Options
      /\ AutoSave \notin S /\ AutoSave \notin BarOptions /\ AutoSave \in Options
  BY Groups, OptionsAssumption DEF LookOptions
<1> HIDE DEF S
<1>4. DOMAIN bar' = BarOptions /\ \A o \in BarOptions : bar'[o] = lt'[o]
  BY <1>1, <1>2, <1>3 DEF Only
<1>5. AutoSave \notin stale' => AutoSave \notin stale /\ lt'[AutoSave] = lt[AutoSave]
  BY <1>1, <1>2, <1>3
<1>6. WindowFollowsOptions'
  BY <1>1, <1>4, <1>5 DEF WindowInv, WindowFollowsOptions
<1> QED BY <1>1, <1>2, <1>4, <1>6 DEF WindowInv

\* The View menu puts a bar right, or leaves it as wrong as it was.
LEMMA WindowViewMenu ==
  ASSUME WindowInv, NEW clicked \in SUBSET BarOptions, ViewMenu(clicked)
  PROVE  WindowInv'
<1> DEFINE on == [o \in BarOptions |-> IF o \in clicked THEN 1 - lt[o] ELSE lt[o]]
           ran == {o \in BarOptions : menuBar[o] # lt[o]} \cup clicked
<1>1. /\ bar' = Take(bar, on, ran) /\ lt' = Take(lt, on, ran)
      /\ widget' = Take(widget, on, ran)
      /\ stale' = stale \ {o \in BarOptions : bar'[o] = lt'[o]}
      /\ UNCHANGED <<running, menuAuto>>
  BY DEF ViewMenu
<1>2. \A o \in BarOptions : on[o] \in Values(o)
  <2>1. \A o \in BarOptions : o \in Options /\ o \notin DialogOptions
    BY Groups, OptionsAssumption
  <2>2. \A o \in BarOptions : lt[o] \in 0 .. 1
    BY <2>1, ValuesOf DEF WindowInv, Valued
  <2> QED BY <2>1, <2>2, ValuesOf
<1>3. ran \subseteq BarOptions
  OBVIOUS
<1>4. AutoSave \notin BarOptions /\ AutoSave \in Options /\ BarOptions \subseteq Options
  BY Groups, AutoSaveApart
<1> HIDE DEF on, ran
<1>5. /\ Valued(lt', Options)
      /\ \A o \in Options : lt'[o] = IF o \in ran THEN on[o] ELSE lt[o]
  BY <1>1, <1>2, <1>3, TakeOf DEF WindowInv
<1>6. Valued(widget', WidgetOptions)
  BY <1>1, <1>2, <1>3, TakeOf DEF WindowInv
<1>7. /\ DOMAIN bar' = BarOptions
      /\ \A o \in BarOptions : bar'[o] = IF o \in ran THEN on[o] ELSE bar[o]
  BY <1>1 DEF Take, WindowInv
<1>8. running => \A o \in BarOptions \ stale' : bar'[o] = lt'[o]
  BY <1>1, <1>4, <1>5, <1>7 DEF WindowInv, WindowFollowsOptions
<1>9. running /\ AutoSave \notin stale' => menuAuto = lt'[AutoSave]
  BY <1>1, <1>3, <1>4, <1>5 DEF WindowInv, WindowFollowsOptions
<1> QED BY <1>1, <1>5, <1>6, <1>7, <1>8, <1>9 DEF WindowInv, WindowFollowsOptions

\* One step of each action of Next.
LEMMA WindowNext == WindowInv /\ TableFits(file) /\ [Next]_vars => WindowInv'
<1> SUFFICES ASSUME WindowInv, TableFits(file), [Next]_vars PROVE WindowInv'
  OBVIOUS
<1>0. /\ Valued(lt, Options) /\ Valued(widget, WidgetOptions)
      /\ AutoSave \notin LookOptions \cup KeyOptions /\ AutoSave \notin BarOptions
      /\ LookOptions \subseteq WidgetOptions /\ WidgetOptions \subseteq Options
      /\ LookOptions \cap BarOptions = {} /\ LiveOptions \subseteq LookOptions
      /\ AutoSave \in Options /\ BarOptions \subseteq Options /\ KeyOptions \subseteq WidgetOptions
  BY Groups, AutoSaveApart DEF WindowInv, LookOptions
<1>1. CASE Start
  BY <1>1, WindowStart
<1>2. CASE Exit
  BY <1>0, <1>2, WindowGone, WindowStays DEF Exit, dialogVars
<1>3. CASE Crash
  BY <1>3, WindowGone DEF Crash
<1>4. CASE SaveNow
  BY <1>0, <1>4, WindowStays DEF SaveNow, dialogVars
<1>18. CASE WriteNext
  BY <1>0, <1>18, WindowStays DEF WriteNext, dialogVars
<1>19. CASE WriteLast
  BY <1>0, <1>19, WindowGone, WindowStays DEF WriteLast, dialogVars
<1>5. ASSUME NEW o \in WidgetOptions, NEW v \in Values(o), SetWidget(o, v) PROVE WindowInv'
  <2>1. Valued(widget', WidgetOptions)
    BY <1>0, <1>5 DEF SetWidget, Valued
  <2> QED BY <1>0, <1>5, <2>1, WindowStays DEF SetWidget
<1>6. ASSUME NEW o \in LiveOptions, NEW v \in Values(o), SetLive(o, v) PROVE WindowInv'
  <2>1. Valued(widget', WidgetOptions) /\ Valued(lt', Options)
    BY <1>0, <1>6 DEF SetLive, Valued
  <2>2. \A p \in BarOptions \cup {AutoSave} : lt'[p] = lt[p]
    BY <1>0, <1>6 DEF SetLive, Valued
  <2> QED BY <1>6, <2>1, <2>2, WindowStays DEF SetLive
<1>7. CASE ShowDialog \/ \E l \in Languages : SelectLanguage(l)
  BY <1>0, <1>7, WindowStays DEF ShowDialog, SelectLanguage
<1>8. CASE Apply
  BY <1>0, <1>8, WindowApply DEF Apply
<1>9. ASSUME NEW options, Valued(options, Options), CloseDialog(options)
      PROVE  Valued(widget', WidgetOptions)
  <2>1. \A o \in LookOptions \cup KeyOptions : options[o] \in Values(o)
    BY <1>0, <1>9 DEF Valued
  <2> QED BY <1>0, <1>9, <2>1, TakeOf DEF CloseDialog
<1>10. CASE Ok
  <2>1. lt' = Take(lt, widget, WidgetOptions \ LiveOptions) /\ ApplyWidgets /\ CloseDialog(lt')
    BY <1>10 DEF Ok, ApplyWidgets
  <2>2. Valued(lt', Options)
    BY <1>0, <2>1, TakeOf DEF Valued
  <2> QED BY <1>9, <2>1, <2>2, WindowApply
<1>11. CASE Cancel
  <2>1. Valued(widget', WidgetOptions)
    BY <1>0, <1>9, <1>11 DEF Cancel
  <2> QED BY <1>0, <1>11, <2>1, WindowStays DEF Cancel
<1>12. CASE Reset
  <2>1. lt' = Default /\ widget' = Take(widget, Default, LookOptions)
        /\ stale' = BarOptions \cup {AutoSave}
        /\ UNCHANGED <<running, viewVars, menuAuto>>
    BY <1>12 DEF Reset
  <2>2. Valued(lt', Options) /\ Valued(widget', WidgetOptions)
    <3>1. \A o \in LookOptions : Default[o] \in Values(o)
      BY <1>0, ValuesOf DEF Valued
    <3> QED BY <1>0, <2>1, <3>1, ValuesOf, TakeOf
  <2> QED BY <2>1, <2>2 DEF WindowInv, WindowFollowsOptions, viewVars
<1>13. ASSUME NEW clicked \in SUBSET BarOptions, ViewMenu(clicked) PROVE WindowInv'
  BY <1>13, WindowViewMenu
<1>14. CASE ToggleAutoSave
  <2>1. /\ menuAuto' = 1 - menuAuto /\ lt' = [lt EXCEPT ![AutoSave] = menuAuto']
        /\ stale' = stale \ {AutoSave} /\ UNCHANGED <<running, widget, bar>>
    BY <1>14 DEF ToggleAutoSave, dialogVars, viewVars
  <2>2. menuAuto' \in 0 .. 1 /\ Values(AutoSave) = 0 .. 1
    <3>1. AutoSave \notin DialogOptions
      BY OptionsAssumption DEF WidgetOptions
    <3> QED BY <2>1, <3>1, ValuesOf DEF WindowInv
  <2>3. /\ Valued(lt', Options) /\ lt'[AutoSave] = menuAuto'
        /\ \A o \in BarOptions : lt'[o] = lt[o]
    BY <1>0, <2>1, <2>2 DEF Valued
  <2> QED BY <1>0, <2>1, <2>2, <2>3 DEF WindowInv, WindowFollowsOptions
<1>15. ASSUME NEW t \in Terminals, OpenTab(t) \/ CloseTab(t) PROVE WindowInv'
  BY <1>0, <1>15, WindowStays DEF OpenTab, CloseTab, dialogVars
<1>16. CASE UNCHANGED vars
  BY <1>0, <1>16, WindowStays DEF vars, dialogVars
<1>17. CASE DialogStep
  BY <1>17, <1>5, <1>6, <1>7, <1>8, <1>10, <1>11, <1>12 DEF DialogStep
<1> QED BY <1>1, <1>2, <1>3, <1>4, <1>13, <1>14, <1>15, <1>16, <1>17, <1>18, <1>19
         DEF Next, UserStep

-----------------------------------------------------------------------------
(* The settings table.                                                     *)
(***************************************************************************)
LEMMA FileInit == Init => FileInv
<1>1. <<>> \in Seq([name : Options, value : 0 .. 3]) /\ DOMAIN <<>> = {}
  OBVIOUS
<1> QED BY <1>1, PlaceOf DEF Init, FileInv, TableFits

\* A step that leaves the table alone while no rows are being written.
LEMMA FileStays ==
  ASSUME FileInv, job = "none", UNCHANGED <<created, file, kept, touched>>, row' = 1,
         job' = "none" \/ (job' \in {"save", "exit"} /\ running'),
         running' => running
  PROVE  FileInv'
<1>1. \A o \in Options : ~(Place(o) < 1)
  BY PlaceOf
<1> QED BY <1>1, PlaceOf DEF FileInv, RowsInPlace

\* A row is written: it holds what it should, and the others what they did.
LEMMA WriteRowOf ==
  ASSUME FileInv, Valued(lt, Options), WriteRow
  PROVE  /\ TableFits(file') /\ running /\ created' = created /\ job # "none"
         /\ RowsInPlace' =>
              /\ RowsInPlace
              /\ job # "create" => Holds(file', Order[row], lt)
              /\ \A o \in Options : \A options : o # Order[row] /\ Holds(file, o, options)
                    => Holds(file', o, options)
<1> DEFINE o == Order[row]
           v == IF job = "create" THEN Default[o] ELSE RowValue(lt, o)
<1>1. /\ file' = Put(file, o, v) /\ created' = created /\ job # "none" /\ running
      /\ TableFits(file)
  BY DEF WriteRow, FileInv
<1>2. o \in Options /\ Place(o) = row /\ row \in DOMAIN Order
  BY PlaceOf DEF FileInv
<1>3. v \in Values(o)
  BY <1>2, RowValueOf, ValuesOf DEF Valued
<1>4. job # "create" => v = RowValue(lt, o)
  OBVIOUS
<1> HIDE DEF o, v
<1>5. /\ TableFits(file')
      /\ \A i \in DOMAIN file :
           /\ i \in DOMAIN file' /\ file'[i].name = file[i].name
           /\ file[i].name # o => file'[i] = file[i]
      /\ <<o, v>> \notin Quoted => \E i \in DOMAIN file' : file'[i].name = o /\ file'[i].value = v
  BY <1>1, <1>2, <1>3, PutOf
<1>6. ASSUME RowsInPlace'
      PROVE  /\ RowsInPlace
             /\ job # "create" => Holds(file', o, lt)
             /\ \A p \in Options : \A options : p # o /\ Holds(file, p, options)
                   => Holds(file', p, options)
  <2>1. \A i \in DOMAIN file' : Place(file'[i].name) = i
    BY <1>6 DEF RowsInPlace
  <2>2. RowsInPlace
    BY <1>5, <2>1 DEF RowsInPlace
  <2>3. job # "create" => Holds(file', o, lt)
    BY <1>4, <1>5, <2>1 DEF Holds
  <2>4. ASSUME NEW p \in Options, NEW options, p # o, Holds(file, p, options),
               <<p, RowValue(options, p)>> \notin Quoted
        PROVE  Place(p) \in DOMAIN file' /\ file'[Place(p)].value = RowValue(options, p)
    <3>1. Place(p) \in DOMAIN file /\ file[Place(p)].value = RowValue(options, p)
      BY <2>4 DEF Holds
    <3>2. file[Place(p)].name \in Options /\ Place(file[Place(p)].name) = Place(p)
      BY <1>1, <2>2, <3>1, NameOf DEF RowsInPlace
    <3>3. file[Place(p)].name = p
      BY <3>2, PlaceOf
    <3> QED BY <1>5, <2>4, <3>1, <3>3
  <2> QED BY <2>2, <2>3, <2>4 DEF Holds
<1> QED BY <1>1, <1>5, <1>6 DEF o

LEMMA FileWriteNext ==
  ASSUME FileInv, Valued(lt, Options), WriteNext
  PROVE  FileInv'
<1> DEFINE w == Order[row]
<1>1. /\ row < Len(Order) /\ WriteRow /\ row' = row + 1
      /\ touched' = IF job = "create" THEN touched ELSE touched \cup {w}
      /\ UNCHANGED <<running, lt, job, kept>>
  BY DEF WriteNext
<1>2. /\ row' \in DOMAIN Order /\ row \in DOMAIN Order /\ row \in Nat
      /\ w \in Options /\ Place(w) = row
  BY <1>1, PlaceOf DEF FileInv
<1>3. /\ TableFits(file') /\ running /\ created' = created /\ job # "none"
      /\ RowsInPlace' =>
           /\ RowsInPlace
           /\ job # "create" => Holds(file', w, lt)
           /\ \A o \in Options : \A options : o # w /\ Holds(file, o, options)
                 => Holds(file', o, options)
  BY <1>1, WriteRowOf
<1> HIDE DEF w
<1>4. ASSUME RowsInPlace', kept # NoOptions, NEW o \in Options \ touched'
      PROVE  Holds(file', o, kept)
  BY <1>1, <1>3, <1>4 DEF FileInv
<1>5. ASSUME RowsInPlace', job \in {"save", "exit"}, NEW o \in Options, Place(o) < row + 1
      PROVE  Holds(file', o, lt)
  <2>1. CASE o = w
    BY <1>3, <1>5, <2>1
  <2>2. CASE o # w
    <3>1. Place(o) # row
      BY <1>2, <2>2, PlaceOf
    <3>2. Place(o) < row
      BY <1>2, <1>5, <3>1, PlaceOf
    <3> QED BY <1>3, <1>5, <2>2, <3>2 DEF FileInv
  <2> QED BY <2>1, <2>2
<1> QED BY <1>1, <1>2, <1>3, <1>4, <1>5 DEF FileInv

LEMMA FileWriteLast ==
  ASSUME FileInv, Valued(lt, Options), WriteLast
  PROVE  FileInv'
<1> DEFINE w == Order[row]
<1>1. /\ row = Len(Order) /\ WriteRow /\ row' = 1 /\ job' = "none"
      /\ job = "create" => UNCHANGED <<kept, touched>>
      /\ job # "create" => kept' = lt /\ touched' = {}
  BY DEF WriteLast
<1>2. 1 \in DOMAIN Order /\ w \in Options /\ Place(w) = row
  BY PlaceOf DEF FileInv
<1>3. /\ TableFits(file') /\ running /\ created' = created /\ job # "none"
      /\ RowsInPlace' =>
           /\ RowsInPlace
           /\ job # "create" => Holds(file', w, lt)
           /\ \A o \in Options : \A options : o # w /\ Holds(file, o, options)
                 => Holds(file', o, options)
  BY <1>1, WriteRowOf
<1> HIDE DEF w
<1>4. ASSUME RowsInPlace', kept' # NoOptions, NEW o \in Options
      PROVE  Holds(file', o, kept')
  <2>1. job \in {"save", "exit"} /\ kept' = lt
    BY <1>1, <1>3, <1>4 DEF FileInv
  <2>2. CASE o = w
    BY <1>3, <1>4, <2>1, <2>2
  <2>3. CASE o # w
    <3>1. Place(o) # row
      BY <1>2, <2>3, PlaceOf
    <3>2. Place(o) < row
      BY <1>1, <3>1, PlaceOf
    <3> QED BY <1>3, <1>4, <2>1, <2>3, <3>2 DEF FileInv
  <2> QED BY <2>2, <2>3
<1>5. kept' # NoOptions => Valued(kept', Options) /\ created'
  BY <1>1, <1>3 DEF FileInv
<1>6. running' => created'
  BY <1>3 DEF FileInv
<1> QED BY <1>1, <1>2, <1>3, <1>4, <1>5, <1>6 DEF FileInv

LEMMA FileStart ==
  ASSUME FileInv, Start
  PROVE  /\ FileInv'
         /\ kept # NoOptions /\ RowsInPlace =>
              \A o \in Options \ (DialogOptions \cup touched) :
                 <<o, kept[o]>> \notin Quoted => lt'[o] = kept[o]
<1>1. PICK wrong : (\A o \in Misread : wrong[o] \in Values(o)) /\ lt' = Loaded(wrong)
  BY DEF Start
<1>2. /\ running' /\ created' /\ job' = IF created THEN "none" ELSE "create"
      /\ UNCHANGED <<file, row, kept, touched>> /\ row = 1
  BY DEF Start, FileInv
<1>3. FileInv'
  BY <1>2 DEF FileInv, RowsInPlace
<1>4. ASSUME kept # NoOptions, RowsInPlace,
             NEW o \in Options \ (DialogOptions \cup touched), <<o, kept[o]>> \notin Quoted
      PROVE  lt'[o] = kept[o]
  <2>1. RowValue(kept, o) = kept[o]
    BY <1>4, RowValueOf DEF FileInv
  <2>2. Holds(file, o, kept)
    BY <1>4 DEF FileInv
  <2>3. Place(o) \in DOMAIN file /\ file[Place(o)].value = kept[o]
    BY <1>4, <2>1, <2>2 DEF Holds
  <2> QED BY <1>1, <1>4, <2>3, LoadedOf DEF FileInv
<1> QED BY <1>3, <1>4

\* One step of each action of Next.
LEMMA FileNext == FileInv /\ Valued(lt, Options) /\ [Next]_vars => FileInv'
<1> SUFFICES ASSUME FileInv, Valued(lt, Options), [Next]_vars PROVE FileInv'
  OBVIOUS
<1>1. CASE Start
  BY <1>1, FileStart
<1>2. CASE Crash
  <2>1. row' = 1 /\ job' = "none" /\ ~running' /\ UNCHANGED <<created, file, kept, touched>>
    BY <1>2 DEF Crash, Gone
  <2> QED BY <2>1, PlaceOf DEF FileInv, RowsInPlace
<1>3. CASE WriteNext \/ WriteLast
  BY <1>3, FileWriteNext, FileWriteLast
<1>4. CASE job = "none" /\ (Exit \/ SaveNow)
  <2>1. row = 1 /\ running
    BY <1>4 DEF FileInv, Exit, SaveNow
  <2>2. CASE SaveNow
    BY <1>4, <2>1, <2>2, FileStays DEF SaveNow
  <2>3. CASE Exit
    BY <1>4, <2>1, <2>3, FileStays DEF Exit, Gone
  <2> QED BY <1>4, <2>2, <2>3
<1>5. CASE job = "none" /\ UNCHANGED <<fileVars, running>>
  BY <1>5, FileStays DEF fileVars, FileInv
<1>6. CASE UNCHANGED vars
  BY <1>6 DEF vars, fileVars, FileInv, RowsInPlace
<1>7. ASSUME DialogStep PROVE UNCHANGED <<fileVars, running>>
  BY <1>7 DEF DialogStep, SetWidget, SetLive, SelectLanguage, ShowDialog, Apply, Ok, Cancel,
              Reset, ApplyWidgets
<1>8. ASSUME (\E o \in BarOptions : ViewMenu({o})) \/ ViewMenu({}) \/ ToggleAutoSave
              \/ \E t \in Terminals : OpenTab(t) \/ CloseTab(t)
      PROVE  UNCHANGED <<fileVars, running>>
  BY <1>8 DEF ViewMenu, ToggleAutoSave, OpenTab, CloseTab
<1> QED BY <1>1, <1>2, <1>3, <1>4, <1>5, <1>6, <1>7, <1>8 DEF Next, UserStep

OptionsInv == WindowInv /\ FileInv

LEMMA OptionsNext == OptionsInv /\ [Next]_vars => OptionsInv'
BY WindowNext, FileNext DEF OptionsInv, WindowInv, FileInv

\* Outside the dialog too every copy agrees with its option, or is one that a Reset
\* left behind: the bars on the screen, and the check item that decides whether the
\* options and the sessions are saved.
THEOREM WindowAgrees == Spec => []WindowFollowsOptions
<1>1. OptionsInv => WindowFollowsOptions
  BY DEF OptionsInv, WindowInv
<1>2. Init => OptionsInv
  BY WindowInit, FileInit DEF OptionsInv
<1> QED BY OptionsNext, <1>1, <1>2, PTL DEF Spec

\* While the rows are in their places a start has the options of the last completed
\* save, however many starts, unsaved changes, crashes in the middle of a save and
\* failing statements lie between: all but the start-up dialog, the values with an
\* apostrophe and the rows that a save cut short has come to.
THEOREM SavedOptionsComeBack == Spec => SavedComesBack
<1> DEFINE Back == ~running /\ running' /\ kept # NoOptions /\ RowsInPlace =>
                     \A o \in Options \ (DialogOptions \cup touched) :
                        <<o, kept[o]>> \notin Quoted => lt'[o] = kept[o]
<1>1. OptionsInv /\ [Next]_vars => [Back]_vars
  <2> SUFFICES ASSUME OptionsInv, Next, ~running, running' PROVE Back
    OBVIOUS
  <2>1. FileInv /\ job = "none"
    BY DEF OptionsInv, FileInv
  <2>2. ~Crash /\ ~WriteNext /\ ~WriteLast
    BY <2>1 DEF Crash, WriteNext, WriteLast, WriteRow
  <2>3. ~(Exit \/ SaveNow)
    BY DEF Exit, SaveNow
  <2>4. ~DialogStep
    BY DEF DialogStep, SetWidget, SetLive, SelectLanguage, ShowDialog, Apply, Ok, Cancel,
           Reset, ApplyWidgets
  <2>5. ~((\E o \in BarOptions : ViewMenu({o})) \/ ViewMenu({}) \/ ToggleAutoSave
          \/ \E t \in Terminals : OpenTab(t) \/ CloseTab(t))
    BY DEF ViewMenu, ToggleAutoSave, OpenTab, CloseTab
  <2>6. Start
    BY <2>2, <2>3, <2>4, <2>5 DEF Next, UserStep
  <2> QED BY <2>1, <2>6, FileStart
<1>2. Init => OptionsInv
  BY WindowInit, FileInit DEF OptionsInv
<1>3. SavedComesBack <=> [][Back]_vars
  BY DEF SavedComesBack
<1> QED BY OptionsNext, <1>1, <1>2, <1>3, PTL DEF Spec

-----------------------------------------------------------------------------
(* The form of a session.  Whatever the form goes through, a session has   *)
(* the host and the kind of password field that its protocol reads; what   *)
(* the form sets is saved while auto save is on; and Ok in the options     *)
(* leaves alone what the user has not changed.                             *)
(***************************************************************************)
\* A session that its protocol can read.
Good(s) ==
  /\ s \in Session
  /\ PasswordFits(s)
  /\ s.proto \in LoginProtocols => s.host \in Hosts

GoodTable(table) == \A n \in DOMAIN table : Good(table[n])

\* The form shows a session there is, under that session's protocol.
Placed(f) ==
  f.flag = "options" => f.uname \in DOMAIN rec /\ f.nproto = rec[f.uname].proto

\* What the button can make a good session of.
Fits(f) ==
  /\ f.nproto \in HostProtocols /\ f.connect => f.flag = "none" \/ f.host \in Hosts
  /\ f.nproto = "shell" => f.program \in Programs

FormInv ==
  /\ DOMAIN rec \subseteq Names /\ GoodTable(rec)
  /\ DOMAIN rows \subseteq Names /\ GoodTable(rows)
  /\ form \in Form /\ Placed(form) /\ Fits(form)
  /\ asking => form.flag = "options" /\ form.nproto = "ssh"
  /\ remember \subseteq DOMAIN rec

\* What is proved of IInv is proved of the property.
LEMMA FormInvImplies == FormInv => SessionsFit
BY DEF FormInv, GoodTable, Good, SessionsFit, PasswordsFit, HostsAreNamed

-----------------------------------------------------------------------------
\* A table with one good session more, or another one, is good.
LEMMA UpdatedGood ==
  ASSUME NEW table, GoodTable(table), NEW n, NEW s, Good(s)
  PROVE  GoodTable(Updated(table, n, s)) /\ DOMAIN Updated(table, n, s) = DOMAIN table \cup {n}
BY DEF GoodTable, Updated

\* The row is written or refused.
LEMMA SessionWritten ==
  ASSUME NEW n, NEW s, WriteSession(n, s)
  PROVE  /\ rows' \in {rows, Updated(rows, n, s)} /\ refused' \subseteq refused \cup {n}
         /\ \A m : m # n => (m \in refused' <=> m \in refused)
         /\ n \notin refused' => rows' = Updated(rows, n, s)
BY DEF WriteSession

\* A new session, or a good one, becomes the session that the form describes.
LEMMA CreatedGood ==
  ASSUME FormInv, form.flag # "none", form.connect, Creatable, NEW was \in Session,
         form.nproto \in LoginProtocols => was.password \in Passwords \cup {""}
  PROVE  Good(Created(was))
<1>1. form.nproto \in LoginProtocols \cup {"shell", "serial"}
  BY DEF Creatable
<1>2. /\ form.host \in Hosts \cup {""} /\ form.login \in Logins \cup {""}
      /\ form.device \in Devices \cup {""} /\ form.program \in Programs \cup {""}
      /\ form.port \in Ports \cup {0, 22, 23} /\ form.command \in Commands \cup {""}
      /\ form.nproto \in Protocols
  BY DEF FormInv, Form
<1>3. form.nproto \in LoginProtocols => form.host \in Hosts
  BY DEF FormInv, Fits, HostProtocols
<1>4. form.nproto = "shell" => form.program \in Programs
  BY DEF FormInv, Fits
<1>5. form.nproto = "serial" => form.device \in Devices
  BY <1>2 DEF Creatable, LoginProtocols
<1>6. was.login \in Logins \cup {""}
  BY DEF Session
<1>7. Created(was) \in Session
  BY <1>1, <1>2, <1>3, <1>4, <1>5, <1>6 DEF Created, Session, LoginProtocols, Protocols
<1>8. PasswordFits(Created(was))
  BY <1>1, <1>4, <1>5 DEF Created, PasswordFits, LoginProtocols
<1>9. Created(was).proto \in LoginProtocols => Created(was).host \in Hosts
  BY <1>3 DEF Created, LoginProtocols
<1> QED BY <1>7, <1>8, <1>9 DEF Good

\* The provers take the values of the two check boxes as they take any others.
Switches == BOOLEAN

LEMMA FormShape ==
  Form = [flag : {"none", "new", "options"}, uname : Names \cup {NoName}, nproto : Protocols,
          host : Hosts \cup {""}, login : Logins \cup {""}, port : Ports \cup {0, 22, 23},
          device : Devices \cup {""}, program : Programs \cup {""},
          command : Commands \cup {""}, connect : Switches, auth : Switches,
          typed : SUBSET Fields]
BY Zenon DEF Form, Switches

LEMMA FormWithProtocol ==
  ASSUME NEW f \in Form, NEW p \in Protocols
  PROVE  [f EXCEPT !.nproto = p] \in Form /\ [f EXCEPT !.nproto = p].flag = f.flag
BY FormShape

\* What the user does to a form makes a form of it.
LEMMA FormWith ==
  ASSUME NEW f \in Form, NEW c \in Switches, NEW field \in Fields
  PROVE  /\ \A h \in Hosts \cup {""} :
              [f EXCEPT !.host = h, !.connect = c, !.typed = @ \cup {field}] \in Form
         /\ \A l \in Logins \cup {""} :
              [f EXCEPT !.login = l, !.typed = @ \cup {field}] \in Form
         /\ \A p \in Ports : [f EXCEPT !.port = p, !.typed = @ \cup {field}] \in Form
         /\ \A d \in Devices : [f EXCEPT !.device = d, !.typed = @ \cup {field}] \in Form
         /\ \A p \in Programs : [f EXCEPT !.program = p, !.typed = @ \cup {field}] \in Form
         /\ \A k \in Commands \cup {""} :
              [f EXCEPT !.command = k, !.typed = @ \cup {field}] \in Form
         /\ [f EXCEPT !.auth = c] \in Form
<1>1. f.typed \cup {field} \in SUBSET Fields
  BY FormShape
<1>3. \A h \in Hosts \cup {""} :
        [f EXCEPT !.host = h, !.connect = c, !.typed = @ \cup {field}] \in Form
  BY <1>1, FormShape
<1>4. \A l \in Logins \cup {""} : [f EXCEPT !.login = l, !.typed = @ \cup {field}] \in Form
  BY <1>1, FormShape
<1>5. \A p \in Ports : [f EXCEPT !.port = p, !.typed = @ \cup {field}] \in Form
  BY <1>1, FormShape
<1>6. \A d \in Devices : [f EXCEPT !.device = d, !.typed = @ \cup {field}] \in Form
  BY <1>1, FormShape
<1>7. \A p \in Programs : [f EXCEPT !.program = p, !.typed = @ \cup {field}] \in Form
  BY <1>1, FormShape
<1>8. \A k \in Commands \cup {""} : [f EXCEPT !.command = k, !.typed = @ \cup {field}] \in Form
  BY <1>1, FormShape
<1>9. [f EXCEPT !.auth = c] \in Form
  BY FormShape
<1> QED BY <1>3, <1>4, <1>5, <1>6, <1>7, <1>8, <1>9

\* The widgets that a protocol shows are those of its kind of session.
LEMMA ShowFits ==
  ASSUME FormInv, NEW f \in Form, f.flag # "none", Placed(f)
  PROVE  /\ Show(f) \in Form /\ Placed(Show(f)) /\ Fits(Show(f))
         /\ Show(f).flag = f.flag /\ Show(f).nproto = f.nproto
<1>1. /\ Show(f).flag = f.flag /\ Show(f).nproto = f.nproto /\ Show(f).uname = f.uname
      /\ Show(f).program = ProgramShown(f) /\ Show(f).connect = ConnectShown(f)
  BY DEF Show, Form
<1>2. ASSUME f.flag = "options"
      PROVE  /\ rec[f.uname] \in Session
             /\ PasswordFits(rec[f.uname])
             /\ f.nproto \in HostProtocols => rec[f.uname].host \in Hosts
  BY <1>2 DEF FormInv, GoodTable, Good, Placed, PasswordFits, HostProtocols, LoginProtocols
<1>3. f.flag \in {"new", "options"} /\ f.nproto \in Protocols
  BY DEF Form
<1>4. DefaultPort(f.nproto) \in Ports \cup {0, 22, 23}
  BY <1>3 DEF DefaultPort, Protocols
<1>5. DeviceShown(f) \in Devices \cup {""}
  BY FormAssumption DEF DeviceShown
<1>6. ProgramShown(f) \in Programs \cup {""} /\ (f.nproto = "shell" => ProgramShown(f) \in Programs)
  BY FormAssumption DEF ProgramShown
<1>7. CommandShown(f) \in Commands \cup {""}
  <2>1. f.command \in Commands \cup {""}
    BY DEF Form
  <2> QED BY <1>2, <2>1 DEF CommandShown, Session
<1>8. ConnectShown(f) \in Switches /\ TRUE \in Switches
  BY Zenon DEF ConnectShown, Switches
<1> DEFINE known == f.flag = "options" /\ f.nproto \in HostProtocols
           host == IF known THEN rec[f.uname].host ELSE ""
           login == IF known THEN rec[f.uname].login ELSE ""
<1>9. host \in Hosts \cup {""} /\ login \in Logins \cup {""}
  BY <1>2 DEF Session
<1>10. f.typed \cap {"command"} \in SUBSET Fields
  BY DEF Fields
<1>11. Show(f) = [flag |-> f.flag, uname |-> f.uname, nproto |-> f.nproto,
                  host |-> host, login |-> login, port |-> DefaultPort(f.nproto),
                  device |-> DeviceShown(f), program |-> ProgramShown(f),
                  command |-> CommandShown(f), connect |-> ConnectShown(f),
                  auth |-> TRUE, typed |-> f.typed \cap {"command"}]
  BY DEF Show
<1> HIDE DEF known, host, login
<1>12. Show(f).host = host
  BY <1>11
<1>13. Show(f) \in Form
  <2>1. f.flag \in {"none", "new", "options"} /\ f.uname \in Names \cup {NoName}
        /\ f.nproto \in Protocols
    BY DEF Form
  <2> DEFINE typed == f.typed \cap {"command"}
             connect == ConnectShown(f)
             on == TRUE
             port == DefaultPort(f.nproto)
             ports == Ports \cup {0, 22, 23}
  <2>2. typed \in SUBSET Fields
    BY <1>10
  <2>4. connect \in Switches /\ on \in Switches
    BY Zenon, <1>8
  <2>5. port \in ports /\ ports = Ports \cup {0, 22, 23}
    BY <1>4
  <2>6. Form = [flag : {"none", "new", "options"}, uname : Names \cup {NoName},
                nproto : Protocols, host : Hosts \cup {""}, login : Logins \cup {""},
                port : ports, device : Devices \cup {""}, program : Programs \cup {""},
                command : Commands \cup {""}, connect : Switches, auth : Switches,
                typed : SUBSET Fields]
    BY Zenon, FormShape
  <2> HIDE DEF typed, connect, on, port, ports
  <2>3. [flag |-> f.flag, uname |-> f.uname, nproto |-> f.nproto,
         host |-> host, login |-> login, port |-> port,
         device |-> DeviceShown(f), program |-> ProgramShown(f),
         command |-> CommandShown(f), connect |-> connect,
         auth |-> on, typed |-> typed] \in Form
    BY <2>1, <2>2, <2>4, <2>5, <2>6, <1>5, <1>6, <1>7, <1>9
  <2> QED BY Zenon, <1>11, <2>3 DEF typed, connect, on, port
<1>14. Fits(Show(f))
  BY <1>1, <1>2, <1>3, <1>6, <1>12 DEF Fits, ConnectShown, host, known
<1>15. Placed(Show(f))
  BY <1>1 DEF Placed
<1> QED BY <1>1, <1>13, <1>14, <1>15

-----------------------------------------------------------------------------
(* The steps of the form.                                                  *)
(***************************************************************************)
LEMMA NoFormFits == NoForm \in Form /\ Placed(NoForm) /\ Fits(NoForm) /\ NoForm.flag = "none"
BY DEF NoForm, Form, Placed, Fits, Protocols, Fields

LEMMA InitFormInv == FormInit => FormInv
<1> SUFFICES ASSUME FormInit PROVE FormInv
  OBVIOUS
<1>1. DOMAIN rec = {} /\ DOMAIN rows = {}
  BY DEF FormInit, NoSessions
<1>2. form \in Form /\ Placed(form) /\ Fits(form)
  BY NoFormFits DEF FormInit
<1> QED BY <1>1, <1>2 DEF FormInit, FormInv, GoodTable

\* Opening the form, or selecting a protocol, shows the protocol's widgets.
LEMMA ShownIInv ==
  ASSUME FormInv, NEW f \in Form, f.flag # "none", Placed(f), form' = Show(f), ~asking,
         UNCHANGED <<storeVars, asking, remember>>
  PROVE  FormInv'
<1>1. form' \in Form /\ Placed(form') /\ Fits(form')
  BY ShowFits
<1>2. Placed(form)' /\ Fits(form)'
  BY <1>1 DEF Placed, Fits, storeVars
<1>3. GoodTable(rec)' /\ GoodTable(rows)'
  BY DEF FormInv, storeVars, GoodTable
<1> QED BY <1>1, <1>2, <1>3 DEF FormInv, storeVars

LEMMA OpenIInv ==
  ASSUME FormInv, OpenNew \/ (\E n \in DOMAIN rec : OpenOptions(n))
                       \/ (\E p \in Protocols : SelectProtocol(p))
  PROVE  FormInv'
<1>1. CASE OpenNew
  <2> DEFINE f == [NoForm EXCEPT !.flag = "new"]
  <2>1. f \in Form /\ f.flag = "new"
    BY NoFormFits DEF Form, NoForm
  <2>2. ~asking /\ form' = Show(f) /\ UNCHANGED <<storeVars, asking, remember>>
    BY <1>1 DEF OpenNew, MainWindow, FormInv
  <2>3. Placed(f)
    BY <2>1 DEF Placed
  <2> HIDE DEF f
  <2> QED BY <2>1, <2>2, <2>3, ShownIInv
<1>2. ASSUME NEW n \in DOMAIN rec, OpenOptions(n) PROVE FormInv'
  <2> DEFINE f == [NoForm EXCEPT !.flag = "options", !.uname = n, !.nproto = rec[n].proto]
  <2>1. rec[n].proto \in Protocols /\ n \in Names
    BY DEF FormInv, GoodTable, Good, Session
  <2>2. f \in Form /\ f.flag = "options" /\ f.uname = n /\ f.nproto = rec[n].proto
    BY <2>1, NoFormFits DEF Form, NoForm
  <2>3. ~asking /\ form' = Show(f) /\ UNCHANGED <<storeVars, asking, remember>>
    BY <1>2 DEF OpenOptions, MainWindow, FormInv
  <2>4. Placed(f)
    BY <2>2 DEF Placed
  <2> HIDE DEF f
  <2> QED BY <2>2, <2>3, <2>4, ShownIInv
<1>3. ASSUME NEW p \in Protocols, SelectProtocol(p) PROVE FormInv'
  <2> DEFINE f == [form EXCEPT !.nproto = p]
  <2>1. f \in Form /\ f.flag = form.flag
    BY FormWithProtocol DEF FormInv
  <2>2. /\ form.flag = "new" /\ ~asking /\ form' = Show(f)
        /\ UNCHANGED <<storeVars, asking, remember>>
    BY <1>3 DEF SelectProtocol, CanSelectProtocol, FormUp
  <2>3. Placed(f)
    BY <2>1, <2>2 DEF Placed
  <2> HIDE DEF f
  <2> QED BY <2>1, <2>2, <2>3, ShownIInv
<1> QED BY <1>1, <1>2, <1>3

\* What the user enters keeps the form on its session; a host name taken out
\* takes the button with it.
LEMMA EnterIInv ==
  ASSUME FormInv, Enter
  PROVE  FormInv'
<1>1. /\ form \in Form /\ form.flag # "none" /\ ~asking
      /\ UNCHANGED <<storeVars, asking, remember>>
  BY DEF FormInv, Enter, FormUp
<1>2. form' \in Form /\ form'.flag = form.flag /\ form'.uname = form.uname
      /\ form'.nproto = form.nproto
  <2>7. PICK any \in Switches : TRUE
    BY Zenon DEF Switches
  <2>8. {"host", "login", "port", "device", "program", "command"} \subseteq Fields
    BY DEF Fields
  <2>1. CASE \E h \in Hosts \cup {""} : EnterHost(h)
    <3>1. PICK h \in Hosts \cup {""} : EnterHost(h)
      BY <2>1
    <3> DEFINE c == h # ""
    <3>2. c \in Switches /\ "host" \in Fields
      BY Zenon DEF Switches, Fields
    <3>3. form' = [form EXCEPT !.host = h, !.connect = c, !.typed = @ \cup {"host"}]
      BY <3>1 DEF EnterHost
    <3> HIDE DEF c
    <3>4. form' \in Form
      BY <1>1, <3>2, <3>3, FormWith
    <3> QED BY <1>1, <3>3, <3>4, FormShape
  <2>2. CASE \E l \in Logins \cup {""} : EnterLogin(l)
    <3>1. PICK l \in Logins \cup {""} :
            form' = [form EXCEPT !.login = l, !.typed = @ \cup {"login"}]
      BY <2>2 DEF EnterLogin
    <3>2. form' \in Form
      BY <1>1, <2>7, <2>8, <3>1, FormWith
    <3> QED BY <1>1, <3>1, <3>2, FormShape
  <2>3. CASE \E p \in Ports : EnterPort(p)
    <3>1. PICK p \in Ports :
            form' = [form EXCEPT !.port = p, !.typed = @ \cup {"port"}]
      BY <2>3 DEF EnterPort
    <3>2. form' \in Form
      BY <1>1, <2>7, <2>8, <3>1, FormWith
    <3> QED BY <1>1, <3>1, <3>2, FormShape
  <2>4. CASE \E d \in Devices : EnterDevice(d)
    <3>1. PICK d \in Devices :
            form' = [form EXCEPT !.device = d, !.typed = @ \cup {"device"}]
      BY <2>4 DEF EnterDevice
    <3>2. form' \in Form
      BY <1>1, <2>7, <2>8, <3>1, FormWith
    <3> QED BY <1>1, <3>1, <3>2, FormShape
  <2>5. CASE \E p \in Programs : EnterProgram(p)
    <3>1. PICK p \in Programs :
            form' = [form EXCEPT !.program = p, !.typed = @ \cup {"program"}]
      BY <2>5 DEF EnterProgram
    <3>2. form' \in Form
      BY <1>1, <2>7, <2>8, <3>1, FormWith
    <3> QED BY <1>1, <3>1, <3>2, FormShape
  <2>6. CASE \E c \in Commands \cup {""} : EnterCommand(c)
    <3>1. PICK c \in Commands \cup {""} :
            form' = [form EXCEPT !.command = c, !.typed = @ \cup {"command"}]
      BY <2>6 DEF EnterCommand
    <3>2. form' \in Form
      BY <1>1, <2>7, <2>8, <3>1, FormWith
    <3> QED BY <1>1, <3>1, <3>2, FormShape
  <2> QED BY <2>1, <2>2, <2>3, <2>4, <2>5, <2>6 DEF Enter
<1>3. Fits(form)'
  <2>1. CASE \E h \in Hosts \cup {""} : EnterHost(h)
    BY <1>1, <2>1, <1>2, FormShape DEF EnterHost, FormInv, Fits
  <2>2. CASE \E p \in Programs : EnterProgram(p)
    BY <1>1, <2>2, <1>2, FormShape DEF EnterProgram, FormInv, Fits, HostProtocols, LoginProtocols
  <2>3. CASE \/ \E l \in Logins \cup {""} : EnterLogin(l)
             \/ \E p \in Ports : EnterPort(p)
             \/ \E d \in Devices : EnterDevice(d)
             \/ \E c \in Commands \cup {""} : EnterCommand(c)
    BY <1>1, <2>3, <1>2, FormShape
       DEF EnterLogin, EnterPort, EnterDevice, EnterCommand, FormInv, Fits
  <2> QED BY <2>1, <2>2, <2>3 DEF Enter
<1>4. Placed(form)'
  BY <1>1, <1>2 DEF FormInv, Placed, storeVars
<1> QED BY <1>1, <1>2, <1>3, <1>4 DEF FormInv, storeVars, GoodTable

\* The button makes a good session of a form that fits, and saves it.
LEMMA ConnectIInv ==
  ASSUME FormInv, NEW n \in Names, Connect(n)
  PROVE  FormInv'
<1> DEFINE was == IF form.flag = "new" THEN NewSession ELSE rec[n]
<1>1. /\ form.flag # "none" /\ form.connect /\ Creatable /\ ~asking
      /\ rec' = Updated(rec, n, Created(was)) /\ form' = NoForm
      /\ rows' \in {rows, Updated(rows, n, rec'[n])}
      /\ UNCHANGED <<asking, remember>>
  BY SessionWritten DEF Connect, FormUp, CloseForm, SaveCreated, Save, rowVars
<1>4. Good(Created(was))
  <2>1. CASE form.flag = "new"
    <3>1. NewSession \in Session /\ NewSession.password = ""
      BY DEF NewSession, Session, Protocols
    <3>2. Good(Created(NewSession))
      BY <1>1, <3>1, CreatedGood
    <3> QED BY <2>1, <3>2
  <2>2. CASE form.flag # "new"
    <3>1. form.flag = "options" /\ n = form.uname
      BY <1>1, <2>2 DEF FormInv, Form, Connect
    <3>2. n \in DOMAIN rec /\ form.nproto = rec[n].proto
      BY <3>1 DEF FormInv, Placed
    <3>3. rec[n] \in Session /\ PasswordFits(rec[n])
      BY <3>2 DEF FormInv, GoodTable, Good
    <3>4. form.nproto \in LoginProtocols => rec[n].password \in Passwords \cup {""}
      BY <3>2, <3>3 DEF PasswordFits, LoginProtocols
    <3>5. Good(Created(rec[n]))
      BY <1>1, <3>3, <3>4, CreatedGood
    <3> QED BY <2>2, <3>5
  <2> QED BY <2>1, <2>2
<1> HIDE DEF was
<1>5. GoodTable(rec') /\ DOMAIN rec' = DOMAIN rec \cup {n}
  BY <1>1, <1>4, UpdatedGood DEF FormInv
<1>6. Good(rec'[n])
  BY <1>5 DEF GoodTable
<1>7. GoodTable(rows') /\ DOMAIN rows' \subseteq DOMAIN rows \cup {n}
  <2>1. PICK new : new = Updated(rows, n, rec'[n])
    OBVIOUS
  <2>2. GoodTable(rows) /\ GoodTable(new) /\ DOMAIN new = DOMAIN rows \cup {n}
    BY <1>6, <2>1, UpdatedGood DEF FormInv
  <2> QED BY <1>1, <2>1, <2>2
<1>8. form' \in Form /\ Placed(form)' /\ Fits(form)'
  BY <1>1, NoFormFits DEF Placed, Fits
<1>9. GoodTable(rec)' /\ GoodTable(rows)'
  BY <1>5, <1>7 DEF GoodTable
<1> QED BY <1>1, <1>5, <1>7, <1>8, <1>9 DEF FormInv

\* The form goes, or nothing that matters happens to it.
LEMMA CloseIInv ==
  ASSUME FormInv, ConnectFails \/ ConnectRlogin \/ CancelForm
  PROVE  FormInv'
<1>1. ~asking /\ form' \in {form, NoForm} /\ UNCHANGED <<storeVars, asking, remember>>
  BY DEF ConnectFails, ConnectRlogin, CancelForm, CloseForm, FormUp, FormInv
<1>2. form' \in Form /\ Placed(form)' /\ Fits(form)'
  BY <1>1, NoFormFits DEF FormInv, Placed, Fits, storeVars
<1> QED BY <1>1, <1>2 DEF FormInv, storeVars, GoodTable

-----------------------------------------------------------------------------
(* The steps around the form.                                              *)
(***************************************************************************)
\* A session of a login protocol stays good with another login and password.
LEMMA LoginGood ==
  ASSUME NEW s, Good(s), s.proto \in LoginProtocols, NEW l \in Logins \cup {""},
         NEW p \in Passwords \cup {""}
  PROVE  Good([s EXCEPT !.login = l, !.password = p]) /\ Good([s EXCEPT !.password = p])
<1> DEFINE both == [s EXCEPT !.login = l, !.password = p]
           one == [s EXCEPT !.password = p]
<1>1. s \in Session /\ s.host \in Hosts
  BY DEF Good
<1>2. both \in Session /\ one \in Session
  BY <1>1 DEF Session, LoginProtocols
<1>3. /\ both.proto = s.proto /\ both.host = s.host /\ both.password = p
      /\ one.proto = s.proto /\ one.host = s.host /\ one.password = p
  BY <1>1 DEF Session
<1> HIDE DEF both, one
<1>4. PasswordFits(both) /\ PasswordFits(one)
  BY <1>3 DEF PasswordFits, LoginProtocols
<1> QED BY <1>1, <1>2, <1>3, <1>4 DEF Good, both, one

\* What replaces one good record by another under its protocol keeps the form
\* where it is.
LEMMA ReplacedIInv ==
  ASSUME FormInv, NEW n \in DOMAIN rec, NEW s, Good(s), s.proto = rec[n].proto,
         rec' = [rec EXCEPT ![n] = s], UNCHANGED form, asking' \in {asking, FALSE},
         rows' \in {rows, Updated(rows, n, s)}, remember' \subseteq DOMAIN rec
  PROVE  FormInv'
<1>1. DOMAIN rec' = DOMAIN rec /\ \A m \in DOMAIN rec : rec'[m] \in {rec[m], s}
      /\ rec'[m].proto = rec[m].proto
  OBVIOUS
<1>2. GoodTable(rec)'
  BY <1>1 DEF FormInv, GoodTable
<1>3. GoodTable(Updated(rows, n, s)) /\ DOMAIN Updated(rows, n, s) = DOMAIN rows \cup {n}
  BY UpdatedGood DEF FormInv
<1>4. GoodTable(rows') /\ DOMAIN rows' \subseteq DOMAIN rows \cup {n}
  BY <1>3 DEF FormInv
<1>5. GoodTable(rows)'
  BY <1>4 DEF GoodTable
<1>6. form' \in Form /\ Placed(form)' /\ Fits(form)'
  BY <1>1 DEF FormInv, Placed, Fits
<1>7. DOMAIN rec' \subseteq Names /\ DOMAIN rows' \subseteq Names /\ remember' \subseteq DOMAIN rec'
  BY <1>1, <1>4 DEF FormInv
<1>8. asking' => form'.flag = "options" /\ form'.nproto = "ssh"
  BY DEF FormInv
<1> QED BY <1>2, <1>5, <1>6, <1>7, <1>8 DEF FormInv

\* In the password dialog, and in the login dialog of a tab, a password and a
\* login name come into a session that reads them.
LEMMA PasswordIInv ==
  ASSUME FormInv, \/ ToggleAuthentication \/ Properties \/ PasswordCancel
               \/ \E p \in Passwords \cup {""} : PasswordOk(p)
  PROVE  FormInv'
<1>1. CASE ToggleAuthentication
  <2> DEFINE on == ~form.auth
  <2>1. on \in Switches
    BY Zenon DEF Switches
  <2>2. form' = [form EXCEPT !.auth = on] /\ UNCHANGED <<storeVars, asking, remember>> /\ ~asking
    BY <1>1 DEF ToggleAuthentication, FormUp
  <2> HIDE DEF on
  <2>3. PICK field \in Fields : TRUE
    BY DEF Fields
  <2>4. form' \in Form /\ form'.flag = form.flag /\ form'.uname = form.uname
        /\ form'.nproto = form.nproto /\ form'.host = form.host
        /\ form'.program = form.program /\ form'.connect = form.connect
    <3>1. form' \in Form
      BY <2>1, <2>2, <2>3, FormWith DEF FormInv
    <3> QED BY <2>2, <3>1, FormShape DEF FormInv
  <2>5. Placed(form)' /\ Fits(form)'
    BY <2>2, <2>4 DEF FormInv, Placed, Fits, storeVars
  <2> QED BY <2>2, <2>4, <2>5 DEF FormInv, storeVars, GoodTable
<1>2. CASE Properties
  <2>1. form.flag = "options" /\ form.nproto = "ssh" /\ UNCHANGED <<storeVars, form, remember>>
    BY <1>2 DEF Properties
  <2> QED BY <2>1 DEF FormInv, storeVars, GoodTable, Placed, Fits
<1>3. CASE PasswordCancel
  <2>1. asking' = FALSE /\ UNCHANGED <<storeVars, form, remember>>
    BY <1>3 DEF PasswordCancel
  <2> QED BY <2>1 DEF FormInv, storeVars, GoodTable, Placed, Fits
<1>4. ASSUME NEW p \in Passwords \cup {""}, PasswordOk(p) PROVE FormInv'
  <2> DEFINE n == form.uname
             s == [rec[n] EXCEPT !.password = p]
  <2>1. n \in DOMAIN rec /\ rec[n].proto = "ssh"
    BY <1>4 DEF PasswordOk, FormInv, Placed
  <2>2. Good(rec[n])
    BY <2>1 DEF FormInv, GoodTable
  <2>3. Good(s) /\ s.proto = rec[n].proto
    <3>1. rec[n].proto \in LoginProtocols /\ rec[n] \in Session
      BY <2>1, <2>2 DEF LoginProtocols, Good
    <3>2. rec[n].login \in Logins \cup {""}
      BY <3>1 DEF Session
    <3> QED BY <2>2, <3>1, <3>2, LoginGood DEF Session
  <2>4. /\ rec' = [rec EXCEPT ![n] = s] /\ asking' = FALSE /\ UNCHANGED <<form, remember>>
        /\ rows' \in {rows, Updated(rows, n, rec'[n])}
    BY <1>4, SessionWritten DEF PasswordOk, Save, rowVars
  <2>5. rec'[n] = s
    BY <2>1, <2>4
  <2>6. remember' \subseteq DOMAIN rec
    BY <2>4 DEF FormInv
  <2> HIDE DEF n, s
  <2> QED BY <2>1, <2>3, <2>4, <2>5, <2>6, ReplacedIInv
<1> QED BY <1>1, <1>2, <1>3, <1>4

LEMMA OtherIInv ==
  ASSUME FormInv, OtherStep
  PROVE  FormInv'
<1>1. ASSUME NEW n \in DOMAIN rec, NEW l \in Logins, NEW p \in Passwords \cup {""},
             NEW keep \in BOOLEAN, Login(n, l, p, keep)
      PROVE  FormInv'
  <2> DEFINE s == [rec[n] EXCEPT !.login = l, !.password = p]
  <2>1. Good(rec[n]) /\ rec[n].proto \in LoginProtocols
    BY <1>1 DEF FormInv, GoodTable, Login, AsksLogin
  <2>2. Good(s) /\ s.proto = rec[n].proto
    BY <2>1, LoginGood DEF Good, Session
  <2>3. /\ rec' = [rec EXCEPT ![n] = s] /\ UNCHANGED <<form, asking, rows>>
        /\ remember' \subseteq remember \cup {n}
    BY <1>1 DEF Login, rowVars
  <2>4. remember' \subseteq DOMAIN rec
    BY <2>3 DEF FormInv
  <2> HIDE DEF s
  <2> QED BY <2>2, <2>3, <2>4, ReplacedIInv
<1>2. ASSUME NEW n \in Names, LoggedIn(n) PROVE FormInv'
  <2>1. /\ n \in DOMAIN rec /\ rows' \in {rows, Updated(rows, n, rec[n])}
        /\ UNCHANGED <<rec, form, asking, remember>>
    BY <1>2, SessionWritten DEF LoggedIn, FormInv
  <2>2. GoodTable(rows') /\ DOMAIN rows' \subseteq DOMAIN rows \cup {n}
    <3>1. PICK new : new = Updated(rows, n, rec[n])
      OBVIOUS
    <3>2. Good(rec[n]) /\ GoodTable(rows)
      BY <2>1 DEF FormInv, GoodTable
    <3>3. GoodTable(new) /\ DOMAIN new = DOMAIN rows \cup {n}
      BY <3>1, <3>2, UpdatedGood
    <3> QED BY <2>1, <3>1, <3>2, <3>3
  <2>3. GoodTable(rows)' /\ GoodTable(rec)'
    BY <2>1, <2>2 DEF GoodTable, FormInv
  <2> QED BY <2>1, <2>2, <2>3 DEF FormInv, Placed, Fits
<1>3. CASE SwitchAutoSave
  BY <1>3 DEF SwitchAutoSave, FormInv, storeVars, GoodTable, Placed, Fits
<1>4. CASE Restart
  <2>1. rec' = rows /\ rows' = rows /\ form' = NoForm /\ asking' = FALSE /\ remember' = {}
    BY <1>4 DEF Restart
  <2>2. form' \in Form /\ Placed(form)' /\ Fits(form)'
    BY <2>1, NoFormFits DEF Placed, Fits
  <2> QED BY <2>1, <2>2 DEF FormInv, GoodTable
<1> QED BY <1>1, <1>2, <1>3, <1>4 DEF OtherStep

LEMMA NextFormInv == FormInv /\ [FormNext]_formVars => FormInv'
<1> SUFFICES ASSUME FormInv, [FormNext]_formVars PROVE FormInv'
  OBVIOUS
<1>1. CASE FormStep
  BY <1>1, OpenIInv, EnterIInv, ConnectIInv, CloseIInv DEF FormStep
<1>2. CASE PasswordStep
  BY <1>2, PasswordIInv DEF PasswordStep
<1>3. CASE OtherStep
  BY <1>3, OtherIInv
<1>4. CASE UNCHANGED formVars
  BY <1>4 DEF formVars, FormInv, storeVars, GoodTable, Placed, Fits
<1> QED BY <1>1, <1>2, <1>3, <1>4 DEF FormNext

-----------------------------------------------------------------------------
(* What is saved.                                                          *)
(***************************************************************************)
\* The fields that no login dialog touches.
SameForm(s, t) ==
  s.proto = t.proto /\ s.host = t.host /\ s.port = t.port /\ s.command = t.command

\* With auto save on all along it is on now, and each record has its row but for
\* those whose last statement was none.
SavedInv ==
  alwaysSaved =>
    /\ autoSave
    /\ \A n \in DOMAIN rec \ refused : n \in DOMAIN rows /\ SameForm(rows[n], rec[n])

LEMMA SavedInvImplies == SavedInv => FormIsSaved
BY DEF SavedInv, FormIsSaved, FormSaved, SameForm

\* A record that is written together with its row stays the record of its row.
LEMMA SavedTogether ==
  ASSUME SavedInv, NEW n, NEW s, UNCHANGED saveVars,
         DOMAIN rec' = DOMAIN rec \cup {n}, rec'[n] = s,
         \A m \in DOMAIN rec \ {n} : rec'[m] = rec[m], Save(n, s)
  PROVE  SavedInv'
<1>0. alwaysSaved' => alwaysSaved /\ autoSave /\ autoSave'
  BY DEF saveVars, SavedInv
<1> SUFFICES ASSUME alwaysSaved', NEW m \in DOMAIN rec' \ refused'
             PROVE  m \in DOMAIN rows' /\ SameForm(rows'[m], rec'[m])
  BY <1>0 DEF SavedInv, SameForm
<1>1. alwaysSaved /\ autoSave /\ WriteSession(n, s)
  BY <1>0 DEF Save
<1>2. /\ rows' \in {rows, Updated(rows, n, s)}
      /\ m # n => m \notin refused
      /\ m = n => rows' = Updated(rows, n, s)
  BY <1>1, SessionWritten
<1>3. CASE m = n
  BY <1>1, <1>2, <1>3 DEF SameForm, Updated
<1>4. CASE m # n
  <2>1. m \in DOMAIN rec \ ({n} \cup refused) /\ rec'[m] = rec[m]
    BY <1>2, <1>4
  <2>2. m \in DOMAIN rows /\ SameForm(rows[m], rec[m])
    BY <1>1, <2>1 DEF SavedInv
  <2>3. m \in DOMAIN rows' /\ rows'[m] = rows[m]
    BY <1>2, <1>4, <2>2 DEF Updated
  <2> QED BY <1>1, <2>1, <2>2, <2>3 DEF SameForm
<1> QED BY <1>3, <1>4

LEMMA NextSavedInv == FormInv /\ SavedInv /\ [FormNext]_formVars => SavedInv'
<1> SUFFICES ASSUME FormInv, SavedInv, [FormNext]_formVars PROVE SavedInv'
  OBVIOUS
<1>1. ASSUME UNCHANGED <<storeVars, refused, saveVars>> PROVE SavedInv'
  BY <1>1 DEF storeVars, saveVars, SavedInv, SameForm
<1>2. ASSUME NEW n \in Names, Connect(n) PROVE SavedInv'
  <2> DEFINE s == Created(IF form.flag = "new" THEN NewSession ELSE rec[n])
  <2>1. rec' = Updated(rec, n, s) /\ UNCHANGED saveVars
        /\ Save(n, rec'[n])
    BY <1>2 DEF Connect, SaveCreated
  <2> HIDE DEF s
  <2>2. /\ DOMAIN rec' = DOMAIN rec \cup {n} /\ rec'[n] = s
        /\ \A m \in DOMAIN rec \ {n} : rec'[m] = rec[m]
    BY <2>1 DEF Updated
  <2> QED BY <2>1, <2>2, SavedTogether
<1>3. ASSUME NEW p \in Passwords \cup {""}, PasswordOk(p) PROVE SavedInv'
  <2> DEFINE n == form.uname
  <2>1. n \in DOMAIN rec
    BY <1>3 DEF PasswordOk, FormInv, Placed
  <2>2. /\ rec' = [rec EXCEPT ![n].password = p] /\ UNCHANGED saveVars
        /\ Save(n, rec'[n])
    BY <1>3 DEF PasswordOk
  <2> HIDE DEF n
  <2>3. /\ DOMAIN rec' = DOMAIN rec \cup {n}
        /\ \A m \in DOMAIN rec \ {n} : rec'[m] = rec[m]
    BY <2>1, <2>2
  <2> QED BY <2>2, <2>3, SavedTogether
<1>4. ASSUME NEW n \in DOMAIN rec, NEW l \in Logins, NEW p \in Passwords \cup {""},
             NEW keep \in BOOLEAN, Login(n, l, p, keep)
      PROVE  SavedInv'
  <2> DEFINE s == [rec[n] EXCEPT !.login = l, !.password = p]
  <2>1. rec' = [rec EXCEPT ![n] = s] /\ UNCHANGED <<rows, refused, saveVars>>
    BY <1>4 DEF Login, rowVars
  <2>2. rec[n] \in Session
    BY DEF FormInv, GoodTable, Good
  <2>3. s.proto = rec[n].proto /\ s.host = rec[n].host /\ s.port = rec[n].port
        /\ s.command = rec[n].command
    BY <2>2 DEF Session
  <2> HIDE DEF s
  <2>4. DOMAIN rec' = DOMAIN rec /\ \A m \in DOMAIN rec :
          /\ rec'[m].proto = rec[m].proto /\ rec'[m].host = rec[m].host
          /\ rec'[m].port = rec[m].port /\ rec'[m].command = rec[m].command
    BY <2>1, <2>3
  <2>5. rows' = rows /\ refused' = refused /\ autoSave' = autoSave /\ alwaysSaved' = alwaysSaved
    BY <2>1 DEF saveVars
  <2>6. ASSUME alwaysSaved, NEW m \in DOMAIN rec \ refused
        PROVE  m \in DOMAIN rows' /\ SameForm(rows'[m], rec'[m])
    BY <2>4, <2>5, <2>6 DEF SavedInv, SameForm
  <2> QED BY <2>4, <2>5, <2>6 DEF SavedInv
<1>5. ASSUME NEW n \in Names, LoggedIn(n) PROVE SavedInv'
  <2>1. n \in DOMAIN rec /\ WriteSession(n, rec[n]) /\ UNCHANGED <<rec, saveVars>>
    BY <1>5 DEF LoggedIn, FormInv
  <2>4. PICK new : new = Updated(rows, n, rec[n])
    OBVIOUS
  <2>5. /\ n \in DOMAIN new /\ new[n] = rec[n]
        /\ \A m \in DOMAIN rows : m # n => m \in DOMAIN new /\ new[m] = rows[m]
    BY <2>4 DEF Updated
  <2>6. /\ rows' \in {rows, new} /\ (n \notin refused' => rows' = new)
        /\ \A m : m # n => (m \in refused' <=> m \in refused)
    BY <2>1, <2>4, SessionWritten
  <2>2. ASSUME NEW m \in DOMAIN rec \ refused', m # n
        PROVE  m \notin refused /\ (m \in DOMAIN rows => m \in DOMAIN rows' /\ rows'[m] = rows[m])
    BY <2>2, <2>5, <2>6
  <2>3. n \notin refused' => n \in DOMAIN rows' /\ rows'[n] = rec[n]
    BY <2>5, <2>6
  <2> QED BY <2>1, <2>2, <2>3 DEF saveVars, SavedInv, SameForm
<1>6. CASE SwitchAutoSave
  <2>1. alwaysSaved' = (DOMAIN rec \cup DOMAIN rows = {} /\ autoSave') /\ UNCHANGED <<storeVars, refused>>
    BY <1>6 DEF SwitchAutoSave
  <2>2. alwaysSaved' => autoSave' /\ DOMAIN rec' = {}
    BY <2>1 DEF storeVars
  <2> QED BY <2>2 DEF SavedInv
<1>7. CASE Restart
  <2>1. rec' = rows /\ rows' = rows /\ UNCHANGED saveVars
    BY <1>7 DEF Restart
  <2> QED BY <2>1 DEF saveVars, SavedInv, SameForm
<1>8. CASE FormStep
  BY <1>1, <1>2, <1>8
     DEF FormStep, OpenNew, OpenOptions, SelectProtocol, Enter, ConnectFails, ConnectRlogin,
         CancelForm
<1>9. CASE PasswordStep
  BY <1>1, <1>3, <1>9 DEF PasswordStep, ToggleAuthentication, Properties, PasswordCancel
<1>10. CASE OtherStep
  BY <1>4, <1>5, <1>6, <1>7, <1>10 DEF OtherStep
<1>11. CASE UNCHANGED formVars
  BY <1>1, <1>11 DEF formVars
<1> QED BY <1>8, <1>9, <1>10, <1>11 DEF FormNext

LEMMA InitSavedInv == FormInit => SavedInv
BY DEF FormInit, SavedInv, NoSessions

-----------------------------------------------------------------------------
(* What the options of a session keep.                                     *)
(***************************************************************************)
\* The form of a session to log in to shows the host and the command of its
\* record, but for those the user has changed.
Shows(f, table) ==
  f.flag = "options" /\ f.nproto \in LoginProtocols =>
    /\ "host" \in f.typed \/ f.host = table[f.uname].host
    /\ "command" \in f.typed \/ f.command = table[f.uname].command

ShownInv == Shows(form, rec)

LEMMA InitShownInv == FormInit => ShownInv
BY NoFormFits DEF FormInit, ShownInv, Shows

\* The form closes, or is that of a new session.
LEMMA NotOptions == \A f, table : f.flag # "options" => Shows(f, table)
BY DEF Shows

\* What the form shows when it is opened is what the record holds.
LEMMA OpenedShows ==
  ASSUME FormInv, NEW n \in DOMAIN rec, OpenOptions(n)
  PROVE  ShownInv'
<1> DEFINE f == [NoForm EXCEPT !.flag = "options", !.uname = n, !.nproto = rec[n].proto]
<1>1. f.flag = "options" /\ f.uname = n /\ f.nproto = rec[n].proto
  BY DEF NoForm
<1>2. form' = Show(f) /\ rec' = rec
  BY DEF OpenOptions, storeVars
<1> HIDE DEF f
<1>3. f.nproto \in LoginProtocols =>
        Show(f).host = rec[n].host /\ Show(f).command = rec[n].command
  BY <1>1 DEF Show, CommandShown, HostProtocols
<1>4. Show(f).flag = f.flag /\ Show(f).uname = n /\ Show(f).nproto = f.nproto
  BY <1>1 DEF Show
<1> QED BY <1>2, <1>3, <1>4 DEF ShownInv, Shows

LEMMA EnteredShows ==
  ASSUME FormInv, ShownInv, Enter
  PROVE  ShownInv'
<1>1. form \in Form /\ rec' = rec
  BY DEF FormInv, Enter, storeVars
<1>2. \/ form'.flag = "options" => "host" \in form'.typed /\ form'.command = form.command
      \/ form'.host = form.host /\ form'.command = form.command
      \/ form'.host = form.host /\ "command" \in form'.typed
  BY <1>1, FormShape
     DEF Enter, EnterHost, EnterLogin, EnterPort, EnterDevice, EnterProgram, EnterCommand
<1>3. form'.flag = form.flag /\ form'.uname = form.uname /\ form'.nproto = form.nproto
  BY <1>1, FormShape
     DEF Enter, EnterHost, EnterLogin, EnterPort, EnterDevice, EnterProgram, EnterCommand
<1>4. form.typed \subseteq form'.typed
  <2>1. \E field \in Fields : form'.typed = form.typed \cup {field}
    BY <1>1, FormShape
       DEF Fields, Enter, EnterHost, EnterLogin, EnterPort, EnterDevice, EnterProgram,
           EnterCommand
  <2> QED BY <2>1
<1> QED BY <1>1, <1>2, <1>3, <1>4 DEF ShownInv, Shows

\* A password or a login name that comes into the record is not in the form.
LEMMA ReplacedShows ==
  ASSUME FormInv, ShownInv, UNCHANGED form,
         \A m \in DOMAIN rec : rec'[m].host = rec[m].host /\ rec'[m].command = rec[m].command
  PROVE  ShownInv'
<1>1. form.flag = "options" => form.uname \in DOMAIN rec
  BY DEF FormInv, Placed
<1> QED BY <1>1 DEF ShownInv, Shows

LEMMA NextShownInv == FormInv /\ ShownInv /\ [FormNext]_formVars => ShownInv'
<1> SUFFICES ASSUME FormInv, ShownInv, [FormNext]_formVars PROVE ShownInv'
  OBVIOUS
<1>1. ASSUME UNCHANGED <<form, rec>> PROVE ShownInv'
  BY <1>1 DEF ShownInv, Shows
<1>2. ASSUME form' = NoForm PROVE ShownInv'
  BY <1>2, NoFormFits, NotOptions DEF ShownInv
<1>3. CASE OpenNew
  <2>1. form'.flag = "new"
    BY <1>3 DEF OpenNew, Show, NoForm
  <2> QED BY <2>1 DEF ShownInv, Shows
<1>4. ASSUME NEW p \in Protocols, SelectProtocol(p) PROVE ShownInv'
  <2>1. form.flag = "new" /\ form' = Show([form EXCEPT !.nproto = p]) /\ form \in Form
    BY <1>4 DEF SelectProtocol, CanSelectProtocol, FormInv
  <2>2. [form EXCEPT !.nproto = p].flag = "new"
    BY <2>1, FormWithProtocol
  <2>3. form'.flag = "new"
    BY <2>1, <2>2 DEF Show
  <2> QED BY <2>3 DEF ShownInv, Shows
<1>5. CASE FormStep
  BY <1>1, <1>2, <1>3, <1>4, <1>5, OpenedShows, EnteredShows
     DEF FormStep, Connect, ConnectFails, ConnectRlogin, CancelForm, CloseForm, storeVars
<1>6. CASE ToggleAuthentication
  <2>1. form' = [form EXCEPT !.auth = ~@] /\ form \in Form /\ rec' = rec
    BY <1>6 DEF ToggleAuthentication, FormInv, storeVars
  <2>2. form'.flag = form.flag /\ form'.uname = form.uname /\ form'.nproto = form.nproto
        /\ form'.typed = form.typed /\ form'.host = form.host /\ form'.command = form.command
    BY <2>1, FormShape
  <2> QED BY <2>1, <2>2 DEF ShownInv, Shows
<1>7. ASSUME NEW p \in Passwords \cup {""}, PasswordOk(p) PROVE ShownInv'
  <2> DEFINE n == form.uname
  <2>1. n \in DOMAIN rec /\ rec[n] \in Session
    BY <1>7 DEF PasswordOk, FormInv, Placed, GoodTable, Good
  <2>2. rec' = [rec EXCEPT ![n] = [rec[n] EXCEPT !.password = p]] /\ UNCHANGED form
    BY <1>7 DEF PasswordOk
  <2>3. [rec[n] EXCEPT !.password = p].host = rec[n].host
        /\ [rec[n] EXCEPT !.password = p].command = rec[n].command
    BY <2>1 DEF Session
  <2> HIDE DEF n
  <2>4. \A m \in DOMAIN rec : rec'[m].host = rec[m].host /\ rec'[m].command = rec[m].command
    BY <2>1, <2>2, <2>3
  <2> QED BY <2>2, <2>4, ReplacedShows
<1>8. ASSUME NEW n \in DOMAIN rec, NEW l \in Logins, NEW p \in Passwords \cup {""},
             NEW keep \in BOOLEAN, Login(n, l, p, keep)
      PROVE  ShownInv'
  <2> DEFINE s == [rec[n] EXCEPT !.login = l, !.password = p]
  <2>1. rec' = [rec EXCEPT ![n] = s] /\ UNCHANGED form
    BY <1>8 DEF Login
  <2>2. rec[n] \in Session
    BY DEF FormInv, GoodTable, Good
  <2>3. s.host = rec[n].host /\ s.command = rec[n].command
    BY <2>2 DEF Session
  <2> HIDE DEF s
  <2>4. \A m \in DOMAIN rec : rec'[m].host = rec[m].host /\ rec'[m].command = rec[m].command
    BY <2>1, <2>3
  <2> QED BY <2>1, <2>4, ReplacedShows
<1>9. CASE PasswordStep
  BY <1>1, <1>6, <1>7, <1>9 DEF PasswordStep, Properties, PasswordCancel, storeVars
<1>10. CASE OtherStep
  BY <1>1, <1>2, <1>8, <1>10 DEF OtherStep, LoggedIn, SwitchAutoSave, Restart, storeVars
<1>11. CASE UNCHANGED formVars
  BY <1>1, <1>11 DEF formVars, storeVars
<1> QED BY <1>5, <1>9, <1>10, <1>11 DEF FormNext

\* Ok writes what the form shows, and keeps the password the record has by now.
LEMMA OkKeepsTheRest ==
  ASSUME FormInv, ShownInv, NEW n \in DOMAIN rec, OptionsOk(n), rec[n].proto \in LoginProtocols
  PROVE  /\ "host" \in form.typed \/ rec'[n].host = rec[n].host
         /\ "command" \in form.typed \/ rec'[n].command = rec[n].command
         /\ rec'[n].password = rec[n].password
<1>1. form.flag = "options" /\ n = form.uname /\ form.nproto = rec[n].proto
      /\ rec' = Updated(rec, n, Created(rec[n]))
  BY DEF OptionsOk, Connect, FormInv, Placed
<1>2. rec'[n] = Created(rec[n])
  BY <1>1 DEF Updated
<1>3. Created(rec[n]).host = form.host /\ Created(rec[n]).command = form.command
      /\ Created(rec[n]).password = rec[n].password
  BY <1>1 DEF Created, LoginProtocols
<1> QED BY <1>1, <1>2, <1>3 DEF ShownInv, Shows

-----------------------------------------------------------------------------
\* For any names, hosts, devices and programs, and whatever the form and the
\* dialogs over it do: the field that a password, the parameters of a serial line
\* and a shell's program share holds the one that the session's protocol reads,
\* and no session that has to dial a host is made, or changed, to have none.
THEOREM SessionsFitTheirProtocol == FormSpec => []SessionsFit
BY InitFormInv, NextFormInv, FormInvImplies, PTL DEF FormSpec

\* While auto save has been on since there are sessions, whatever Ok or Connect put
\* into a record is in the table: its protocol, host, port and command, through
\* logins, failed attempts and restarts, unless an apostrophe in that record has made
\* its last statement fail.
THEOREM FormsAreSaved == FormSpec => []FormIsSaved
<1>1. FormInit => FormInv /\ SavedInv
  BY InitFormInv, InitSavedInv
<1>2. (FormInv /\ SavedInv) /\ [FormNext]_formVars => (FormInv /\ SavedInv)'
  BY NextFormInv, NextSavedInv
<1> QED BY <1>1, <1>2, SavedInvImplies, PTL DEF FormSpec

\* Ok in the options of a session leaves the host and the command that the user has
\* not changed, and the password that a login dialog or the password dialog may
\* have put into the record while the form was up.
THEOREM OptionsKeepTheRest == FormSpec => KeepsTheRest
<1>1. FormInit => FormInv /\ ShownInv
  BY InitFormInv, InitShownInv
<1>2. (FormInv /\ ShownInv) /\ [FormNext]_formVars => (FormInv /\ ShownInv)'
  BY NextFormInv, NextShownInv
<1>3. FormInv /\ ShownInv /\ [FormNext]_formVars =>
        [\A n \in DOMAIN rec :
           OptionsOk(n) /\ rec[n].proto \in LoginProtocols =>
             /\ "host" \in form.typed \/ rec'[n].host = rec[n].host
             /\ "command" \in form.typed \/ rec'[n].command = rec[n].command
             /\ rec'[n].password = rec[n].password]_formVars
  BY OkKeepsTheRest
<1> QED BY <1>1, <1>2, <1>3, PTL DEF FormSpec, KeepsTheRest
=============================================================================

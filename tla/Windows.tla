------------------------------- MODULE Windows -------------------------------
(***************************************************************************)
(* Several lcrt processes on one configuration directory                   *)
(* (src/src/lcrt.c, iwindow.c, cwindow.c, cfile.c, user.c, mkconfig.c).    *)
(* "Connect" forks a second lcrt that reads the same files; from then on   *)
(* each process keeps its own list of sessions, and every save is one or   *)
(* two SQL statements on a table that the others write as well.  A         *)
(* statement that meets another process's lock fails at once, and nobody   *)
(* looks at the result.                                                    *)
(*                                                                         *)
(* A session is a name and a content; folders, the dialogs and the tabs'   *)
(* life are in SessionStore and in the modules of the sessions.            *)
(***************************************************************************)
EXTENDS Naturals, FiniteSets

CONSTANTS Processes,  \* bound on the lcrt processes alive at once
          Names,      \* what sessions are called
          Contents,   \* what a session is: host, protocol, login, ...
          NoRecord,   \* no session, or no row, of a name
          NoName,     \* no name
          Frames,     \* positions and sizes of a window
          NoFrame,    \* no row, or nothing known about the rows
          FrameRows,  \* LCRT_W_NUMBER, the rows of a frame
          MaxTabs     \* bound on the tabs of a process

ASSUME WindowsAssumption ==
  /\ NoRecord \notin Contents /\ NoName \notin Names
  /\ NoFrame \notin Frames /\ Frames # {}
  /\ FrameRows \in Nat \ {0} /\ MaxTabs \in Nat \ {0}

VARIABLES
  rows,     \* the user table
  made,     \* the window table exists
  frame,    \* the rows of the window table
  pc,       \* what a process is doing
  step,     \* the row of the window table that it writes next
  shape,    \* the frame that it leaves when it closes
  list,     \* its u_config.child
  auto,     \* its check item "auto save options"
  subject,  \* the session given by -c, or the one being saved
  tabs,     \* the children behind its tabs
  \* History:
  excused,  \* names of a process that its list and the table need not agree on
  promised, \* the content that the session given by -c has
  kept,     \* the frame that the window table has to hold
  cut       \* rows of the window table that a first start has left unwritten

tableVars == <<rows, made, frame>>
ownVars == <<list, auto, subject, tabs>>
historyVars == <<excused, promised, kept, cut>>
vars == <<tableVars, pc, step, shape, ownVars, historyVars>>

Rows == 1 .. FrameRows
Records == Contents \cup {NoRecord}
EmptyList == [n \in Names |-> NoRecord]
DefaultFrame == CHOOSE f \in Frames : TRUE
Places == {"off", "creating", "loading", "up", "inserting", "closing"}

\* Its list has been loaded.
Loaded(w) == pc[w] \in {"up", "inserting", "closing"}

Become(w, place) == pc' = [pc EXCEPT ![w] = place]

\* Somebody else may hold the lock of the file.
MayBeRefused(w) == \E v \in Processes \ {w} : pc[v] # "off"
Outcome(w) == {TRUE} \cup (IF MayBeRefused(w) THEN {FALSE} ELSE {})

\* A statement of w has been executed: the others learn nothing of it.
Written(w, own) ==
  LET Changed == {n \in Names : rows'[n] # rows[n]} IN
  /\ excused' = [v \in Processes |-> IF v = w THEN own ELSE excused[v] \cup Changed]
  /\ promised' = [v \in Processes |-> IF subject[v] \in Changed THEN NoRecord ELSE promised[v]]

-----------------------------------------------------------------------------
(* Start.                                                                  *)
(***************************************************************************)
\* main: lcrt_window_load_config asks whether the window table exists, and takes a
\* SELECT that is refused for a no.
Begin(w, name, content) ==
  /\ pc[w] = "off"
  /\ \E done \in Outcome(w) : Become(w, IF made /\ done THEN "loading" ELSE "creating")
  /\ subject' = [subject EXCEPT ![w] = name]
  /\ promised' = [promised EXCEPT ![w] = content]

Start(w) ==
  /\ Begin(w, NoName, NoRecord)
  /\ UNCHANGED <<tableVars, step, shape, list, auto, tabs, excused, kept, cut>>

\* Rows of the window table that are missing in it.
Missing == {i \in Rows : made /\ frame[i] = NoFrame}

\* The statement of a first start for its next row: CREATE TABLE is the one before
\* the first.  An INSERT fails without a table or, as another process was faster,
\* on the primary key.
CreateRow(i, done) ==
  IF i = 0
  THEN /\ made' = (made \/ done)
       /\ cut' = IF made' THEN cut ELSE Rows
       /\ UNCHANGED frame
  ELSE /\ frame' = IF done /\ i \in Missing THEN [frame EXCEPT ![i] = DefaultFrame] ELSE frame
       /\ cut' = IF ~done THEN cut \cup (Missing \cap {i}) ELSE cut
       /\ UNCHANGED made

\* Mutant: the loop over the rows ends one early.
CreateFrame_LastLeft(w) ==
  /\ pc[w] = "creating"
  /\ \E done \in Outcome(w) : CreateRow(step[w], done)
  /\ IF step[w] + 1 < FrameRows
     THEN step' = [step EXCEPT ![w] = @ + 1] /\ UNCHANGED pc
     ELSE step' = [step EXCEPT ![w] = 0] /\ Become(w, "loading")
  /\ UNCHANGED <<rows, shape, ownVars, excused, promised, kept>>

\* lcrt_window_create_config: nobody looks at what becomes of its statements.
CreateFrame(w) ==
  /\ pc[w] = "creating"
  /\ \E done \in Outcome(w) : CreateRow(step[w], done)
  /\ IF step[w] < FrameRows
     THEN step' = [step EXCEPT ![w] = @ + 1] /\ UNCHANGED pc
     ELSE step' = [step EXCEPT ![w] = 0] /\ Become(w, "loading")
  /\ UNCHANGED <<rows, shape, ownVars, excused, promised, kept>>

\* lcrt_user_load_config, the settings, and the session given by -c.  A SELECT
\* that is refused is taken for a missing table: the list stays empty.
Load(w) ==
  /\ pc[w] = "loading"
  /\ \E done \in Outcome(w), on \in BOOLEAN :
       /\ list' = [list EXCEPT ![w] = IF done THEN rows ELSE EmptyList]
       /\ excused' = [excused EXCEPT ![w] = IF done THEN {} ELSE Names]
       /\ auto' = [auto EXCEPT ![w] = on]
  /\ tabs' = [tabs EXCEPT ![w] =
                IF subject[w] \in Names /\ list'[w][subject[w]] # NoRecord
                THEN {<<w, subject[w]>>} ELSE {}]
  /\ Become(w, "up")
  /\ subject' = [subject EXCEPT ![w] = NoName]
  /\ promised' = [promised EXCEPT ![w] = NoRecord]
  /\ UNCHANGED <<tableVars, step, shape, kept, cut>>

-----------------------------------------------------------------------------
(* The list and the user table.                                            *)
(***************************************************************************)
\* lcrt_user_save_one, its UPDATE.  If it has changed nothing the INSERT follows,
\* and another process may come between.
SaveOne(w, n) ==
  \/ /\ rows[n] # NoRecord
     /\ rows' = [rows EXCEPT ![n] = list'[w][n]]
     /\ Written(w, excused[w] \ {n})
     /\ UNCHANGED <<pc, subject>>
  \/ /\ rows[n] = NoRecord \/ FALSE \in Outcome(w)
     /\ Become(w, "inserting")
     /\ subject' = [subject EXCEPT ![w] = n]
     /\ excused' = [excused EXCEPT ![w] = @ \cup {n}]
     /\ UNCHANGED <<rows, promised>>

\* Its INSERT, which fails on a lock or, silently, on the primary key.
InsertOne(w) ==
  /\ pc[w] = "inserting"
  /\ \E done \in Outcome(w) :
       LET n == subject[w]
           fits == done /\ rows[n] = NoRecord
       IN /\ rows' = IF fits THEN [rows EXCEPT ![n] = list[w][n]] ELSE rows
          /\ Written(w, IF fits THEN excused[w] \ {n} ELSE excused[w])
  /\ Become(w, "up")
  /\ subject' = [subject EXCEPT ![w] = NoName]
  /\ UNCHANGED <<made, frame, step, shape, list, auto, tabs, kept, cut>>

\* Only memory changes.
Unsaved(w, names) ==
  /\ excused' = [excused EXCEPT ![w] = @ \cup names]
  /\ UNCHANGED <<rows, pc, subject, promised>>

\* The quick connect form, Session Options, a new folder, the toolbar's shell: a
\* session comes to be or changes, and is saved if auto save is on.
Put(w, n, c) ==
  /\ pc[w] = "up"
  /\ list' = [list EXCEPT ![w][n] = c]
  /\ IF auto[w] THEN SaveOne(w, n) ELSE Unsaved(w, {n})
  /\ UNCHANGED <<made, frame, step, shape, auto, tabs, kept, cut>>

\* A login dialog changes the session of its terminal.
Login(w, n, c) ==
  /\ pc[w] = "up" /\ list[w][n] # NoRecord
  /\ list' = [list EXCEPT ![w][n] = c]
  /\ Unsaved(w, {n})
  /\ UNCHANGED <<made, frame, step, shape, auto, tabs, kept, cut>>

\* lcrt_terminal_set_connected_status with "remember": the current session is
\* saved, auto save or not.
Remember(w, n) ==
  /\ pc[w] = "up" /\ list[w][n] # NoRecord
  /\ UNCHANGED list
  /\ SaveOne(w, n)
  /\ UNCHANGED <<made, frame, step, shape, auto, tabs, kept, cut>>

\* Mutant: memory takes the new name whether a row has done so or not.
Rename_MemoryFirst(w, n, new) ==
  /\ pc[w] = "up" /\ list[w][n] # NoRecord /\ list[w][new] = NoRecord
  /\ list' = [list EXCEPT ![w][new] = list[w][n], ![w][n] = NoRecord]
  /\ IF ~auto[w] THEN Unsaved(w, {n, new})
     ELSE /\ rows' = IF rows[n] # NoRecord /\ rows[new] = NoRecord
                     THEN [rows EXCEPT ![new] = rows[n], ![n] = NoRecord] ELSE rows
          /\ Written(w, (excused[w] \ {n, new}) \cup (IF n \in excused[w] THEN {new} ELSE {}))
          /\ UNCHANGED <<pc, subject>>
  /\ UNCHANGED <<made, frame, step, shape, auto, tabs, kept, cut>>

\* lcrt_user_rename, where the new name is not in this process's list.  With auto
\* save memory follows only if one row has changed: not without a row, not when
\* the primary key is taken, not when the UPDATE is refused.
Rename(w, n, new) ==
  /\ pc[w] = "up" /\ list[w][n] # NoRecord /\ list[w][new] = NoRecord
  /\ list' = [list EXCEPT ![w][new] = list[w][n], ![w][n] = NoRecord]
  /\ IF ~auto[w] THEN Unsaved(w, {n, new})
     ELSE /\ rows[n] # NoRecord /\ rows[new] = NoRecord
          /\ rows' = [rows EXCEPT ![new] = rows[n], ![n] = NoRecord]
          /\ Written(w, (excused[w] \ {n, new}) \cup (IF n \in excused[w] THEN {new} ELSE {}))
          /\ UNCHANGED <<pc, subject>>
  /\ UNCHANGED <<made, frame, step, shape, auto, tabs, kept, cut>>

\* lcrt_user_del_one: memory forgets the session whatever the table does.
Delete(w, n) ==
  /\ pc[w] = "up" /\ list[w][n] # NoRecord
  /\ list' = [list EXCEPT ![w][n] = NoRecord]
  /\ IF ~auto[w] THEN Unsaved(w, {n})
     ELSE /\ \E done \in Outcome(w) :
               /\ rows' = IF done THEN [rows EXCEPT ![n] = NoRecord] ELSE rows
               /\ Written(w, IF done THEN excused[w] \ {n} ELSE excused[w] \cup {n})
          /\ UNCHANGED <<pc, subject>>
  /\ UNCHANGED <<made, frame, step, shape, auto, tabs, kept, cut>>

\* lcrt_options_on_auto_save_options_activate.
ToggleAutoSave(w) ==
  /\ pc[w] = "up"
  /\ auto' = [auto EXCEPT ![w] = ~@]
  /\ UNCHANGED <<tableVars, pc, step, shape, list, subject, tabs, historyVars>>

-----------------------------------------------------------------------------
(* Tabs and new windows.                                                   *)
(***************************************************************************)
OpenTab(w, n) ==
  /\ pc[w] = "up" /\ list[w][n] # NoRecord
  /\ <<w, n>> \notin tabs[w] /\ Cardinality(tabs[w]) < MaxTabs
  /\ tabs' = [tabs EXCEPT ![w] = @ \cup {<<w, n>>}]
  /\ UNCHANGED <<tableVars, pc, step, shape, list, auto, subject, historyVars>>

\* The children are killed, whoever else has a tab for them.
Killed(children) == tabs' = [v \in Processes |-> tabs[v] \ children]

CloseTab(w, child) ==
  /\ pc[w] = "up" /\ child \in tabs[w]
  /\ Killed({child})
  /\ UNCHANGED <<tableVars, pc, step, shape, list, auto, subject, historyVars>>

\* Mutant: the new process is asked for the session in front.
NewWindow_Current(w, v, n) ==
  /\ pc[w] = "up" /\ list[w][n] # NoRecord
  /\ \E m \in Names : Begin(v, m, IF n \in excused[w] THEN NoRecord ELSE list[w][n])
  /\ UNCHANGED <<tableVars, step, shape, list, auto, tabs, excused, kept, cut>>

\* lcrt_file_on_connect_activate and lcrt_window_create_new: the dialog has made
\* n the current session, and a second lcrt is started with its name.
NewWindow(w, v, n) ==
  /\ pc[w] = "up" /\ list[w][n] # NoRecord
  /\ Begin(v, n, IF n \in excused[w] THEN NoRecord ELSE list[w][n])
  /\ UNCHANGED <<tableVars, step, shape, list, auto, tabs, excused, kept, cut>>

\* The exec fails: the child returns into the main loop, a copy of its parent.
CopyOfItself(w, v) ==
  /\ pc[w] = "up" /\ pc[v] = "off"
  /\ \E n \in Names : list[w][n] # NoRecord
  /\ Become(v, "up")
  /\ list' = [list EXCEPT ![v] = list[w]]
  /\ auto' = [auto EXCEPT ![v] = auto[w]]
  /\ tabs' = [tabs EXCEPT ![v] = tabs[w]]
  /\ excused' = [excused EXCEPT ![v] = excused[w]]
  /\ UNCHANGED <<tableVars, step, shape, subject, promised, kept, cut>>

-----------------------------------------------------------------------------
(* The end.                                                                *)
(***************************************************************************)
\* Another process writes the window table too.
Disturbed(w) == \E v \in Processes \ {w} : pc[v] \in {"creating", "closing"}

\* lcrt_window_on_delete_event, once the question is answered, if there was one.
BeginClose(w, f) ==
  /\ pc[w] = "up"
  /\ Become(w, "closing")
  /\ step' = [step EXCEPT ![w] = 1]
  /\ shape' = [shape EXCEPT ![w] = f]
  /\ kept' = IF Disturbed(w) THEN NoFrame ELSE f
  /\ UNCHANGED <<tableVars, ownVars, excused, promised, cut>>

\* What is left of a process that has ended.
Ended(w) ==
  /\ Become(w, "off")
  /\ step' = [step EXCEPT ![w] = 0]
  /\ shape' = [shape EXCEPT ![w] = NoFrame]
  /\ list' = [list EXCEPT ![w] = EmptyList]
  /\ auto' = [auto EXCEPT ![w] = FALSE]
  /\ subject' = [subject EXCEPT ![w] = NoName]
  /\ excused' = [excused EXCEPT ![w] = {}]
  /\ promised' = [promised EXCEPT ![w] = NoRecord]

\* lcrt_window_save_config: an UPDATE per row, and no INSERT.  After the last one
\* lcrt_destroy_window ends the sessions of the tabs.
SaveFrame(w) ==
  /\ pc[w] = "closing"
  /\ \E done \in Outcome(w) :
       /\ frame' = IF done /\ frame[step[w]] # NoFrame
                   THEN [frame EXCEPT ![step[w]] = shape[w]] ELSE frame
       /\ kept' = IF done THEN kept ELSE NoFrame
       /\ cut' = IF frame'[step[w]] = shape[w] THEN cut \ {step[w]} ELSE cut
  /\ IF step[w] < FrameRows
     THEN /\ step' = [step EXCEPT ![w] = @ + 1]
          /\ UNCHANGED <<pc, shape, ownVars, excused, promised>>
     ELSE Ended(w) /\ Killed(tabs[w])
  /\ UNCHANGED <<rows, made>>

\* A crash or a kill.  The children lose their terminal, unless a copy has it.
Crash(w) ==
  /\ pc[w] # "off"
  /\ Ended(w)
  /\ tabs' = [tabs EXCEPT ![w] = {}]
  /\ cut' = IF pc[w] = "creating" THEN cut \cup Missing ELSE cut
  /\ kept' = IF pc[w] = "closing" THEN NoFrame ELSE kept
  /\ UNCHANGED tableVars

-----------------------------------------------------------------------------
Init ==
  /\ rows = EmptyList
  /\ made = FALSE /\ frame = [i \in Rows |-> NoFrame]
  /\ pc = [w \in Processes |-> "off"]
  /\ step = [w \in Processes |-> 0] /\ shape = [w \in Processes |-> NoFrame]
  /\ list = [w \in Processes |-> EmptyList]
  /\ auto = [w \in Processes |-> FALSE]
  /\ subject = [w \in Processes |-> NoName]
  /\ tabs = [w \in Processes |-> {}]
  /\ excused = [w \in Processes |-> {}]
  /\ promised = [w \in Processes |-> NoRecord]
  /\ kept = DefaultFrame /\ cut = {}

StartStep(w) == Start(w) \/ CreateFrame(w) \/ Load(w)

SessionStep(w) ==
  \/ \E n \in Names, c \in Contents : Put(w, n, c) \/ Login(w, n, c)
  \/ \E n \in Names : Remember(w, n) \/ Delete(w, n)
  \/ \E n, new \in Names : Rename(w, n, new)
  \/ InsertOne(w)
  \/ ToggleAutoSave(w)

TabStep(w) ==
  \/ \E n \in Names : OpenTab(w, n)
  \/ \E child \in Processes \X Names : CloseTab(w, child)
  \/ \E v \in Processes, n \in Names : NewWindow(w, v, n)
  \/ \E v \in Processes : CopyOfItself(w, v)

EndStep(w) ==
  \/ \E f \in Frames : BeginClose(w, f)
  \/ SaveFrame(w)
  \/ Crash(w)

Next == \E w \in Processes : StartStep(w) \/ SessionStep(w) \/ TabStep(w) \/ EndStep(w)

Spec == Init /\ [][Next]_vars

-----------------------------------------------------------------------------
(* Properties.                                                             *)
(***************************************************************************)
\* Every variable has its type.
TypeOK ==
  /\ rows \in [Names -> Records]
  /\ made \in BOOLEAN /\ frame \in [Rows -> Frames \cup {NoFrame}]
  /\ pc \in [Processes -> Places]
  /\ step \in [Processes -> 0 .. FrameRows] /\ shape \in [Processes -> Frames \cup {NoFrame}]
  /\ list \in [Processes -> [Names -> Records]]
  /\ auto \in [Processes -> BOOLEAN]
  /\ subject \in [Processes -> Names \cup {NoName}]
  /\ tabs \in [Processes -> SUBSET (Processes \X Names)]
  /\ excused \in [Processes -> SUBSET Names]
  /\ promised \in [Processes -> Records]
  /\ kept \in Frames \cup {NoFrame} /\ cut \in SUBSET Rows

\* What a process shows is what the user table holds, between any two statements
\* of any process: only a session that it has changed without saving, whose
\* statement was refused, or that another process has written can differ.
RowsAgree ==
  \A w \in Processes : Loaded(w) =>
    \A n \in Names \ excused[w] : list[w][n] = rows[n]

\* A window made for a session opens that session, as it was when "Connect" was
\* pressed: provided that it had been saved, that no process has written it since,
\* and that the new process can read the table.
NewWindowHasItsSession ==
  [][\A w \in Processes :
       pc[w] = "loading" /\ pc'[w] = "up" /\ promised[w] # NoRecord /\ subject[w] \notin excused'[w]
       => <<w, subject[w]>> \in tabs'[w] /\ list'[w][subject[w]] = promised[w]]_vars

\* The window table holds the frame of the window that was closed last, so that
\* the next one comes up there: provided that no other process was starting for
\* the first time or closing meanwhile.  Only a row whose INSERT a first start has
\* not brought through, refused or cut short, is missing, or was made later with
\* the default; and it is right again once an end has saved it.
WindowComesBack ==
  made /\ kept # NoFrame /\ (\A w \in Processes : pc[w] \notin {"creating", "closing"})
  => \A i \in Rows : frame[i] = kept \/ (i \in cut /\ frame[i] \in {NoFrame, DefaultFrame})

-----------------------------------------------------------------------------
(* What one expects and the code does not keep.                            *)
(***************************************************************************)
\* "-c connect in tab" (usage() in lcrt.c): a window made for a session opens it.
NewWindowOpens ==
  [][\A w \in Processes :
       pc[w] = "loading" /\ pc'[w] = "up" /\ subject[w] # NoName => tabs'[w] # {}]_vars

\* "Auto Save Options", and "Remember": a session whose save is over is in the table.
SaveIsSaved ==
  [][\A w \in Processes :
       pc[w] = "inserting" /\ pc'[w] = "up" => rows'[subject[w]] = list[w][subject[w]]]_vars

\* Closing one window leaves the sessions of the others alone.
ClosesItsOwn ==
  [][\A w, v \in Processes :
       w # v /\ pc[w] = "closing" /\ pc'[w] = "off" /\ pc'[v] # "off" => tabs'[v] = tabs[v]]_vars

\* The table that a first start has made takes the frame of every window.
FrameIsComplete ==
  made /\ (\A w \in Processes : pc[w] # "creating") => \A i \in Rows : frame[i] # NoFrame
=============================================================================

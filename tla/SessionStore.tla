----------------------------- MODULE SessionStore -----------------------------
(***************************************************************************)
(* The saved sessions of lcrt: the list of records in memory               *)
(* (src/src/user.c), the rows of the user table behind it, the tree of the *)
(* connect dialog that shows them by name (src/src/iconnect.c,             *)
(* src/src/cconnect.c), and the tabs and the window that point into the    *)
(* list.                                                                   *)
(*                                                                         *)
(* Every dialog here is modal and each of its operations runs to its end   *)
(* in one handler; the sub-dialogs that ask for a name or a confirmation   *)
(* are part of the operation.                                              *)
(***************************************************************************)
EXTENDS Integers, Sequences, FiniteSets

CONSTANTS MaxRecords,   \* bound on the structs lcrtc_user, and on the rows, at once
          NoStruct,     \* NULL
          Terminals,    \* the tabs that can be open
          Hosts,        \* what the user enters as host name
          Folders,      \* what the user enters as folder name
          Quoted,       \* the ones of both with an apostrophe
          MaxLabel,     \* LCRT_MAX_LABEL
          AutoSaves     \* states of "auto save options" tried

ASSUME StoreAssumption ==
  /\ MaxRecords \in Nat \ {0} /\ NoStruct \notin 1 .. MaxRecords
  /\ "" \notin Hosts \cup Folders
  /\ Quoted \subseteq (Hosts \cup Folders) \ {"shell"}
  /\ MaxLabel \in Nat
  /\ AutoSaves \in (SUBSET BOOLEAN) \ {{}}

VARIABLES
  users,        \* u_config.child, the head first
  rec,          \* the contents of each struct
  db,           \* the rows of the user table; the name is the primary key
  autoSave,     \* the check item "auto save options"
  dialog,       \* the dialog that is up
  tree,         \* the rows of the connect dialog's tree
  into,         \* lqconnect->folder of the quick connect dialog
  qStatus,      \* window.q_status
  tabUser,      \* lterminal->user of the open tabs
  currentUser,  \* window.current_user
  app,          \* "up", or how lcrt died
  alwaysSaved   \* history: since there are sessions auto save has been on, and
                \* no statement has had a text with an apostrophe

listVars == <<users, rec>>
dialogVars == <<dialog, tree, into, qStatus>>
tabVars == <<tabUser, currentUser>>
saveVars == <<autoSave, alwaysSaved>>
storeVars == <<listVars, db, saveVars, dialogVars, tabVars, app>>

-----------------------------------------------------------------------------
(* Names.  Label(h, 0) is the host name itself, Label(h, i) "h (i)".       *)
(***************************************************************************)
Label(base, i) == <<base, i>>
HostLabels == Hosts \X (0 .. MaxLabel)
FolderLabels == Folders \X {0}
NoFolder == Label("", 0)
ShellName == Label("shell", 0)
SessionLabels == HostLabels \cup {ShellName}
Labels == SessionLabels \cup FolderLabels

\* Statements have names and texts between apostrophes as they are: one with an
\* apostrophe ends there, and SQLite refuses what is left.  Nobody looks at that.
Broken(label) == label[1] \in Quoted

-----------------------------------------------------------------------------
(* The list and the table.                                                 *)
(***************************************************************************)
Structs == 1 .. MaxRecords
Allocated == {users[i] : i \in 1 .. Len(users)}

\* lcrt_user_find_by_name: the first record of the list with this name.
Find(name) ==
  LET hits == {i \in 1 .. Len(users) : rec[users[i]].name = name} IN
  IF hits = {} THEN NoStruct
  ELSE users[CHOOSE i \in hits : \A j \in hits : i <= j]

\* lcrt_user_find_unused_label: the last label tried, if all are in use.
UnusedLabel(host) ==
  LET free == {i \in 0 .. MaxLabel : Find(Label(host, i)) = NoStruct} IN
  Label(host, IF free = {} THEN MaxLabel ELSE CHOOSE i \in free : \A j \in free : i <= j)

RowsNamed(name) == {row \in db : row.name = name}

\* lcrt_user_save_one: UPDATE, or INSERT when no row has the name; both fail for a
\* text with an apostrophe.  quoted: its host, user, password or command has one.
Saved(content) == (db \ RowsNamed(content.name)) \cup {content}
WriteRow(content, quoted) ==
  LET fails == quoted \/ Broken(content.name) \/ Broken(content.folder) IN
  /\ IF fails THEN UNCHANGED db ELSE db' = Saved(content) /\ Cardinality(db') <= MaxRecords
  /\ alwaysSaved' = (alwaysSaved /\ ~fails)
Save(content, quoted) ==
  IF autoSave THEN WriteRow(content, quoted) ELSE UNCHANGED <<db, alwaysSaved>>

\* What a struct that is not allocated holds.
Blank == [name |-> ShellName, folder |-> NoFolder, isFolder |-> FALSE]

\* lcrt_user_add of a fresh record, at the head of the list; which free struct
\* the allocator returns makes no difference.
Add(r, content) ==
  /\ r \in Structs \ Allocated
  /\ \A free \in Structs \ Allocated : r <= free
  /\ users' = <<r>> \o users
  /\ rec' = [rec EXCEPT ![r] = content]

\* What stays in the list keeps its order.
Without(gone) ==
  LET stay == {i \in 1 .. Len(users) : users[i] \notin gone}
      UpTo(i) == Cardinality({j \in stay : j <= i})
  IN [k \in 1 .. Cardinality(stay) |-> users[CHOOSE i \in stay : UpTo(i) = k]]

\* The records in the folder, the folder itself among them.
InFolder(folder) == {r \in Allocated : rec[r].folder = folder}

-----------------------------------------------------------------------------
(* The tree of the connect dialog.                                         *)
(***************************************************************************)
\* lcrt_connect_add_user: a row per session, and a row for every folder that is
\* mentioned, whether a record of that name exists or not.
TreeOfList ==
  {[label |-> rec[r].name, in |-> rec[r].folder] : r \in {x \in Allocated : ~rec[x].isFolder}}
  \cup {[label |-> rec[r].folder, in |-> NoFolder] : r \in {x \in Allocated : rec[x].folder # NoFolder}}

\* Mutant: the rows below the folders are looked at.
FindFolder_Below(name) == \E row \in tree : row.label = name /\ row.in # NoFolder

\* lcrt_connect_find_folder looks at the labels of the first level.
FindFolder(name) == [label |-> name, in |-> NoFolder] \in tree

\* A row gets a new label; the rows below it stay below it.
Relabelled(row, new) ==
  {IF x = row THEN [x EXCEPT !.label = new]
   ELSE IF row.in = NoFolder /\ x.in = row.label THEN [x EXCEPT !.in = new]
   ELSE x : x \in tree}

\* gtk_tree_store_remove drops the rows below as well.
Removed(row) ==
  {x \in tree : x # row /\ ~(row.in = NoFolder /\ x.in = row.label)}

-----------------------------------------------------------------------------
(* Tabs.                                                                   *)
(***************************************************************************)
\* lcrt_window_set_current_user and lcrt_create_terminal.
TabFor(t, r) ==
  /\ tabUser[t] = NoStruct
  /\ tabUser' = [tabUser EXCEPT ![t] = r]
  /\ currentUser' = r

MainWindow == dialog = "none"
ConnectDialog == dialog = "connect"
QuickDialog == dialog \in {"quick", "quick_in_connect"}

\* A tab is closed; the page that GTK switches to brings its own record.
DropTab(t) ==
  /\ MainWindow /\ tabUser[t] # NoStruct
  /\ tabUser' = [tabUser EXCEPT ![t] = NoStruct]
  /\ currentUser' \in ({currentUser} \cup {tabUser[o] : o \in Terminals \ {t}}) \ {NoStruct}
  /\ UNCHANGED <<listVars, db, saveVars, dialogVars, app>>

\* A login succeeds with "remember" chosen: the row of window.current_user is
\* written, auto save or not - read through a pointer that nobody keeps alive.
RememberLogin ==
  /\ \E t \in Terminals : tabUser[t] # NoStruct
  /\ IF currentUser \in Allocated
     THEN (\E quoted \in BOOLEAN : WriteRow(rec[currentUser], quoted)) /\ UNCHANGED app
     ELSE app' = "freed" /\ UNCHANGED <<db, alwaysSaved>>
  /\ UNCHANGED <<listVars, autoSave, dialogVars, tabVars>>

\* lcrt_toolbar_on_terminal_activate.
LocalShell(t) ==
  /\ MainWindow
  /\ LET known == Find(ShellName) IN
         \/ /\ known # NoStruct
            /\ TabFor(t, known)
            /\ \E quoted \in BOOLEAN : Save(rec[known], quoted)
            /\ UNCHANGED listVars
         \/ /\ known = NoStruct
            /\ \E r \in Structs : Add(r, Blank) /\ TabFor(t, r)
            /\ Save(Blank, FALSE)
  /\ UNCHANGED <<autoSave, dialogVars, app>>

-----------------------------------------------------------------------------
(* The quick connect dialog.                                               *)
(***************************************************************************)
OpenQuick ==
  /\ MainWindow
  /\ dialog' = "quick" /\ into' = NoFolder
  /\ UNCHANGED <<listVars, db, saveVars, tree, qStatus, tabVars, app>>

\* lcrt_connect_on_quick_connect_activate: the folder of the new session is the
\* selected folder, the folder of the selected session - or, for a session of the
\* first level, the name of that session.
FolderOfRow(row) ==
  LET r == Find(row.label) IN
  IF r = NoStruct THEN NoFolder
  ELSE IF ~rec[r].isFolder /\ rec[r].folder # NoFolder THEN rec[r].folder
  ELSE row.label

OpenQuickFromConnect ==
  /\ ConnectDialog
  /\ dialog' = "quick_in_connect"
  /\ into' \in {NoFolder} \cup {FolderOfRow(row) : row \in tree}
  /\ UNCHANGED <<listVars, db, saveVars, tree, qStatus, tabVars, app>>

CloseDialogs == dialog' = "none" /\ tree' = {} /\ into' = NoFolder

\* The protocol's create callback and lcrt_qconnect_on_button_connect_clicked.
\* A shell session ignores the folder.  Opened from "Connect" the new session
\* becomes the current one without a tab.
QuickConnect(host, shell) ==
  /\ QuickDialog
  /\ LET content == [name |-> UnusedLabel(host),
                     folder |-> IF shell THEN NoFolder ELSE into,
                     isFolder |-> FALSE]
     IN /\ \E r \in Structs :
             /\ Add(r, content)
             /\ \/ \E t \in Terminals : TabFor(t, r)
                \/ dialog = "quick_in_connect" /\ currentUser' = r /\ UNCHANGED tabUser
        /\ \E quoted \in BOOLEAN : Save(content, quoted)
  /\ qStatus' = "ok"
  /\ CloseDialogs
  /\ UNCHANGED <<autoSave, app>>

\* The shell or the serial device does not exist: the dialog stays up.
QuickConnectFails ==
  /\ QuickDialog
  /\ qStatus' = "cancel"
  /\ UNCHANGED <<listVars, db, saveVars, dialog, tree, into, tabVars, app>>

\* Cancel frees the dialog; the loop of lcrt_create_qconnect runs it again as
\* long as q_status is what a failed attempt has left there.
QuickCancel ==
  /\ QuickDialog
  /\ IF qStatus = "cancel"
     THEN app' = "spins" /\ UNCHANGED dialogVars
     ELSE /\ dialog' = IF dialog = "quick" THEN "none" ELSE "connect"
          /\ into' = NoFolder
          /\ UNCHANGED <<tree, qStatus, app>>
  /\ UNCHANGED <<listVars, db, saveVars, tabVars>>

-----------------------------------------------------------------------------
(* The connect dialog.                                                     *)
(***************************************************************************)
OpenConnect ==
  /\ MainWindow
  /\ dialog' = "connect" /\ tree' = TreeOfList
  /\ UNCHANGED <<listVars, db, saveVars, into, qStatus, tabVars, app>>

CloseConnect ==
  /\ ConnectDialog
  /\ CloseDialogs
  /\ UNCHANGED <<listVars, db, saveVars, qStatus, tabVars, app>>

\* A double click on a session; only "Connect in Tab" opens a tab for it.
Connect(row) ==
  /\ ConnectDialog
  /\ LET r == Find(row.label) IN
     /\ r # NoStruct /\ ~rec[r].isFolder
     /\ \/ \E t \in Terminals : TabFor(t, r)
        \/ currentUser' = r /\ UNCHANGED tabUser
  /\ CloseDialogs
  /\ UNCHANGED <<listVars, db, saveVars, qStatus, app>>

\* lcrt_connect_on_selection_changed reads an uninitialised pointer when the
\* label names no record.
SelectStaleRow(row) ==
  /\ ConnectDialog /\ Find(row.label) = NoStruct
  /\ app' \in {"up", "segv"}
  /\ UNCHANGED <<listVars, db, saveVars, dialogVars, tabVars>>

\* Session options of a record: neither its name nor its folder changes.
EditSession(r) ==
  /\ dialog \in {"none", "connect"}
  /\ r \in Allocated /\ ~rec[r].isFolder
  /\ \E quoted \in BOOLEAN : Save(rec[r], quoted)
  /\ UNCHANGED <<listVars, autoSave, dialogVars, tabVars, app>>

\* lcrt_mkdir_on_okbutton_clicked.
Mkdir(folder) ==
  /\ ConnectDialog
  /\ ~FindFolder(folder)
  /\ LET content == [name |-> folder, folder |-> folder, isFolder |-> TRUE] IN
     /\ \E r \in Structs : Add(r, content)
     /\ Save(content, FALSE)
  /\ tree' = tree \cup {[label |-> folder, in |-> NoFolder]}
  /\ UNCHANGED <<autoSave, dialog, into, qStatus, tabVars, app>>

\* lcrt_user_rename of a session.  Without auto save only memory changes; with it
\* the UPDATE must change a row for memory to follow.  One that finds no row
\* reports success all the same, and the tree believes it.  One that fails for an
\* apostrophe leaves the number of changed rows at that of the statement before
\* (before: it was one).
RenameSession(row, r, new, before) ==
  LET rows == RowsNamed(rec[r].name)
      clash == rows # {} /\ RowsNamed(new) # {}
      fails == Broken(new) \/ Broken(rec[r].name)
      changed == IF fails THEN before ELSE rows # {} /\ ~clash
  IN /\ rec' = IF autoSave => changed THEN [rec EXCEPT ![r].name = new] ELSE rec
     /\ db' = IF autoSave /\ changed /\ ~fails
              THEN (db \ rows) \cup {[x EXCEPT !.name = new] : x \in rows} ELSE db
     /\ tree' = IF autoSave /\ (IF fails THEN ~before ELSE clash) THEN tree
                ELSE Relabelled(row, new)
     /\ alwaysSaved' = (alwaysSaved /\ ~fails)

\* Mutant: a folder gets its new place but keeps its name.
RenameFolder_NameKept(row, r, new, before) ==
  /\ rec' = [c \in Structs |-> IF c \in InFolder(rec[r].folder) THEN [rec[c] EXCEPT !.folder = new]
                                                                ELSE rec[c]]
  /\ tree' = Relabelled(row, new)
  /\ UNCHANGED <<db, alwaysSaved>>

\* lcrt_user_rename of a folder: with auto save a record moves if its UPDATE has
\* changed a row, or has failed and the last one that did not has.  Only one
\* folder's row can take the new name; a record after it that has the old name
\* finds no row any more.  The result of the last UPDATE decides about the tree.
RenameFolder(row, r, new, before) ==
  LET members == {i \in 1 .. Len(users) : rec[users[i]].folder = rec[r].folder}
      Name(i) == rec[users[i]].name
      IsFolder(i) == rec[users[i]].isFolder
      HasRow(i) == RowsNamed(Name(i)) # {}
      Heir(i) == /\ IsFolder(i) /\ HasRow(i) /\ RowsNamed(new) = {}
                 /\ \A j \in members : j < i /\ IsFolder(j) => ~HasRow(j)
      Found(i) == HasRow(i) /\ \A j \in members : j < i /\ Heir(j) => Name(j) # Name(i)
      Fails(i) == Broken(new) \/ Broken(Name(i))
      written == {i \in members : ~Fails(i) /\ Found(i) /\ (IsFolder(i) => Heir(i))}
      Changed(i) == LET run == {j \in members : j <= i /\ ~Fails(j)} IN
                    IF run = {} THEN before ELSE \E j \in run \cap written : \A k \in run : k <= j
      moved == IF autoSave THEN {i \in members : Changed(i)} ELSE members
      last == CHOOSE i \in members : \A j \in members : j <= i
      MovedTo(x, isDir) == [x EXCEPT !.folder = new, !.name = IF isDir THEN new ELSE @]
  IN /\ rec' = [c \in Structs |-> IF \E i \in moved : users[i] = c THEN MovedTo(rec[c], rec[c].isFolder)
                                                                ELSE rec[c]]
     /\ db' = IF ~autoSave THEN db
              ELSE {IF \E i \in written : Name(i) = x.name
                    THEN MovedTo(x, \E i \in written : Name(i) = x.name /\ IsFolder(i))
                    ELSE x : x \in db}
     /\ tree' = IF autoSave /\ (Fails(last) \/ (IsFolder(last) /\ Found(last) /\ ~Heir(last)))
                THEN tree ELSE Relabelled(row, new)
     /\ alwaysSaved' = (alwaysSaved /\ \A i \in members : ~Fails(i))

\* lcrt_rename_on_okbutton_clicked.
NameIsFree(new) == Find(new) = NoStruct

\* lcrt_connect_on_rename_activate.
RenameRecord(row, new) ==
  /\ ConnectDialog
  /\ LET r == Find(row.label) IN
     /\ r # NoStruct
     /\ NameIsFree(new)
     /\ \E before \in BOOLEAN :
        \/ rec[r].isFolder /\ new \in FolderLabels /\ RenameFolder(row, r, new, before)
        \/ ~rec[r].isFolder /\ new \in HostLabels /\ RenameSession(row, r, new, before)
  /\ UNCHANGED <<users, autoSave, dialog, into, qStatus, tabVars, app>>

\* Mutant: the rows of a deleted folder's sessions stay.
DeleteRows_FolderOnly(r) == db' = IF autoSave THEN db \ RowsNamed(rec[r].name) ELSE db

\* The rows that go with the record.
DeleteRows(r) ==
  db' = IF ~autoSave THEN db
        ELSE IF rec[r].isFolder THEN {x \in db : x.folder # rec[r].folder}
        ELSE db \ RowsNamed(rec[r].name)

\* lcrt_connect_on_delete_activate, confirmed.  A record created here has one
\* reference and a loaded one none, so lcrtc_user_destroy frees either.
Erase(row) ==
  /\ ConnectDialog
  /\ LET r == Find(row.label) IN
     /\ r # NoStruct
     /\ LET gone == IF rec[r].isFolder THEN InFolder(rec[r].folder) ELSE {r} IN
        /\ users' = Without(gone)
        /\ rec' = [c \in Structs |-> IF c \in gone THEN Blank ELSE rec[c]]
     /\ DeleteRows(r)
  /\ tree' = Removed(row)
  /\ UNCHANGED <<saveVars, dialog, into, qStatus, tabVars, app>>

-----------------------------------------------------------------------------
(* Options, exit and start.                                                *)
(***************************************************************************)
SwitchAutoSave ==
  /\ MainWindow
  /\ autoSave' \in AutoSaves \ {autoSave}
  /\ alwaysSaved' = (users = <<>> /\ db = {} /\ autoSave')
  /\ UNCHANGED <<listVars, db, dialogVars, tabVars, app>>

\* Exit or crash, and lcrt_user_load_config of the next start: the records are
\* what the rows say.
Restart ==
  /\ users' = [i \in 1 .. Cardinality(db) |-> i]
  /\ \E row \in [1 .. Cardinality(db) -> db] :
       /\ {row[i] : i \in DOMAIN row} = db
       /\ rec' = [r \in Structs |-> IF r \in DOMAIN row THEN row[r] ELSE Blank]
  /\ CloseDialogs
  /\ qStatus' = "none"
  /\ tabUser' = [t \in Terminals |-> NoStruct]
  /\ currentUser' = NoStruct
  /\ app' = "up"
  /\ UNCHANGED <<db, saveVars>>

StoreInit ==
  /\ users = <<>>
  /\ rec = [r \in Structs |-> Blank]
  /\ db = {}
  /\ autoSave \in AutoSaves /\ alwaysSaved = autoSave
  /\ dialog = "none" /\ tree = {} /\ into = NoFolder
  /\ qStatus = "none"
  /\ tabUser = [t \in Terminals |-> NoStruct]
  /\ currentUser = NoStruct
  /\ app = "up"

TabsStep ==
  \/ \E t \in Terminals : DropTab(t) \/ LocalShell(t)
  \/ RememberLogin

QuickStep ==
  \/ OpenQuick \/ OpenQuickFromConnect \/ QuickConnectFails \/ QuickCancel
  \/ \E host \in Hosts, shell \in BOOLEAN : QuickConnect(host, shell)

ConnectStep ==
  \/ OpenConnect \/ CloseConnect
  \/ \E row \in tree : Connect(row) \/ SelectStaleRow(row) \/ Erase(row)
  \/ \E row \in tree, new \in HostLabels \cup FolderLabels : RenameRecord(row, new)
  \/ \E r \in Structs : EditSession(r)
  \/ \E folder \in FolderLabels : Mkdir(folder)

StoreNext ==
  \/ app = "up" /\ (TabsStep \/ QuickStep \/ ConnectStep \/ SwitchAutoSave)
  \/ Restart

StoreSpec == StoreInit /\ [][StoreNext]_storeVars

-----------------------------------------------------------------------------
(* Properties.                                                             *)
(***************************************************************************)
\* The user gives no folder the name of a session.  lcrt does not see to it: it
\* compares a new folder with the first level of the tree only.
NamesApart == SessionLabels \cap FolderLabels = {}

\* There are labels enough for every record with the same host.
LabelsSuffice == MaxRecords <= MaxLabel + 1

\* No two sessions have the same name: everything that looks a session up does so
\* by name, in whatever order quick connects, renames, new folders and the load at
\* start have made the records.  With auto save on all along and no apostrophe,
\* neither have two folders, or a folder and a session; the rename of a folder that
\* is not saved changes the tree only, and then a second folder of its name can be made.
NamesUnique ==
  LabelsSuffice =>
    \A r, s \in Allocated :
      /\ rec[r].name = rec[s].name
      /\ (NamesApart /\ alwaysSaved) \/ (~rec[r].isFolder /\ ~rec[s].isFolder)
      => r = s

\* A folder lies in itself: its row in the tree, labelled with the one, is
\* looked up by the other.
FoldersHoldThemselves ==
  NamesApart => \A r \in Allocated : rec[r].isFolder => rec[r].folder = rec[r].name

\* With auto save always on, and no text with an apostrophe used, the table says what
\* the list says, so that an exit or a crash at any moment loses no session, folder or
\* change of either.
SavedAsShown ==
  NamesApart /\ LabelsSuffice /\ alwaysSaved => db = {rec[r] : r \in Allocated}

-----------------------------------------------------------------------------
(* The inductive invariant.                                                *)
(***************************************************************************)
Parents == Labels \cup {NoFolder}
TableRows == [name : Labels, folder : Parents, isFolder : BOOLEAN]
TreeRows == [label : Labels, in : Parents]

\* A struct is in the list once, and a name in the table once.
ListOK == users \in Seq(Structs) /\ \A i, j \in 1 .. Len(users) : users[i] = users[j] => i = j
TableOK ==
  /\ db \subseteq TableRows /\ IsFiniteSet(db) /\ Cardinality(db) <= MaxRecords
  /\ \A x, y \in db : x.name = y.name => x = y

\* Every variable has its type.
StoreTypeOK ==
  /\ ListOK /\ rec \in [Structs -> TableRows]
  /\ TableOK
  /\ autoSave \in BOOLEAN /\ alwaysSaved \in BOOLEAN /\ (alwaysSaved => autoSave)
  /\ dialog \in {"none", "connect", "quick", "quick_in_connect"}
  /\ tree \subseteq TreeRows /\ into \in Parents
  /\ qStatus \in {"none", "ok", "cancel"}
  /\ tabUser \in [Terminals -> Structs \cup {NoStruct}]
  /\ currentUser \in Structs \cup {NoStruct}
  /\ app \in {"up", "freed", "spins", "segv"}

SessionsDistinct ==
  \A r, s \in Allocated :
    rec[r].name = rec[s].name /\ ~rec[r].isFolder /\ ~rec[s].isFolder => r = s

\* A folder has a folder's name and lies in itself; a session has a session's.
Shaped(x) == IF x.isFolder THEN x.name \in FolderLabels /\ x.folder = x.name
                           ELSE x.name \in SessionLabels

RowsShaped == (\A r \in Structs : Shaped(rec[r])) /\ \A x \in db : Shaped(x)

\* No folder is shown inside a folder.
TreeShaped == \A row \in tree : row.label \in FolderLabels => row.in = NoFolder

\* The list and the table say the same, and each name is there once.
ListIsTable ==
  /\ db = {rec[r] : r \in Allocated}
  /\ \A r, s \in Allocated : rec[r].name = rec[s].name => r = s

\* Where Mkdir looks, the tree shows every folder there is.
TreeHasFolders ==
  dialog \in {"connect", "quick_in_connect"} =>
    \A r \in Allocated : rec[r].isFolder => [label |-> rec[r].name, in |-> NoFolder] \in tree

StoreInv ==
  /\ StoreTypeOK
  /\ LabelsSuffice => SessionsDistinct
  /\ NamesApart => RowsShaped /\ TreeShaped
  /\ NamesApart /\ LabelsSuffice /\ alwaysSaved => ListIsTable /\ TreeHasFolders

-----------------------------------------------------------------------------
(* What comments and messages say and the code does not keep.              *)
(***************************************************************************)
\* "There has a same one, try an another!": making a folder never turns the saved
\* row of a session into a folder's.
SessionRowsStaySessions ==
  [][\A x \in db, y \in db' : x.name = y.name /\ ~x.isFolder => ~y.isFolder]_storeVars

\* "auto save connection information": with auto save on every session and folder of
\* the list has its row.
AutoSaved == NamesApart /\ LabelsSuffice /\ AutoSaves = {TRUE} => {rec[r] : r \in Allocated} \subseteq db

\* "we should update all it's children": after the only folder of its
\* name has a new one, no session is left in the old one.
Renamed(r) == rec[r].isFolder /\ rec'[r].name # rec[r].name
RenameMovesTheChildren ==
  [][NamesUnique /\ users' = users /\ dialog = "connect" /\ dialog' = "connect" =>
       \A r, c \in Allocated :
         Renamed(r) /\ ~rec[c].isFolder /\ rec[c].folder = rec[r].name
           => rec'[c].folder = rec'[r].name]_storeVars

\* "In treeview, there are all sessions you created": what the tree shows can be
\* selected and opened.
TreeShowsRecords == \A row \in tree : Find(row.label) # NoStruct

\* "user information of current terminal": the record of an open tab exists.
TabsKeepTheirRecord ==
  \A t \in Terminals : tabUser[t] # NoStruct => tabUser[t] \in Allocated

\* "which button user has clicked": Cancel ends the quick connect dialog.
CancelEndsTheDialog == app # "spins"
=============================================================================

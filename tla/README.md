# Verification of lcrt

lcrt (`src/src/`, C, GTK 2 and VTE) is a terminal manager: one window with a
notebook of tabs, each tab a session of ssh, telnet, a serial line or a local
shell, a database of saved sessions, and dialogs for options and shortcuts.
This directory holds TLA+ modules translated from its code, the TLC runs that
check them on small instances, and proofs, checked by TLAPS, of the properties
that matter most for every instance.

Lines of the manual below are those of `src/help/en_US/lcrt.xml`; all other files
are in `src/src/`.

## The system

lcrt has one thread and one main loop, yet it is a concurrent program. Signal
handlers run one at a time, but `gtk_dialog_run` runs a main loop of its own:
while a dialog is up the handler that opened it is suspended half-way, and the
handlers of other signals - output of a child, its exit, input of a device -
change the state beneath it. Handlers resume last in, first out. A modal
dialog keeps the user from everything but its own buttons; some dialogs of lcrt
are not modal, or stop being modal. Around lcrt, children print, exit and are
killed, devices are pulled out, other handlers free what one still points to, and
the process can be killed between any two handlers. "Connect" forks a second lcrt
on the same files, so that two processes write the same tables.

| Component | State | Operations | Meets others by | What is hard, and what must hold |
|---|---|---|---|---|
| tabs and notebook (`inotebook.c`, `cnotebook.c`, `iterminal.c`, `cterminal.c`, `cfile.c`) | tabs, current tab and record, status word, toolbar buttons, the Return handler | open, clone, select, close, connect, reconnect (all), disconnect (all) | callbacks of the protocol; VTE's signals | handlers suspended on a tab that goes; the toolbar follows a status that changes in background tabs; Return armed exactly once and never in a live session |
| ssh (`ssh.c`) | private data, denial count, pid, record's login and password | connect, receive, disconnect, login dialog | reads the client's screen; records shared by tabs | output and exit during the dialog; the password goes to the login it belongs to; three denials and no more; a death is noticed |
| telnet (`telnet.c`) | progress bits in the status word | the same | the same | bits next to compared values; nested login dialogs; the password only at its prompt |
| shell (`shell.c`) | pid | connect, receive; disconnect is empty | the child's output and exit | reconnect of a live shell; no exit lost; closing a tab leaves no shell but those that Reconnect All has displaced |
| serial (`serial.c`) | descriptor, watch, commit handler | connect, disconnect, read, write | the main loop's poll; the device | descriptors reused at once; watches left over; what is typed reaches the tab's own port |
| session store (`user.c`, `iconnect.c`, `cconnect.c`, `cmkdir.c`, `crename.c`) | list of records, rows, tree of the dialog, pointers of tabs | quick connect, new folder, rename, delete, options, load | everything finds a record by its name; tabs by pointer | several writes per rename; statements that an apostrophe breaks; names must stay unique; the table equals the list |
| quick connect form (`iqconnect.c`, `cqconnect.c`, the show and create callbacks) | fields of one protocol, button, folder | select protocol, enter, connect, cancel, password dialog | callbacks of the protocol; records changed beneath it | state left by the protocol before; one password field for three meanings |
| session lock (`ilock.c`, `clock.c`) | lock flag, password, dialogs | lock, unlock, cancel | every command has to look at the flag | dialogs left over after a mismatch; a locked tab takes no input; the password stays the one it was locked with |
| popup menu, find, clipboard (`ipopup.c`, `cpopup.c`, `ifind.c`, `cfind.c`, `cedit.c`) | sensitivity of items and of the Paste button; the find dialog's regular expression | open, choose, close; type, next, previous, cancel; select, paste | all ask for the current tab when they act | built for one tab, acting on another; a state older than what it is about; a regular expression that outlives its dialog |
| shortcuts (`iaccels.c`, `caccels.c`) | table, dirty flag, file, accelerator group | start, edit, popup, save, exit | menus and notebook fill the group | upgraded files; keys stay distinct; an edit comes back |
| global options (`isettings.c`, `csettings.c`, `cview.c`, `coptions.c`) | fields, widgets, terminals, bars, check items, rows | dialog buttons, View and Options menu, save, exit | open terminals; bars | one option in up to six places; copies agree |
| main window, configuration store (`lcrt.c`, `iwindow.c`, `cwindow.c`, `mkconfig.c`) | the process; the tables of users and of the window | start, first start, new window, exit, crash | several processes on one database | a save of two statements; statements refused by a lock and not looked at; a first start cut short or refused; a failed exec that leaves a copy of lcrt |
| bars, help, support code, language files | widgets, text | - | - | see *Not modelled* |

PROJECT.json lists the components with what is left out of each, and the hazards
line by line with the properties that would catch them.

## Modules

```
TabSession            what a tab promises its user (abstract)
  ^ implemented by
TerminalCore          tabs, status, toolbar, Return key, nested main loops
  ^ extended by
SshSession  TelnetSession  ShellSession  SerialSession

SessionLock           locks and lock dialogs, one tab at a time
  ^ extended by
TabCommands           which tab a menu, key, popup or find dialog acts on

SessionStore   QuickConnect   Shortcuts   GlobalOptions

Windows               several processes on one set of tables
```

`MC<module>` instantiates a module for TLC: model values and the symmetry of
interchangeable tabs, records and names. The theorems of `TerminalCore` and of the four protocols
are in `<module>_proofs`; `Commands_proofs` has those of `TabCommands` and `Shortcuts`,
`Dialogs_proofs` those of `GlobalOptions` and `QuickConnect`, `SavedSessions_proofs` those of
`SessionStore` and `Windows`. Where two modules share a file of proofs, the second one's
specification is named for it (`KeysSpec`, `FormSpec`, `StoreSpec`). Definitions whose
name has an underscore, like `ArmReturnKey_FlagForgotten`, are variants with a
plausible bug; each property of each run is violated when one of them takes the place
of the definition it is a variant of.

### TerminalCore and TabSession

`TerminalCore` holds the variables that all protocols share. `tabs`, `current` and
`currentUser` are `notebook.child`, `notebook.current_terminal` and
`window.current_user`; `status` is `lterminal->connected` with the values of
`lcrt_terminal_status_t`; `keyHandlers` counts how often key-press-event is
connected, `signalConnected` is the flag that should say so. `SetStatus`,
`ArmReturnKey`, `SwitchPage`, `NewPage`, `DestroyPage` are `lcrt_terminal_set_status`,
the exit handler's and the notebook's code.

`stack` holds the suspended handlers, the innermost first. A frame says which
dialog it waits in, for which terminal, and what it needs to go on. User actions ask for
`Idle` (no dialog); answering a dialog works on the innermost frame; callbacks of
children ask only that the main loop polls (`Polling`: the innermost frame is a
dialog). This one variable gives the interleavings that dialogs allow, and no others:
these dialogs set modality explicitly, and the loops over all tabs (Reconnect All)
are frames with the terminals they still have to visit.

`TabSession` is the abstract specification: tabs open, a session comes up, it ends
(then Return is armed) or is dropped (then it is not), tabs close. The
mapping is `open <- tabs`, `live <- {t : status[t] = CONNECTED}`,
`armed <- {t : keyHandlers[t] # 0}`. What ends a session and what drops it is not the same for
all protocols: the user's Disconnect drops an ssh or telnet session, does nothing to a shell, and
ends a serial session, because `lcrt_serial_disconnect` calls `lcrt_terminal_on_child_exited`
itself (serial.c:268). So `IsTabSession` of each protocol has a second conjunct that ties `End` to
its cause: a step offers Return (`OffersReturn`) iff it delivers the exit of a connected session's process (ssh, telnet,
shell), or iff a session leaves its open tab (`GoesDown`) in any way but Reconnect All (serial).
All four protocols are checked and proved to implement it. The manual's promise that Enter connects whenever
a session "had been disconnected" holds of serial tabs only but for Reconnect All (`EnterConnectsAgain`, below).

A login that is noticed also feeds the record's default command to the child (`Commanded` are the
records that have one, cterminal.c:109); what that line does there each protocol says (`Commands`).

### SshSession

The environment is the ssh client on the pty: `child[t]` is its phase (printing,
asking for a password or a yes, checking, logged in, dead, reaped); it prints what
such a client prints and may die at any time (`Die`). `Receive` is contents-changed with the
whole of `lcrt_ssh_receive`: the prompts in the order of its tests, `Restart` for the
dialog that has changed the login name (kill, new client), the third denial, and the case "anything else is a
login". `AnswerLogin` and `ResumeReceive` are the two halves of the handler around the
dialog. A denial and the prompt that follows it come on one screen or on two (the phase `again` lies
between): on two, the denial opens a login dialog, whose main loop delivers the prompt, which opens a second one
of the same tab above it - and so on, as far as `MaxDialogs` bounds it; the code does not. A handler has
read `private_data` before its dialog and goes on with that struct: `own` in a frame says whether it is still the
terminal's, and a connect made from a dialog further in takes it from the frames beneath (`Disown`). So what the outer handler notes of
the denials and of a changed name goes into a struct that nobody reads any more. `ChildExited` is VTE's child-exited, delivered at any time after the death,
in a dialog's main loop or the outer one. `app` turns to a final value where the code
dereferences NULL or signals process group 0.

Assumed of VTE: a terminal's pending output is handled before its child-exited.
Output after exit then arises only through handlers that dialogs suspend, which the
model has. `lcrt_exec_check` looks at a protocol that `ssh.c` and `shell.c` leave
uninitialised: its answer is any of `FoundChoices`. `SecretChoices` says whether records have a
password stored, `AsksHostKey` whether the client may ask to accept a host key. The default command is a line to the
child: at a password prompt it is taken for the password (`Fed`). What the user types past lcrt, at the prompt of the client itself,
is not modelled; nor is a live child that a reconnect displaces, of which no property speaks (for
shells, where lcrt never kills but by pid, it is: below).

### TelnetSession, ShellSession, SerialSession

`TelnetSession` keeps the status word as a set of bits (`HasBit`, `SetBit`,
`TelnetStatus == 0 .. 63`), because `telnet.c` or-s `SEND_USERNAME` and `SEND_PASSWORD`
into the value that the rest of lcrt compares. Its login dialogs do nest; `MaxDialogs` bounds how
many. Any line that asks for neither name nor password, with both sent or no name in the record, is taken for a
login, and the default command then goes to whatever the child asks next (`Commands`; `CommandsGoToShell` below). The telnet program is taken to be installed: without it a tab shows one
message and nothing runs in it.

`ShellSession` is the smallest: any output means connected, disconnect is empty,
so Reconnect overtakes exits. A fork over a live shell overwrites its pid (`Displace`): `loose` are the tabs, open
or closed, of which such a shell still runs; the hang-up of its pty, or the "exit" that Reconnect All fed,
ends it (`LooseDies`) or does not. `strayKill` and `asked` are history variables.

`SerialSession` has no child. A poll marks the watches of a device with input
(`Arrive`), each marked watch is dispatched later (`ReadInput`, `ReadNothing`,
`ReadHungUp`, `ReadFreed`) and the first read takes everything. Descriptors are numbers,
`NextFd` is the lowest free one. `Down` is the exit handler called as a function, by the user's Disconnect as by a
watch that finds the device gone. The default command reaches a commit handler, which writes it
to the port or, with an old handler whose data is gone, through NULL (`WriteThroughNull`, the end of lcrt). `errno` after a read that returns 0 is whatever
another call left: both outcomes.

### SessionStore and QuickConnect

`SessionStore` has the list in its order (`users`), the rows with the name as primary key, the
tree of the connect dialog as a set of rows, and the tabs' pointers. Each operation
of the dialog is one action, since its sub-dialogs are modal and change nothing else; a rename does
its UPDATEs one by one, each of which may match nothing or hit the key (`RenameFolder`: of the
folders with the old name only the first that has a row can take the new one, and what comes after
it finds no row of its name). Values go into the statements between apostrophes as they are: of a name in `Quoted`,
or with a text that has an apostrophe (`quoted` of `Save`), both the UPDATE and the INSERT fail and nobody looks
(`Broken`, `WriteRow`); a failed UPDATE of a rename leaves `sqlite3_changes` at what an earlier statement left, and that
decides (`before`). A text whose apostrophes come in pairs, which the literal takes for one, is not modelled. `alwaysSaved` is
whether auto save has been on and no statement has failed so. A record is the smallest free struct, so a freed one can be reached
by a stale pointer. Two conditions of its properties are named: `NamesApart`, that the user gives
no folder a session's name, which lcrt does not see to; and `LabelsSuffice`, that the search for
an unused label finds one.

`QuickConnect` has the form and the show and create callbacks of every protocol:
which fields a change of protocol resets, which it leaves, what Ok writes, and the two dialogs
above and beneath it (ssh's password dialog; the login dialog of a terminal, which
changes the record that the form shows). ssh1/ssh2 and telnet/telnet-ssl share
their code and their model. rlogin's create callback falls off its end: its result
is a choice. Of a serial line's parameters only the device is kept. A save of a record with a text in `QuotedTexts` fails and
notes the record as `refused`, until one that succeeds (`WriteSession`). A login changes a record only
from the tab in front, as the dialog is above it.

### SessionLock and TabCommands

`SessionLock`: the lock dialog is run by `gtk_dialog_run`, whose modality ends with
any response; after a mismatch the dialog stays on the screen, is not modal any more, and its OK
works on whatever its terminal is by then. (The dialogs of `TerminalCore` set modality
themselves and are not left like this.) `reached` notes the locked sessions that a
command has been told to.

`TabCommands` says from where a command comes and which tab it reaches. The File and
Edit menus, the toolbar and the keys act on `current` (`WindowCommand`); so do the
items of the popup menu, which is built for the tab that was clicked (`popup` is the
state of that tab then, `Offered` the sensitivity of an item, `PopupItem` its handler, which
looks at the status again and at the lock not), and the buttons of the find dialog.
`mixed` are the tabs whose status word is CONNECTED with login bits of telnet or-ed in
(`LoginBit`), past the toolbar. The two are modal all their life (`Grabbed`), so that the user gets at nothing
else (`Free`), while sessions come and go (`Session`) and selections change
(`SelectionChanged`, also of a tab in the background). `regex[t]` is what terminal `t` searches: nothing,
the regular expression of the dialog, or one that a dialog has left. A session is up,
mixed or neither here; how it gets there is in the modules of the protocols.

### Shortcuts and GlobalOptions

`Shortcuts`: the table, its file - of this release, of an older one that lacks rows, or
none - and the accelerator group. `Exit` saves if something is dirty and auto save is on, one
action per row (`SaveRow`), as a first start makes the table (`CreateRow`); `behind` notes the actions
whose row the first file lacked or a save cut short by a kill has not reached. One process has the
table here: a second window that rewrites it is not modelled.

`GlobalOptions` groups the options by where their handlers put them (`LiveOptions`:
at once, `BellOptions`: by Apply, also to open tabs, ...), which is all the handlers tell
apart. `stale` notes options that Reset has set and whose menus and bars stayed. The branch of
the dialog for one session is dead code (`#if 0`, coptions.c:21) and left out.

The settings table (`file`) is its rows in the order of their insertion. `Exit`, `SaveNow` and a first
start set a `job`, whose rows `WriteNext` and `WriteLast` write one by one in the order of `LCRT_LT_NAME`
(`Order`); only `Crash` comes in between. `Put` leaves the table alone for a value with an apostrophe
(`Quoted`): it ends the literal, and UPDATE and INSERT fail. `Start` reads by position, so a row that a
killed first start has left out, and that could not be inserted later, shifts the rows behind it
(`Misread`). `touched` notes the options whose rows a save has come to since the last one that was
completed. The table is one process's here.

### Windows

A process is off, creates the window table (the first start), loads, is up, is between the
two statements of a save, or closes (`pc`). One action is one SQL statement, or what a handler does
between statements: so two processes interleave as sqlite lets them. `SaveOne` is the UPDATE of
`lcrt_user_save_one`, `InsertOne` the INSERT that follows when no row has changed;
`CreateFrame` and `SaveFrame` write the window table row by row, a first start that cannot read the table (`Begin`) as well as one that finds none. A statement can be refused if another process is alive
(`Outcome`); no caller looks at the result, which the code shows through
`sqlite3_changes` only. `NewWindow` forks and execs a process with a name for `-c`;
`CopyOfItself` is the child whose exec has failed and which returns into the main loop with
its parent's list and tabs. `Crash` is possible anywhere.

Four variables are history. `excused[w]` are the names of which process `w` may not know what
the table holds: changed without saving, refused, or written by another process. `promised` is the content
a new window was made for, `kept` the frame that the last undisturbed end has
saved, `cut` the rows of the window table that a first start has not brought through, refused or cut short, until an end
saves them. A session is a name and a content here, since two
processes meet through rows only; what is in a row is the subject of `SessionStore` and `QuickConnect`.

## Runs

| Run | What it asks | Bounds |
|---|---|---|
| `ssh_shared` | Two tabs on one record: `OneReturnHandler`, `ToolbarFollowsStatus`, `SuspendedOnOpenTabs`, `PromptKeepsItsChild` (a handler that has read a prompt keeps the process at it, though login dialogs of its tab nest), `IsTabSession` | 2 tabs, 1 record, 1 login name or none, 2 dialogs at once, no password stored, program found, key known |
| `ssh_one_tab` | The login itself: `IInv`, `ConnectsToChild` (which step alone can turn a tab connected without a process), `GivesUpAfterThree`, `PasswordGoesToItsLogin`, and under fairness `DeathNoticed` | 1 tab, 2 names or none, 3 dialogs at once, a default command, remember on/off, password stored or not, program found or not, a new host key |
| `ssh_kills_only` | Refutes ssh.c:160's "previous connection": `KillsOnlyTheConnection` | 1 tab |
| `telnet_tabs` | `TabInv` (types, Return handler, toolbar, current tab, suspended handlers), `PasswordToItsPrompt`, `IsTabSession` | 2 tabs, 1 record with a default command, 2 nested dialogs |
| `shell_tabs` | `ConnectedHasShell` (no exit lost), `ShellsStayInHand` (how alone lcrt loses a shell), `IsTabSession` | 3 tabs, 1 record with a default command |
| `serial_tabs` | `TabInv`, `PortIsItsOwn` (what is typed goes to the tab's own port), `IsTabSession` | 2 tabs, 1 device and record with a default command, 3 descriptors |
| `store_toggled` | `NamesUnique` (no two records that the table or the tree take for one), `FoldersHoldThemselves`, `SavedAsShown` while auto save is on and no statement is broken by an apostrophe; both `NamesApart` and `LabelsSuffice` are true of it | 2 records, 1 tab, 1 host, 3 folders of which one has an apostrophe, other texts with and without |
| `tab_commands` | `LockedTakesNoInput`, `LockPasswordKept`, `PopupSparesLocked`, `FindKeepsToItsTab`, `PasteFollowsStatus` | 2 tabs, 2 lock dialogs, 2 passwords |
| `shortcuts_upgraded` | `KeysDistinct`, `BoundAsStored`, `EditsComeBack` | 3 actions, 4 keys, first files of 3 rows, of 2, or none |
| `options` | Dialog, tabs and menus: `TabsFollowOptions`, `ClosedDialogShowsOptions`, `WindowFollowsOptions`, `SavedComesBack` | 2 tabs, 1 bar, auto save, a font (one of two names has an apostrophe) and the bell |
| `windows_shared` | `RowsAgree` (lists and table), `NewWindowHasItsSession`, `WindowComesBack` | 2 processes, 2 names, 2 contents, 2 frames, a window table of 2 rows, 1 tab each |
| `quick_form` | `SessionsFit`, `FormIsSaved`, `KeepsTheRest` | 1 name, one value of each field and its default, a password with an apostrophe, 2 devices |

Every run but `ssh_kills_only` passes, and none can stop: deadlock is checked
everywhere, and where lcrt is gone (`app`) the model stutters or restarts.

Why the bounds are enough for what the runs ask:

- Tabs meet through the notebook (one current tab), the toolbar, a shared record and the
  stack. Two tabs give every order of two; three only add a third bystander, which
  `shell_tabs` has because Reconnect All with one tab done, one in a dialog and one
  to come needs three. `ssh_shared` splits from `ssh_one_tab` because the names and the
  second tab multiply; the properties of each need only one of them.
- The code bounds the stack of neither ssh nor telnet. `MaxDialogs = 2` is the first nesting, of one tab's dialogs or of two
  tabs'. `ssh_one_tab` has three, so that a denial, the prompt after it and a second denial of the connection that the inner
  dialog has made are all up at once. The invariants are proved for any number.
- `MaxFds = 3`: each tab has a descriptor and one is left over by a second
  connect, whose number can be reused. A third tab of the same device would only be one of the two again.
- `MaxRecords = 2`, `MaxLabel = 1`: two records are what a clash of names needs;
  `MaxLabel = 1` lets the search for a free label end within reach (the code's
  `LCRT_MAX_LABEL` is far beyond it). With three records the search reaches its end, `LabelsSuffice` fails and two sessions share a
  label; see the table below.
- `MaxDialogs = 2` lock dialogs: one left over, of the same tab or of another, and one running. A third
  one meets the others only through the lock and the password of its tab; the
  proofs are for any number.
- `windows_shared`: two processes are what a conflict needs, two names what a rename
  needs. The code's window table has four rows (`FrameRows`); two already have a first and a last one. The
  constraint `OneTableAtATime` explores the changes of one table while the other is as the
  first start has left it: no step reads or writes both. The proofs need neither bound.
- `options` has one option of each kind that a property compares but for the F10 key, which Apply and
  the closing of the dialog treat as they do the bell; its table has four rows, of a bar, the font, the bell
  and Auto Save Options in this order: a quoted value can be missing before others. Scroll options and the start-up
  dialog depart from what is said of them and are in the table below.
- Three actions and four keys: one action of each place that fills the group, and one free key.
- `quick_form` has one name, since no step of the form touches two records; the tree and the names
  are `SessionStore`'s.
- Symmetry is used for tabs, records, names and folders that are only compared for equality, never
  in the run with a liveness property.

### Fairness

Only `DeathNoticed` needs any: `FairSpec` asks that a handler that can go on does
(`WF` of `HandlerStep`; it is plain C code returning from a dialog or walking a list) and
that a child-exited that can be delivered again and again is (`SF` of `ChildExited`;
GLib dispatches a ready child watch whenever some main loop runs). It is strong because a step of another handler
may disable it for a while. Nothing is asked of the user, the
network or the child: a dialog may stay up for ever, since its main loop delivers the exit too.

## Proofs

TLAPS checks the modules `*_proofs`. All theorems are for any number of tabs, records, names,
options, keys and values, from the assumptions on constants alone (`CoreAssumption`,
`SshAssumption`, `TelnetAssumption`, `ShellAssumption`, `SerialAssumption`, `StoreAssumption`,
`FormAssumption`, `ShortcutsAssumption`, `OptionsAssumption`, `LockAssumption`,
`WindowsAssumption`), which say that NULL is no tab and no record, that choices are Booleans, that
bounds are positive numbers, that records with a default command are records, that no text the user
enters is empty, that option groups are disjoint and each option has one place in its table, that an action has one place in its, that
defaults are distinct and without apostrophe, and that what stands for "none" is none of the values. TLC evaluates them on every run.

Every property of the passing runs is proved except `DeathNoticed`.

| Module | Theorem | Says |
|---|---|---|
| `TerminalCore_proofs` | `OfferedOnlyWhereNothingRuns` | `TabSession` implies that Return is armed only in open tabs without a session |
| `SshSession_proofs` | `SshInvariant`, `TypeCorrect`, `SuspendedSafe`, `ReturnHandlerOnce`, `ToolbarCorrect` | the invariant and its parts |
| | `GivesUp` | three denials end a connection |
| | `PromptsKeepTheirChild` | a handler that has read a prompt has the connection and its process to itself, however login dialogs nest |
| | `ConnectedHasProcess` | which step alone turns a tab connected without a process (`ConnectsToChild`), also when tabs share a record |
| | `PasswordsGoToTheirLogin` | a stored password is submitted only to a connection started under the record's present login name, if no other tab has the record |
| | `ImplementsTabSession` | ssh tabs implement `TabSession`, and only an exit offers Return |
| `TelnetSession_proofs` | `TelnetInvariant`, `TelnetTabsKeepShape` | the invariant; types, Return handler, toolbar, current tab, suspended handlers |
| | `PasswordsAnswerTheirPrompt` | a password dialog stands over a process at its prompt |
| | `TelnetImplementsTabSession` | telnet tabs implement `TabSession`, whatever bits are in the status word, and only an exit offers Return |
| `ShellSession_proofs` | `ShellInvariant`, `ShellEndsAreSeen`, `ShellsAreKeptInHand`, `ShellImplementsTabSession` | the same for shells; every exit of a connected shell is seen, and lcrt loses hold of a shell only by forking another over it, never by closing its tab |
| `SerialSession_proofs` | `SerialInvariant`, `SerialTabsKeepShape` | the invariant; what telnet's says, of serial tabs |
| | `PortsAreTheirOwn` | a tab writes to an open descriptor of its own session, with its own watch |
| | `SerialImplementsTabSession` | serial tabs implement `TabSession`, and every way down but Reconnect All offers Return |
| `SavedSessions_proofs` | `StoreInvariant`, `NamesTellRecordsApart`, `FoldersLieInThemselves`, `TableIsList` | the invariant of the store and the properties of `store_toggled`, for any number of records, labels and folders, with and without apostrophes |
| | `WindowsType`, `WindowsRows`, `WindowsAgree`, `WindowsOpenTheirSession`, `WindowsComeBack` | the properties of `windows_shared`, for any number of processes, names, rows and tabs, with what they rest on |
| `Dialogs_proofs` | `SessionsFitTheirProtocol` | every session has the host and the password field its protocol reads |
| | `FormsAreSaved`, `OptionsKeepTheRest` | with auto save on all along the table has what the form has set, but where an apostrophe broke the last save of the record; Ok in the options leaves what was not changed |
| | `TerminalsFollowOptions`, `ClosedDialogAgrees` | open terminals and a closed dialog follow the options |
| | `WindowAgrees`, `SavedOptionsComeBack` | bars and check item follow the options but for what a Reset has left; a start has the options of the last save, where their rows could be written and are in their places |
| `Commands_proofs` | `TabCommandsInvariant`, `LocksHold`, `PasswordsKept` | a tab takes input iff it is not locked, and no old dialog replaces the password it was locked with |
| | `PopupKeepsOff` | the popup menu of the current tab does not reach it while it is locked |
| | `FindStaysOnItsTab`, `PasteFollows` | the find dialog searches its own tab; the Paste button follows the current tab, but for login bits or-ed into its status |
| | `ShortcutsFollowTheFile`, `KeysStayDistinct` | table, group and file agree; two actions share a key only where one is `behind` |
| | `KeysComeBack` | the first start after an exit with auto save has the keys of the exit |

Each invariant below was checked by TLC on the instance of its run before it was proved.

**Tabs.** `OneReturnHandler` and `ToolbarFollowsStatus` are not inductive: a dialog's
answer acts on the terminal its frame names, so a frame of a closed tab
would break both. `IInv` of ssh adds the types, that every suspended handler is on an open tab in a
form its dialog can have left (`FrameOK`), that a close confirmation is the
outermost frame (`StackOK`: so the tab it closes has no other handler suspended on it), and
`CoreInv`: besides the two, a current tab iff there are tabs, and closed tabs without session or
handler. For shells the frames only need `SuspendedOnOpenTabs`, but what the tab has noted of its
process comes in (`ShellHasPid`): the shell on a tab's pty is the one whose pid the tab has, so that closing the tab kills it, and
`ShellsStayInHand` is left with the forks. `TerminalCore_proofs` has one lemma per operation of `TerminalCore`
that says it keeps `CoreInv` and is a step or stutter of `TabSession` (`KeepsCore`);
the protocols cite the same lemmas, so that each action is left with what it
does to its own variables. Telnet needs them without the toolbar, which its status word breaks
for a while: `TabsInv` is the part of `CoreInv` that is left.

**ssh's login** (`LoginInv`). Login dialogs of one tab nest, so nothing can be said of the tab's dialog as such; what holds
is said of handlers by what they have read (`LoginOK`). A handler that has read a prompt keeps its connection (`PromptsOK`): its struct is
still the terminal's, the process is at that prompt or dead, and no handler of its terminal asks above it - a process that waits for a
password prints nothing, and a connect from further in would need such a handler. The dialog of a denial has no such claim: the
next prompt comes above it, and the handler of that prompt may connect anew. `CountOK`: three denials are counted only
while the message that gives up is up, of a handler that has the struct with the count. `OwnLogin`: of a
dialog whose struct is the terminal's, either the name was touched, or the record had none, or another tab may rename it. From these
`GoneStep` goes through the actions: a tab turns connected without a process only by the resumption of a denial's handler that
finds no prompt on the screen it has read, and if its struct is still the terminal's and nobody shares the record, the record has no login name.

**telnet.** The status word also holds the login bits, so the toolbar is not the one
of the status: `ToolbarForm` says that it shows one of two pictures and which words go with
each; no login bit turns a word into CONNECTED, which a lemma decides for all 64 words. For
`PasswordToItsPrompt` the dialogs may nest to any depth: nothing of a terminal lies above its
password dialog (`StackFits`), since a process at its prompt prints nothing that opens one.

**serial** (`PortsFit`). Only open descriptors have watches, on an open tab or on a freed
one and never on both, and only watches are ready. So a descriptor number that is used
again has nothing left over, and a forgotten watch takes down the tab that it names, whole. `NextFd`
is the lowest free number, by well-foundedness of the naturals. A page whose connect
failed gets the window's record only when its message is closed, which `PageWaits`
takes out of `currentUser = user[current]`.

**Shortcuts.** `FileInv`: types, a running lcrt has its table, a clean table is what the file
loads, and the group is bound by it; while rows are written, those done are the table's. For distinct
keys (`KeptApart`): neither the table nor what the file loads gives two actions one key unless one of
them is `behind`; in the middle of a save this is claimed of the rows still to write only, which a kill
makes `behind`. For `EditsComeBack`, `LeftInv`: between an exit
that saves and the next start the file loads as the keys of the exit - also where nothing
was dirty and nothing was written.

**Options.** `IInv`: the domains, no tabs without lcrt, and the two properties; the work
is that each handler's set of copies covers what the properties compare. `WindowInv` adds the window's
copies. `FileInv` is about the table: as long as the rows are in their places, those of options that are not
`touched` hold what `kept` has, and a running save has written those before `row` from the options as they
are, which nothing changes before it ends. `Put` never moves a row (`PutOf`), so rows that are in their places
have always been.

**Form.** `FormInv`: records and rows alike have a good session under every name (`GoodTable`), and the form has
its fields placed for its protocol (`Placed`) with a value the protocol
accepts (`Fits`); the password dialog is up only over the options of an ssh session. `SavedInv` adds
that auto save is on now if it has been all along, and leaves out the records that are `refused`: a save either
writes its row or makes its record one of these (`SessionWritten`), and touches no other; `ShownInv`, that the form of a session to log in to shows the
record's host and command but for those the user has changed, through changes of protocol and the
login dialogs above the form.

**Store** (`StoreInv`). That table and list agree (`ListIsTable`) is not inductive: it needs that
each name is there once in both, so that a row found by name is the record's; that folders have
folders' names and lie in themselves (`RowsShaped`); and that the dialog's tree shows every folder on its first level
(`TreeHasFolders`), the only place where Mkdir looks for a folder of the same name. These hold with
auto save on all along and no statement failed (`WriteEffect`: then a save has written its row), `NamesApart` and `LabelsSuffice`. Without `NamesApart` the tree hides a
session in a folder from Mkdir; the table below has both cases. That sessions have distinct names
(`SessionsDistinct`) needs `LabelsSuffice` alone: there are more labels than other records,
so a free one exists (a pigeonhole argument, `LowestNumber` picks the first). `RenameFolderEffect` says
what a folder's rename does to list and table for any subset of UPDATEs that find a row or fail.

**Tab commands.** `IInv`: the types, the properties, and `GrabHolds`: while a popup menu is up, its
tab stays open with the lock it had when the menu was built, and no find dialog is up. Without it
`PopupSparesLocked` fails in the step that chooses an item, since the handlers do not look at the
lock. The proof goes by what a step may change beneath a grab (`SameLocksAndTab`, `FindFrame`); the lock's part
(`LockInv`) is one lemma per operation of `SessionLock`, and it holds of a dialog with any
terminal at all, which is why dialogs left over need no invariant.

**Windows.** `RowsInv` adds to `RowsAgree` that what a new process has been promised is in its row
until it has loaded (`PromisesHold`). Every statement goes through `Written`, of which one lemma says
what it leaves true of the process itself and of the others. For the window table, `TableInv` says
that a row is missing only if some first start is still to write it or has left it unwritten (`cut`), and
`KeptInv` that a process which closes undisturbed does so alone: the rows below its
own already hold its frame, or what `cut` excuses, those above hold any; and that a row still to come
will get the frame that is known.

Only model-checked: `DeathNoticed`, which is liveness under fairness and beyond the prover. What the table
below says is refuted is refuted by TLC.

## Where the code departs from what it says

Most of the code does what it says. These statements of comments, the manual or
function names are false of it. Each is a definition of the module named; adding it as an
INVARIANT (as a PROPERTY if it is a formula of steps) to the cfg with
the constants given makes TLC print a counterexample.

| Module | Statement | Where | Constants | What happens |
|---|---|---|---|---|
| SshSession | `KillsOnlyTheConnection` | ssh.c:160 | run `ssh_kills_only` | the child connects and exits while the login dialog is up; its pid is cleared and `kill(0, SIGKILL)` hits lcrt's group |
| | `ReceiveHandlesData` | ssh.c:114 | SshShared, `Terminals = {t1}` | a denial printed after Disconnect has freed the private data |
| | `DisconnectedStaysDown`, `ConnectedWithRemote` | ssh.c:192 | the same | text after Disconnect, or after the death, counts as a login |
| | `RemembersThatLogin` | cterminal.c:107 | and `Users = {u1,u2}`, `RememberChoices = {TRUE}`, two tabs | the record of the tab in front is saved |
| | `OneLoginPerTerminal` (of `TerminalCore`) | ssh.c:53, :127 | SshShared, `Terminals = {t1}` | `tssh->login` is the login dialog; the prompt that comes after its denial opens another above it |
| | `EnterConnectsAgain` (of `TerminalCore`) | cfile.c:106, manual:195 | the same | after the user's Disconnect Return is not armed; so it is of telnet (TelnetTabs) and, after Reconnect All, of shells and serial lines (ShellTabs, SerialTabs) |
| TelnetSession | `ReturnNotArmedInShell`, `ConnectedWithRemote` | telnet.c:100 | TelnetTabs, `Terminals = {t1}` | a login after an exit ends in a value that no comparison expects |
| | `ReceiveHandlesData` | telnet.c:66 | the same | as for ssh, through the suspended handler |
| | `GoneCanReconnect` | cfile.c:72 | the same | a tab whose child is gone with CONNECTED noted cannot be reconnected |
| | `CommandsGoToShell` | cterminal.c:94, :109 | the same | a line that is neither prompt nor denial counts as the login; the default command is sent while the login name or the password is asked |
| ShellSession | `KillsItsChild` | cterminal.c:57 | ShellTabs | an exit ignored leaves its pid noted; closing the tab kills that pid |
| | `NoShellIsLeft` | iterminal.h:52, cfile.c:93 | ShellTabs | Reconnect All forks over a live shell, whose pid is lost; it can outlive the tab |
| | `DisconnectEndsSession` | shell.c:85, manual:220 | ShellTabs | the callback is empty |
| SerialSession | `InputIsUnique` | cfile.c:93 | SerialTabs | Reconnect All adds a watch to a connected tab |
| | `WatchHasItsTerminal` | serial.c:273 | SerialTabs | such a watch outlives its tab |
| | `WriteFindsItsPort` | serial.c:210 | SerialTabs | its commit handler finds no private data |
| | `ConnectedWithRemote` | serial.c:76 | SerialTabs | late contents-changed after the disconnect |
| | `EmptyReadMeansPulled` | serial.c:191 | SerialTabs | another watch has read the input |
| SessionStore | `SessionRowsStaySessions` | cmkdir.c:42 | StoreToggled, `MaxRecords = 3`, `Hosts = {"a"}`, `Folders = {"a","f"}`, `MaxLabel = 2`, `AutoSaves = {TRUE}`, `Quoted = {}`, no SYMMETRY | a folder is given the name of a session in a folder |
| | `ListIsTable` (without `NamesApart`) | cmkdir.c:42 | StoreToggled, `Hosts = {"f"}`, `Folders = {"f","g"}`, `AutoSaves = {TRUE}`, `Quoted = {}`, no SYMMETRY | a folder has the name of a session in a folder; one row is left for both |
| | `SessionsDistinct` (without `LabelsSuffice`) | user.c:541 | StoreToggled, `MaxRecords = 3`, `Hosts = {"a"}`, `MaxLabel = 1` | the search for a free label stops at `LCRT_MAX_LABEL` and takes what it has |
| | `AutoSaved` | user.c:220, README:13 | StoreToggled, `AutoSaves = {TRUE}` | an apostrophe in a name or a text breaks the statement; with auto save on the record has no row |
| | `RenameMovesTheChildren` | user.c:197 | StoreToggled, `MaxRecords = 3`, `MaxLabel = 2` | one of the UPDATEs of a folder's rename misses |
| | `TreeShowsRecords` | cconnect.c:124 | the same | a row without a record |
| | `TabsKeepTheirRecord` | user.c:394 | the same | a tab's record is deleted |
| | `CancelEndsTheDialog` | iqconnect.c:237 | the same | q_status still says CANCEL from a form that was refused: the loop runs the destroyed dialog again |
| SessionLock | `LockedIsLeftAlone` | cfile.c:103, manual:253 | TabCommands | Disconnect and Paste do not look at the lock |
| | `UnlockDialogAnswers` | clock.c:20 | TabCommands | it has one entry; with its tab unlocked meanwhile, OK reads the second one, which is not there |
| | `DialogHasItsSession` | clock.c:15 | TabCommands | its tab has been closed |
| TabCommands | `PopupActsOnItsTab` | cpopup.c:41 | TabCommands | a right click on the label of another tab opens the menu and does not select the tab |
| | `FindHasTerminal` | cfind.c:42 | TabCommands | the Find item is as sensitive as when the Edit menu was opened last; its key finds no tab |
| | `PasteOfferedWhereItWorks` | telnet.c:78 | TabCommands | a login bit takes a connected tab out of CONNECTED; Paste stays sensitive and does nothing |
| | `FindLeavesNothing` | cfind.c:85 | TabCommands | after an edit of the pattern the dialog forgets the regular expression that it has set |
| Shortcuts | `KeyBoundOnce` | iedit.c:87 | ShortcutsUpgraded | a popup binds the new key next to the old |
| | `AskedIsSaved` | coptions.c:52 | ShortcutsUpgraded | Save Settings Now does not save the shortcuts |
| | `DistinctKeys(key)` without `KeysDistinct`'s condition | iaccels.c:252, :316 | ShortcutsUpgraded | a default of a missing row is taken already; a save is killed between the rows of two actions that have swapped keys |
| GlobalOptions | `EffectImmediately` | csettings.c:96, manual:513 | Options, `ScrollOptions = {"scroll"}`, added to `Order` | scroll options reach new tabs only |
| | `BarsAsSet` | csettings.c:215, manual:510 | Options | Reset leaves the bars |
| | `SavedIfTicked` | csettings.c:215 | Options | Reset leaves the check item |
| | `SettingsAreSaved` | coptions.c:49, isettings.c:1017 | Options | the name of a font with an apostrophe is not saved; a save is killed between two rows |
| | `RowsInPlace` | isettings.c:889 | Options | the first start is killed, the save after it cannot insert a row with an apostrophe and inserts those behind it |
| | `LanguageNextTime` | csettings.c:54 | `Languages = {"en_US","zh_CN"}` | choosing the language of this run is not stored |
| | `DialogComesBack` | isettings.c:986, manual:465 | Options, `DialogOptions = {"dialog"}`, added to `Order` | the start-up dialog is not loaded as saved |
| QuickConnect | `PortShown` | ssh.c:852, telnet.c:317, manual:420 | QuickForm, `Ports = {22, 2222}`, `QuotedTexts = {}` | the options show the default port and Ok stores it |
| | `ShellShown` | shell.c:151 | and `Programs = {"bash","zsh"}` | likewise for the program |
| | `CommandIsShown` | serial.c:279 | QuickForm | the field is left from the protocol before |
| | `OnlyChosenPasswords` | cqconnect.c:47, manual:76 | QuickForm | a password is saved that the user did not choose to store |
| | `AutoSavedAll` | user.c:220, README:13 | QuickForm | a password with an apostrophe breaks UPDATE and INSERT; with auto save on the form is not in the table |
| | `ConnectMakesSession` | rlogin.c:126, protocol.h:90 | QuickForm | create returns nothing |
| Windows | `NewWindowOpens` | lcrt.c:83 | WindowsShared | the session was never saved, or another process has renamed or deleted it: the window is empty |
| | `SaveIsSaved` | user.c:233 | WindowsShared | the INSERT is refused, by a lock or by the key that another process has taken |
| | `ClosesItsOwn` | cwindow.c:102, iterminal.c:223 | WindowsShared | a copy left by a failed exec has its parent's tabs and kills their children |
| | `FrameIsComplete` | iwindow.c:215 | WindowsShared | the first start ends between the table and its rows, or an INSERT of it is refused; a later start adds no row |

## Not modelled

- Main window: the question asked before an exit with live sessions; the display connection that a copy
  left by a failed exec shares with its parent. Configuration store: the copying of the language files at the
  first start (`foperate.c`) and the language tables, which are only read.
- Find over the session list of the connect dialog, which selects a row; the Copy button, which
  shows VTE's selection.
- Moving a tab (the order shows only in which neighbour becomes current, which is any),
  terminal appearance beyond `GlobalOptions`, menu and status bar construction, help.
- Serial line parameters beyond the device; `errno` beyond its two outcomes.
- raw (stubs), the generated support code, the kernel's list macros, the language files.
- The fixed keys Alt+1 .. Alt+9 and F11, which the shortcuts' editor does not compare
  with; a settings file of another version.

## Plan

The order so far put first what every session runs through: `TerminalCore`, `TabSession` and ssh
with their proofs; the other protocols; the data (store, form); lock, shortcuts, options; then
what joins components: the commands of menus, popups and dialogs, and several windows on one
database. Next, in this order:

1. Passing, precise forms of the statements above - when exactly a pid can be stale, or a record be freed
   under a tab - as properties of the existing runs, as `ConnectsToChild` is of `ConnectedWithRemote`; and their
   proofs, from the invariants above.
2. The live ssh and telnet clients that a reconnect displaces, as `loose` has them for shells.
3. The question at an exit with live sessions, on top of `TerminalCore`.

----------------------------- MODULE SessionLock -----------------------------
(***************************************************************************)
(* Locking a session (src/src/ilock.c, src/src/clock.c).  The lock dialog  *)
(* runs as a modal dialog, but its OK button ends gtk_dialog_run whether   *)
(* the passwords match or not; only a match destroys it.  After a mismatch *)
(* the dialog stays on the screen, no longer modal, while the user goes on *)
(* with tabs, sessions and further lock dialogs.                           *)
(*                                                                         *)
(* The actions here are about one tab each; TabCommands says from which    *)
(* menu, key or button a command comes, and which tab it then acts on.     *)
(***************************************************************************)
EXTENDS Integers, FiniteSets

CONSTANTS Terminals,    \* the tabs that can be open
          NoTerminal,   \* a freed terminal
          Passwords,    \* what the user types in the entries
          MaxDialogs    \* bound on the lock dialogs on the screen

ASSUME LockAssumption ==
  NoTerminal \notin Terminals /\ Passwords # {} /\ MaxDialogs \in Nat \ {0}

VARIABLES
  tabs,       \* the terminals in the notebook
  up,         \* lterminal->connected == CONNECTED
  mixed,      \* terminals whose connected is CONNECTED with telnet's login bits
  locked,     \* lterminal->locked
  sensitive,  \* the scrolled window takes key strokes and clicks
  password,   \* lterminal->lock_password
  dialogs,    \* the struct lcrt_lock of each dialog on the screen
  running,    \* the dialog in gtk_dialog_run, 0 if there is none
  message,    \* the dialog under whose OK "Password not match!" is up, 0 if none
  reached,    \* history: sessions that a command reached while they were locked
  app         \* "up", or how lcrt died

statusVars == <<up, mixed>>
lockVars == <<locked, sensitive, password>>
dialogVars == <<dialogs, running, message>>
sessionVars == <<tabs, statusVars, lockVars, dialogVars, reached, app>>

Dialogs == 1 .. MaxDialogs
\* "retype" is the second entry, of a dialog made for an unlocked terminal.
Blank == [shown |-> FALSE, term |-> NoTerminal, retype |-> FALSE]
Shown == {d \in Dialogs : dialogs[d].shown}
NewDialog == CHOOSE d \in Dialogs \ Shown : \A e \in Dialogs \ Shown : d <= e

\* No modal dialog is up.
Idle == running = 0 /\ message = 0

\* The buttons of a dialog answer.
Answers(d) == d \in Shown /\ message = 0 /\ running \in {0, d}

-----------------------------------------------------------------------------
(* The dialog.                                                             *)
(***************************************************************************)
\* lcrt_create_dialog_lock.
OpenDialog(t) ==
  /\ Idle /\ t \in tabs /\ Shown # Dialogs
  /\ dialogs' = [dialogs EXCEPT ![NewDialog] =
                    [shown |-> TRUE, term |-> t, retype |-> ~locked[t]]]
  /\ running' = NewDialog
  /\ UNCHANGED <<tabs, statusVars, lockVars, message, reached, app>>

\* lcrt_lock_on_cancelbutton_clicked: the dialog is destroyed and freed.
Remove(d) ==
  /\ dialogs' = [dialogs EXCEPT ![d] = Blank]
  /\ running' = 0
  /\ UNCHANGED message

Cancel(d) ==
  /\ Answers(d)
  /\ Remove(d)
  /\ UNCHANGED <<tabs, statusVars, lockVars, reached, app>>

SetLocked(t, on) ==
  /\ locked' = [locked EXCEPT ![t] = on]
  /\ sensitive' = [sensitive EXCEPT ![t] = ~on]

\* The passwords do not match: gtk_dialog_run is over once the message is.
Mismatch(d) ==
  /\ message' = d
  /\ UNCHANGED <<lockVars, dialogs, running, app>>

\* Mutant: what the dialog was made for decides, not the state of the terminal.
Ok_ByDialog(d, pw, again) ==
  LET t == dialogs[d].term IN
  \/ /\ t # NoTerminal /\ dialogs[d].retype /\ pw = again
     /\ SetLocked(t, TRUE) /\ password' = [password EXCEPT ![t] = pw]
     /\ Remove(d) /\ UNCHANGED app
  \/ /\ t # NoTerminal /\ ~dialogs[d].retype /\ pw = password[t]
     /\ SetLocked(t, FALSE) /\ UNCHANGED password
     /\ Remove(d) /\ UNCHANGED app
  \/ /\ t # NoTerminal
     /\ IF dialogs[d].retype THEN pw # again ELSE pw # password[t]
     /\ Mismatch(d)

\* Mutant: unlocking leaves the scrolled window insensitive.
Ok_WindowStays(d, pw, again) ==
  LET t == dialogs[d].term IN
  \/ /\ t # NoTerminal /\ ~locked[t] /\ dialogs[d].retype /\ pw = again
     /\ SetLocked(t, TRUE) /\ password' = [password EXCEPT ![t] = pw]
     /\ Remove(d) /\ UNCHANGED app
  \/ /\ t # NoTerminal /\ locked[t] /\ pw = password[t]
     /\ locked' = [locked EXCEPT ![t] = FALSE]
     /\ UNCHANGED <<sensitive, password>>
     /\ Remove(d) /\ UNCHANGED app
  \/ /\ t # NoTerminal
     /\ IF locked[t] THEN pw # password[t] ELSE dialogs[d].retype /\ pw # again
     /\ Mismatch(d)

\* lcrt_lock_on_okbutton_clicked.  The terminal may have been freed, and a
\* terminal unlocked by another dialog sends the first branch to an entry that a
\* dialog for unlocking does not have: strcmp of a null pointer.
Ok(d, pw, again) ==
  LET t == dialogs[d].term IN
  \/ /\ t = NoTerminal
     /\ app' = "freed" /\ UNCHANGED <<lockVars, dialogVars>>
  \/ /\ t # NoTerminal /\ ~locked[t] /\ ~dialogs[d].retype
     /\ app' = "segv" /\ UNCHANGED <<lockVars, dialogVars>>
  \/ /\ t # NoTerminal /\ ~locked[t] /\ dialogs[d].retype /\ pw = again
     /\ SetLocked(t, TRUE) /\ password' = [password EXCEPT ![t] = pw]
     /\ Remove(d) /\ UNCHANGED app
  \/ /\ t # NoTerminal /\ locked[t] /\ pw = password[t]
     /\ SetLocked(t, FALSE) /\ UNCHANGED password
     /\ Remove(d) /\ UNCHANGED app
  \/ /\ t # NoTerminal
     /\ IF locked[t] THEN pw # password[t] ELSE dialogs[d].retype /\ pw # again
     /\ Mismatch(d)

ClickOk(d, pw, again) ==
  /\ Answers(d)
  /\ Ok(d, pw, again)
  /\ UNCHANGED <<tabs, statusVars, reached>>

CloseMessage ==
  /\ message # 0
  /\ message' = 0 /\ running' = 0
  /\ UNCHANGED <<tabs, statusVars, lockVars, dialogs, reached, app>>

-----------------------------------------------------------------------------
(* What goes on around the dialog.                                         *)
(***************************************************************************)
OpenTab(t) ==
  /\ Idle /\ t \notin tabs
  /\ tabs' = tabs \cup {t}
  /\ SetLocked(t, FALSE)
  /\ UNCHANGED <<statusVars, password, dialogVars, reached, app>>

\* lcrt_destroy_terminal; a lock dialog that is left over keeps its pointer.
CloseTab(t) ==
  /\ Idle /\ t \in tabs
  /\ tabs' = tabs \ {t}
  /\ up' = [up EXCEPT ![t] = FALSE] /\ mixed' = mixed \ {t}
  /\ SetLocked(t, FALSE)
  /\ password' = [password EXCEPT ![t] = CHOOSE p \in Passwords : TRUE]
  /\ dialogs' = [d \in Dialogs |-> IF dialogs[d].term = t
                                   THEN [dialogs[d] EXCEPT !.term = NoTerminal] ELSE dialogs[d]]
  /\ reached' = reached \ {t}
  /\ UNCHANGED <<running, message, app>>

\* lcrt_terminal_set_status by a handler of the protocol: the session comes up, or
\* ends by itself, at any time.
SessionChanges(t) ==
  /\ t \in tabs
  /\ \E on \in BOOLEAN : up' = [up EXCEPT ![t] = on]
  /\ mixed' = mixed \ {t}
  /\ UNCHANGED <<tabs, lockVars, dialogVars, reached, app>>

\* lcrt_telnet_receive, going on after its login dialog under a session that has
\* come up meanwhile, or-s a login bit into the status word: past
\* lcrt_terminal_set_status, and the word is no longer equal to CONNECTED.
LoginBit(t) ==
  /\ t \in tabs /\ up[t]
  /\ up' = [up EXCEPT ![t] = FALSE] /\ mixed' = mixed \cup {t}
  /\ UNCHANGED <<tabs, lockVars, dialogVars, reached, app>>

\* A command that is told to a session, locked or not.
Reach(S) == reached' = reached \cup {t \in S : locked[t]}

\* lcrt_file_on_disconnect_activate and lcrt_edit_on_paste_activate: both look
\* at the status only, and both feed the child.  The disconnect callback of a
\* shell is empty: its session stays up.
Disconnect(t) ==
  /\ Idle /\ t \in tabs /\ up[t]
  /\ \E stays \in BOOLEAN : up' = [up EXCEPT ![t] = stays]
  /\ Reach({t})
  /\ UNCHANGED <<tabs, mixed, lockVars, dialogVars, app>>

Paste(t) ==
  /\ Idle /\ t \in tabs /\ up[t]
  /\ Reach({t})
  /\ UNCHANGED <<tabs, statusVars, lockVars, dialogVars, app>>

-----------------------------------------------------------------------------
LockInit ==
  /\ tabs = {} /\ up = [t \in Terminals |-> FALSE] /\ mixed = {}
  /\ locked = [t \in Terminals |-> FALSE] /\ sensitive = [t \in Terminals |-> TRUE]
  /\ password = [t \in Terminals |-> CHOOSE p \in Passwords : TRUE]
  /\ dialogs = [d \in Dialogs |-> Blank]
  /\ running = 0 /\ message = 0
  /\ reached = {}
  /\ app = "up"

DialogStep ==
  \/ \E d \in Dialogs : Cancel(d)
  \/ \E d \in Dialogs, pw, again \in Passwords : ClickOk(d, pw, again)
  \/ CloseMessage

-----------------------------------------------------------------------------
(* Properties.                                                             *)
(***************************************************************************)
\* A terminal takes input exactly when it is not locked, whichever of several
\* dialogs for it was answered last.
LockedTakesNoInput == \A t \in Terminals : sensitive[t] = ~locked[t]

\* The password that a session was locked with stays the one that unlocks it:
\* a dialog left over from an earlier attempt does not replace it.
LockPasswordKept ==
  [][\A t \in tabs \cap tabs' : locked[t] /\ locked'[t] => password'[t] = password[t]]_sessionVars

-----------------------------------------------------------------------------
(* What the manual and the dialogs say and the code does not keep.         *)
(***************************************************************************)
\* "You can lock your session to avoid some operate your remote server": no
\* command of the window reaches a locked session.
LockedIsLeftAlone == reached = {}

\* "Enter password to unlock the session.": answering such a dialog does that or
\* says that the password is wrong.
UnlockDialogAnswers == app # "segv"

\* "Enter password for session ...": the session of a dialog exists when the
\* dialog is answered.
DialogHasItsSession == app # "freed"
=============================================================================

---------------------------- MODULE TerminalCore ----------------------------
(***************************************************************************)
(* The part of a terminal tab that every protocol of lcrt shares: the      *)
(* notebook of tabs with its current terminal, the status word of a tab    *)
(* and the two toolbar buttons that follow it, the handler of the Return   *)
(* key that stays armed after a child process has exited, and the nested   *)
(* main loops that modal dialogs run.                                      *)
(*                                                                         *)
(* lcrt has one thread.  Concurrency comes from gtk_dialog_run: while a    *)
(* dialog is up, the handler that opened it is suspended in the middle and *)
(* the handlers of other signals run.  "stack" holds the suspended         *)
(* handlers, the innermost first; a dialog is modal, so only its own       *)
(* buttons answer the user, and the handlers return last in, first out.    *)
(***************************************************************************)
EXTENDS Integers, Sequences, FiniteSets

CONSTANTS Terminals,    \* the tabs that can be open
          Users,        \* session records (struct lcrtc_user)
          NoTerminal,   \* current_terminal == NULL
          NoUser,       \* current_user == NULL
          Commanded     \* records with a default command, user->command

ASSUME CoreAssumption ==
  /\ NoTerminal \notin Terminals /\ NoUser \notin Users
  /\ Commanded \subseteq Users

VARIABLES
  tabs,             \* the terminals in the notebook, notebook.child
  current,          \* notebook.current_terminal
  currentUser,      \* window.current_user
  user,             \* lterminal->user
  status,           \* lterminal->connected
  toolbar,          \* sensitivity of the RECONNECT and DISCONNECT buttons
  keyHandlers,      \* how often key-press-event is connected to the terminal
  signalConnected,  \* lterminal->signal_connected
  remember,         \* lterminal->save_passwd
  stored,           \* users whose row was written because a login succeeded
  stack             \* suspended handlers, innermost first

tabVars  == <<tabs, current, currentUser, user>>
linkVars == <<status, toolbar>>
keyVars  == <<keyHandlers, signalConnected>>
saveVars == <<remember, stored>>
coreVars == <<tabVars, linkVars, keyVars, saveVars, stack>>

-----------------------------------------------------------------------------
(* lcrt_terminal_status_t: single bits, so that telnet can combine them.   *)
DISCONNECT    == 0
CONNECTED     == 1
CONNECTING    == 2
WAIT_RETURN   == 4
CHILD_EXIT    == 8
SEND_USERNAME == 16
SEND_PASSWORD == 32

Button == [reconnect : BOOLEAN, disconnect : BOOLEAN]
NoButtons == [reconnect |-> FALSE, disconnect |-> FALSE]

\* The buttons a terminal of status s calls for.
ButtonsFor(s) == [reconnect |-> s # CONNECTED, disconnect |-> s = CONNECTED]

-----------------------------------------------------------------------------
(* Nested main loops.                                                      *)
(***************************************************************************)
\* A frame is a suspended handler of terminal "term", or a loop over the
\* terminals in "todo".  A frame of a running kind is not suspended in a dialog:
\* it executes before anything else does.
Loops == {"reconnect_all", "disconnect_all"}
Running == {"resume"} \cup Loops

\* Some main loop polls: the innermost suspended handler waits for a dialog.
Polling == stack # <<>> => Head(stack).kind \notin Running

\* Mutant: a dialog that does not block the other windows.
Idle_DialogNotModal == Polling

\* No dialog is up: the menu, the toolbar, the tabs and the keys answer.
Idle == stack = <<>>

Push(frame) == stack' = <<frame>> \o stack
Pop == stack' = Tail(stack)
Top(kind) == stack # <<>> /\ Head(stack).kind = kind

-----------------------------------------------------------------------------
(* lcrt_terminal_set_status: the label and, for the current terminal, the  *)
(* toolbar.                                                                *)
(***************************************************************************)
\* Mutant: a background terminal sets the toolbar too.
SetStatus_AnyTerminal(t, s) ==
  /\ status' = [status EXCEPT ![t] = s]
  /\ toolbar' = ButtonsFor(s)

SetStatus(t, s) ==
  /\ status' = [status EXCEPT ![t] = s]
  /\ toolbar' = IF t = current THEN ButtonsFor(s) ELSE toolbar

\* lcrt_terminal_set_connected_status: the login succeeded.  Every connection
\* of the Return handler is removed, and a remembered login is written to the
\* database - the row of window.current_user.
SetConnectedStatus(t) ==
  /\ SetStatus(t, CONNECTED)
  /\ keyHandlers' = IF signalConnected[t] THEN [keyHandlers EXCEPT ![t] = 0]
                                          ELSE keyHandlers
  /\ signalConnected' = [signalConnected EXCEPT ![t] = FALSE]
  /\ stored' = IF remember[t] THEN stored \cup {currentUser} ELSE stored
  /\ UNCHANGED remember

\* Its last lines feed the record's default command and a newline to whatever is
\* on the pty by then: each protocol says what that line does there.
IsCommanded(t) == user[t] \in Commanded

\* Mutant: the handler is connected and signal_connected forgotten.
ArmReturnKey_FlagForgotten(t) ==
  /\ SetStatus(t, CHILD_EXIT)
  /\ keyHandlers' = [keyHandlers EXCEPT ![t] = @ + 1]
  /\ UNCHANGED signalConnected

\* Mutant: the status stays CONNECTED.
ArmReturnKey_StatusForgotten(t) ==
  /\ keyHandlers' = [keyHandlers EXCEPT ![t] = @ + 1]
  /\ signalConnected' = [signalConnected EXCEPT ![t] = TRUE]
  /\ UNCHANGED linkVars

\* lcrt_terminal_on_child_exited, past its early return: the session ended,
\* the Return key is armed to connect again.
ArmReturnKey(t) ==
  /\ SetStatus(t, CHILD_EXIT)
  /\ keyHandlers' = [keyHandlers EXCEPT ![t] = @ + 1]
  /\ signalConnected' = [signalConnected EXCEPT ![t] = TRUE]

-----------------------------------------------------------------------------
(* The notebook.                                                           *)
(***************************************************************************)
\* Mutant: window.current_user does not follow the page.
SwitchPage_UserStays(t, s) ==
  /\ current' = t
  /\ toolbar' = ButtonsFor(s)
  /\ UNCHANGED currentUser

\* lcrt_notebook_on_switch_page, given the status the tab has by then.
SwitchPage(t, s) ==
  /\ current' = t
  /\ currentUser' = user'[t]
  /\ toolbar' = ButtonsFor(s)

\* The part of lcrt_create_terminal before ops->connect; s is the status that
\* connect leaves.  Adding the first page makes it current at once; a later page
\* becomes current when the function ends.
NewPageWith(t, u, s) ==
  /\ t \notin tabs
  /\ tabs' = tabs \cup {t}
  /\ user' = [user EXCEPT ![t] = u]
  /\ status' = [status EXCEPT ![t] = s]
  /\ remember' = [remember EXCEPT ![t] = FALSE]
  /\ UNCHANGED stored
NewPage(t, u) == NewPageWith(t, u, DISCONNECT) /\ UNCHANGED keyVars

\* Mutant: current_terminal keeps pointing to the freed terminal.
LastPageRemoved_CurrentStays ==
  /\ toolbar' = NoButtons
  /\ UNCHANGED <<current, currentUser>>

\* lcrt_notebook_on_page_removed of the last page.
LastPageRemoved ==
  /\ current' = NoTerminal
  /\ toolbar' = NoButtons
  /\ UNCHANGED currentUser

\* lcrt_destroy_terminal past ops->disconnect: the page goes, GTK switches to a
\* neighbour if it was the current one.  The neighbour is any other tab: tabs can be reordered.
DestroyPage(t) ==
  /\ tabs' = tabs \ {t}
  /\ status' = [status EXCEPT ![t] = DISCONNECT]
  /\ keyHandlers' = [keyHandlers EXCEPT ![t] = 0]
  /\ signalConnected' = [signalConnected EXCEPT ![t] = FALSE]
  /\ remember' = [remember EXCEPT ![t] = FALSE]
  /\ user' = [user EXCEPT ![t] = NoUser]
  /\ UNCHANGED stored
  /\ \/ /\ t # current
        /\ UNCHANGED <<current, currentUser, toolbar>>
     \/ /\ t = current
        /\ \E n \in tabs \ {t} : SwitchPage(n, status[n])
     \/ tabs = {t} /\ LastPageRemoved

\* The user clicks a tab or uses a tab shortcut; GTK emits nothing for the
\* current page.
SelectTab(t) ==
  /\ Idle
  /\ t \in tabs \ {current}
  /\ UNCHANGED <<tabs, user>>
  /\ SwitchPage(t, status[t])
  /\ UNCHANGED <<status, keyVars, saveVars, stack>>

CoreInit ==
  /\ tabs = {}
  /\ current = NoTerminal
  /\ currentUser = NoUser
  /\ user = [t \in Terminals |-> NoUser]
  /\ status = [t \in Terminals |-> DISCONNECT]
  /\ toolbar = NoButtons
  /\ keyHandlers = [t \in Terminals |-> 0]
  /\ signalConnected = [t \in Terminals |-> FALSE]
  /\ remember = [t \in Terminals |-> FALSE]
  /\ stored = {}
  /\ stack = <<>>

-----------------------------------------------------------------------------
(* Types, one operator per group of variables; S are the status words that *)
(* the protocol uses.                                                      *)
(***************************************************************************)
TabType ==
  /\ tabs \subseteq Terminals /\ current \in tabs \cup {NoTerminal}
  /\ currentUser \in Users \cup {NoUser}
  /\ user \in [Terminals -> Users \cup {NoUser}]
  /\ \A t \in tabs : user[t] \in Users
LinkType(S) == status \in [Terminals -> S] /\ toolbar \in Button
KeyType ==
  /\ keyHandlers \in [Terminals -> Nat]
  /\ signalConnected \in [Terminals -> BOOLEAN]
SaveType ==
  /\ remember \in [Terminals -> BOOLEAN]
  /\ stored \subseteq Users \cup {NoUser}

-----------------------------------------------------------------------------
(* What every protocol must keep.                                          *)
(***************************************************************************)
\* The Return handler is connected once or not at all, signal_connected says
\* which, and never to a connected session: a Return typed into a live shell
\* cannot fork a second connection.
OneReturnHandler ==
  \A t \in Terminals :
    /\ keyHandlers[t] = IF signalConnected[t] THEN 1 ELSE 0
    /\ status[t] = CONNECTED => keyHandlers[t] = 0

\* The toolbar offers exactly what the current terminal's status calls for,
\* whatever background terminals do meanwhile.
ToolbarFollowsStatus ==
  toolbar = IF current = NoTerminal THEN NoButtons ELSE ButtonsFor(status[current])

\* The notebook has a current terminal exactly when it has tabs.
HasCurrent == current = NoTerminal <=> tabs = {}

\* A closed tab has neither a session nor an armed Return key.
ClosedTabsAreQuiet ==
  \A t \in Terminals \ tabs : status[t] # CONNECTED /\ keyHandlers[t] = 0

CoreInv == OneReturnHandler /\ ToolbarFollowsStatus /\ HasCurrent /\ ClosedTabsAreQuiet

\* The notebook has a current terminal exactly when it has tabs, and outside
\* dialogs the window's current user is that terminal's.
CurrentIsOpen ==
  /\ HasCurrent
  /\ Idle /\ current # NoTerminal => currentUser = user[current]

\* No handler is suspended, and no loop over the terminals is under way, on a
\* terminal that has been freed.
FrameTerminals(f) == IF f.kind \in Loops THEN f.todo ELSE {f.term}
SuspendedOnOpenTabs ==
  \A i \in 1..Len(stack) : FrameTerminals(stack[i]) \subseteq tabs

\* What every tab promises, as TabSession has it.  Each protocol says in its own
\* IsTabSession which of its steps end a session and which drop it.
SessionsOfTabs == INSTANCE TabSession WITH
  Tabs <- Terminals,
  open <- tabs,
  live <- {t \in Terminals : status[t] = CONNECTED},
  armed <- {t \in Terminals : keyHandlers[t] # 0}

\* The session of an open tab goes; Return is offered from now on.
GoesDown(t) == status[t] = CONNECTED /\ status'[t] # CONNECTED /\ t \in tabs'
OffersReturn(t) == keyHandlers[t] = 0 /\ keyHandlers'[t] # 0

-----------------------------------------------------------------------------
(* What the manual says and the code does not keep.                        *)
(***************************************************************************)
\* "Enter(when current session had been disconnected.)" connects again.
EnterConnectsAgain == [][\A t \in Terminals : GoesDown(t) => OffersReturn(t)]_coreVars

\* "user should use login dialog to enter username and password", the one that
\* struct lcrt_ssh_tm notes: the login dialogs of one terminal never nest.
OneLoginPerTerminal ==
  \A i, j \in 1..Len(stack) :
    /\ stack[i].kind \in {"login", "resume"} /\ stack[j].kind \in {"login", "resume"}
    /\ stack[i].term = stack[j].term
    => i = j
=============================================================================

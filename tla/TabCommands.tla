----------------------------- MODULE TabCommands -----------------------------
(***************************************************************************)
(* The commands a user gives to tabs, and the tab they reach.  The File    *)
(* and Edit menus, the toolbar and the keys act on notebook.current_       *)
(* terminal; so do the commands of a tab's popup menu (cpopup.c), which is *)
(* built for the tab that was clicked, and the buttons of the find dialog  *)
(* (cfind.c), which looks current_terminal up at every click.  What keeps  *)
(* them on the right tab is that menus and dialogs hold the grab.          *)
(***************************************************************************)
EXTENDS SessionLock

VARIABLES
  current,    \* notebook.current_terminal
  paste,      \* sensitivity of the toolbar's Paste button
  background, \* history: a tab in the background was the last to set it
  popup,      \* the popup menu, with the state of its tab when it was built
  findItem,   \* sensitivity of the Find item of the Edit menu
  find,       \* struct lcrt_find; on: history, the tab it was opened over
  regex       \* what a terminal searches: nothing, the dialog's or a left over regex

pasteVars == <<paste, background>>
findVars == <<findItem, find, regex>>
commandVars == <<current, pasteVars, popup, findVars>>
vars == <<sessionVars, commandVars>>

NoPopup == [tab |-> NoTerminal, up |-> FALSE, locked |-> FALSE]
NoFind == [shown |-> FALSE, on |-> NoTerminal, typed |-> FALSE, set |-> FALSE]

-----------------------------------------------------------------------------
\* Mutant: gtk_dialog_run alone made the find dialog modal, so that it blocks
\* nothing once Next or Previous has ended that loop.
Grabbed_FindLetsGo == popup # NoPopup \/ (find.shown /\ ~find.set)

\* The popup menu or the find dialog, made modal for all its life, has the grab.
Grabbed == popup # NoPopup \/ find.shown

\* The window answers: menus, toolbar, tabs and keys.
Free == Idle /\ ~Grabbed

SetPaste(on) == paste' = on /\ background' = FALSE

\* Mutant: the Paste button keeps the state of the page before.
SwitchPage_PasteStays(t) == current' = t /\ UNCHANGED pasteVars

\* lcrt_notebook_on_switch_page, and _on_page_removed when no page is left.
SwitchPage(t) ==
  /\ current' = t
  /\ SetPaste(t # NoTerminal /\ up'[t])

-----------------------------------------------------------------------------
(* Tabs and sessions.                                                      *)
(***************************************************************************)
SelectTab(t) ==
  /\ Free /\ t \in tabs \ {current}
  /\ UNCHANGED <<sessionVars, popup, findVars>>
  /\ SwitchPage(t)

\* lcrt_create_terminal; the new page becomes the current one.
NewTab(t) ==
  /\ OpenTab(t)
  /\ SwitchPage(t)
  /\ UNCHANGED findVars

\* lcrt_terminal_on_button_close_clicked with the answer yes; GTK goes to some
\* other page if this was the current one.
RemoveTab(t) ==
  /\ CloseTab(t)
  /\ regex' = [regex EXCEPT ![t] = "none"]
  /\ UNCHANGED <<findItem, find>>
  /\ \/ t # current /\ UNCHANGED <<current, pasteVars>>
     \/ t = current /\ \E n \in tabs \ {t} : SwitchPage(n)
     \/ tabs = {t} /\ SwitchPage(NoTerminal)

\* lcrt_terminal_set_status sets the button for the current terminal only.
StatusSet(t) ==
  IF t = current THEN SetPaste(up'[t]) ELSE UNCHANGED pasteVars

Session(t) ==
  /\ SessionChanges(t)
  /\ StatusSet(t)
  /\ UNCHANGED <<current, popup, findVars>>

\* The status word leaves CONNECTED behind the toolbar's back.
SilentChange(t) == LoginBit(t) /\ UNCHANGED commandVars

\* lcrt_terminal_on_selection_changed, of any tab: another window taking the
\* selection clears that of a tab in the background.
SelectionChanged(t) ==
  /\ t \in tabs
  /\ paste' = up[t] /\ background' = (t # current)
  /\ UNCHANGED <<sessionVars, current, popup, findVars>>

-----------------------------------------------------------------------------
(* Commands for the current tab.                                           *)
(***************************************************************************)
\* What is told to a session and leaves its status for later: a reconnect, which
\* other words than DISCONNECT and CHILD_EXIT refuse, and the options dialog.
Tell(t) ==
  /\ Reach({t})
  /\ UNCHANGED <<tabs, statusVars, lockVars, dialogVars, app>>

\* A shell's callback, which is empty, sets no status.
TakeDown(t) ==
  /\ Disconnect(t)
  /\ IF up'[t] THEN UNCHANGED pasteVars ELSE StatusSet(t)

\* File, Edit, toolbar and keys.
WindowCommand(t) ==
  /\ Free /\ t = current
  /\ \/ TakeDown(t)
     \/ (Paste(t) \/ (~up[t] /\ t \notin mixed /\ Tell(t)) \/ (up[t] /\ OpenDialog(t))) /\ UNCHANGED pasteVars
  /\ UNCHANGED <<current, popup, findVars>>

\* lcrt_file_on_disconnect_all_activate and lcrt_file_on_reconnect_all_activate:
\* the latter sets the status of every tab, the former leaves shells up.
AllTabs(reconnect) ==
  /\ Free
  /\ \E shells \in SUBSET {t \in tabs : up[t] /\ ~reconnect} :
       up' = [t \in Terminals |-> t \in shells]
  /\ mixed' = IF reconnect THEN {} ELSE mixed
  /\ Reach({t \in tabs : reconnect \/ up[t]})
  /\ IF current # NoTerminal /\ (reconnect \/ up'[current] # up[current])
       THEN SetPaste(FALSE) ELSE UNCHANGED pasteVars
  /\ UNCHANGED <<tabs, lockVars, dialogVars, app, current, popup, findVars>>

-----------------------------------------------------------------------------
(* The popup menu of a tab.                                                *)
(***************************************************************************)
\* lcrt_create_popup_menu, by a right click on the label of any tab: the click
\* does not select the tab.
OpenPopup(t) ==
  /\ Free /\ t \in tabs
  /\ popup' = [tab |-> t, up |-> up[t], locked |-> locked[t]]
  /\ UNCHANGED <<sessionVars, current, pasteVars, findVars>>

\* Mutant: a locked tab's menu differs in the label of one item only.
Offered_LockedToo(item) ==
  CASE item = "reconnect" -> ~popup.up
    [] item \in {"disconnect", "clone"} -> popup.up
    [] OTHER -> TRUE

\* The sensitivity of an item, fixed when the menu was built.
Offered(item) ==
  CASE item = "reconnect" -> ~popup.up /\ ~popup.locked
    [] item \in {"disconnect", "clone"} -> popup.up /\ ~popup.locked
    [] item = "edit" -> ~popup.locked
    [] OTHER -> TRUE

\* The handlers of cpopup.c, all for the current tab: they look at its status
\* again, not at its lock.  "edit" is Rename, which sets the status the tab has, or
\* Session Options.
PopupItem(t) ==
  \/ /\ Offered("edit") /\ Tell(t)
     /\ StatusSet(t) \/ UNCHANGED pasteVars
     /\ UNCHANGED <<current, findVars>>
  \/ Offered("reconnect") /\ ~up[t] /\ t \notin mixed /\ Tell(t) /\ UNCHANGED <<current, pasteVars, findVars>>
  \/ Offered("disconnect") /\ TakeDown(t) /\ UNCHANGED <<current, findVars>>
  \/ Offered("clone") /\ up[t] /\ \E n \in Terminals : NewTab(n)
  \/ Offered("close") /\ RemoveTab(t)
  \/ Offered("lock") /\ OpenDialog(t) /\ UNCHANGED <<current, pasteVars, findVars>>

PopupCommand ==
  /\ popup # NoPopup
  /\ PopupItem(current)
  /\ popup' = NoPopup

\* The menu is closed, or the item finds the status of the current tab changed.
ClosePopup ==
  /\ popup # NoPopup
  /\ popup' = NoPopup
  /\ UNCHANGED <<sessionVars, current, pasteVars, findVars>>

-----------------------------------------------------------------------------
(* The find dialog.                                                        *)
(***************************************************************************)
\* lcrt_edit_on_menuitem_activate.
OpenEditMenu ==
  /\ Free
  /\ findItem' = (current # NoTerminal)
  /\ UNCHANGED <<sessionVars, current, pasteVars, popup, find, regex>>

\* lcrt_edit_on_find_activate, from the menu or by its key.
OpenFind ==
  /\ Free /\ findItem
  /\ find' = [NoFind EXCEPT !.shown = TRUE, !.on = current]
  /\ UNCHANGED <<sessionVars, current, pasteVars, popup, findItem, regex>>

\* lcrt_find_on_name_changed: an empty entry leaves find_regex as it is.
TypePattern(some) ==
  /\ Idle /\ find.shown
  /\ find' = [find EXCEPT !.typed = some, !.set = @ /\ ~some]
  /\ UNCHANGED <<sessionVars, current, pasteVars, popup, findItem, regex>>

\* A regex that the dialog drops stays with a terminal that it is set on.
Dropped == [u \in Terminals |-> IF regex[u] = "dialog" THEN "left" ELSE regex[u]]

\* lcrt_find_edit_callback.
ClickFind ==
  /\ Idle /\ find.shown /\ find.typed
  /\ IF current = NoTerminal
     THEN app' = "null" /\ UNCHANGED <<find, regex>>
     ELSE /\ find' = [find EXCEPT !.set = TRUE]
          /\ regex' = IF find.set THEN regex ELSE [Dropped EXCEPT ![current] = "dialog"]
          /\ UNCHANGED app
  /\ UNCHANGED <<tabs, statusVars, lockVars, dialogVars, reached, current, pasteVars, popup, findItem>>

\* lcrt_find_on_cancelbutton_clicked.  After an edit find_regex is 0, and the
\* regex stays on the terminal.
CloseFind ==
  /\ Idle /\ find.shown
  /\ find' = NoFind
  /\ IF find.set /\ current = NoTerminal THEN app' = "null" ELSE UNCHANGED app
  /\ regex' = [u \in Terminals |-> IF find.set /\ u = current THEN "none" ELSE Dropped[u]]
  /\ UNCHANGED <<tabs, statusVars, lockVars, dialogVars, reached, current, pasteVars, popup, findItem>>

-----------------------------------------------------------------------------
Init ==
  /\ LockInit
  /\ current = NoTerminal
  /\ paste = FALSE /\ background = FALSE
  /\ popup = NoPopup
  /\ findItem = TRUE /\ find = NoFind
  /\ regex = [t \in Terminals |-> "none"]

TabStep ==
  \E t \in Terminals :
    \/ SelectTab(t) \/ Session(t) \/ SilentChange(t) \/ SelectionChanged(t) \/ WindowCommand(t) \/ OpenPopup(t)
    \/ Free /\ (NewTab(t) \/ RemoveTab(t)) /\ UNCHANGED popup

FindStep ==
  OpenEditMenu \/ OpenFind \/ (\E some \in BOOLEAN : TypePattern(some)) \/ ClickFind \/ CloseFind

Next ==
  \/ /\ app = "up"
     /\ \/ TabStep \/ PopupCommand \/ ClosePopup \/ FindStep
        \/ \E reconnect \in BOOLEAN : AllTabs(reconnect)
        \/ ~Grabbed /\ DialogStep /\ UNCHANGED commandVars
  \/ app # "up" /\ UNCHANGED vars

Spec == Init /\ [][Next]_vars

-----------------------------------------------------------------------------
(* Properties.                                                             *)
(***************************************************************************)
\* The find dialog acts on the tab it was opened over for as long as it is up,
\* though it asks for the current tab at every click: no other tab searches with
\* its regex, and once Next or Previous has set the regex that tab has it until
\* the pattern changes.
FindKeepsToItsTab ==
  /\ find.shown => current = find.on
  /\ \A t \in Terminals : regex[t] = "dialog" => find.shown /\ t = find.on
  /\ find.set /\ app = "up" => regex[find.on] = "dialog"

\* No command of its popup menu reaches the current tab while it is locked, however
\* the session and the lock dialogs changed since the menu was built.
PopupSparesLocked ==
  [][popup # NoPopup /\ popup.tab = current => reached' \subseteq reached]_vars

\* Unless a selection in the background was the last to change it, the Paste
\* button is sensitive in a connected tab, and insensitive in any other but one
\* whose login bits have taken it out of CONNECTED past lcrt_terminal_set_status.
PasteFollowsStatus ==
  /\ current = NoTerminal <=> tabs = {}
  /\ ~background =>
       /\ current # NoTerminal /\ up[current] => paste
       /\ paste => current # NoTerminal /\ (up[current] \/ current \in mixed)

-----------------------------------------------------------------------------
(* The inductive invariant.                                                *)
(***************************************************************************)
\* The types that the proofs need; dialogs on the screen can be any.
TypeOK ==
  /\ tabs \subseteq Terminals
  /\ up \in [Terminals -> BOOLEAN] /\ mixed \subseteq tabs
  /\ locked \in [Terminals -> BOOLEAN] /\ sensitive \in [Terminals -> BOOLEAN]
  /\ password \in [Terminals -> Passwords]
  /\ current \in tabs \cup {NoTerminal}
  /\ paste \in BOOLEAN /\ background \in BOOLEAN
  /\ popup \in [tab : Terminals \cup {NoTerminal}, up : BOOLEAN, locked : BOOLEAN]
  /\ find \in [shown : BOOLEAN, on : Terminals \cup {NoTerminal}, typed : BOOLEAN, set : BOOLEAN]
  /\ regex \in [Terminals -> {"none", "dialog", "left"}]

\* While a popup menu is up its tab stays, with the lock it had; no find dialog is
\* up beside it, and one that is gone has no regex set.
GrabHolds ==
  /\ popup # NoPopup =>
       popup.tab \in tabs /\ popup.locked = locked[popup.tab] /\ ~find.shown
  /\ find.set => find.shown

IInv ==
  TypeOK /\ GrabHolds /\ LockedTakesNoInput /\ FindKeepsToItsTab /\ PasteFollowsStatus

-----------------------------------------------------------------------------
(* What one would expect of the commands and the code does not keep.       *)
(***************************************************************************)
\* The popup menu of a tab is about that tab.
PopupActsOnItsTab == popup # NoPopup => popup.tab = current

\* There is a terminal to search: without one the Find item is insensitive.
FindHasTerminal == app # "null"

\* The Paste button is sensitive only where lcrt_edit_on_paste_activate pastes.
PasteOfferedWhereItWorks ==
  ~background /\ paste => current # NoTerminal /\ up[current]

\* Closing the find dialog ends its search.
FindLeavesNothing == \A t \in Terminals : regex[t] # "left"
=============================================================================

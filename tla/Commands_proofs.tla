-------------------------- MODULE Commands_proofs ---------------------------
(***************************************************************************)
(* Theorems about the commands given to tabs, by menu, popup and dialog    *)
(* (TabCommands), and about the keys the commands have (Shortcuts).        *)
(***************************************************************************)
EXTENDS TabCommands, Shortcuts, TLAPS

-----------------------------------------------------------------------------
(* Commands given to tabs, for any number of tabs, lock dialogs and        *)
(* passwords.  The argument is about the grab: while a popup menu or the   *)
(* find dialog is up, no step changes the current tab, the tabs or their   *)
(* locks, except the menu's own command, which closes it.                  *)
(***************************************************************************)
(***************************************************************************)
(* Locks.                                                                  *)
(***************************************************************************)
LockInv ==
  /\ locked \in [Terminals -> BOOLEAN] /\ sensitive \in [Terminals -> BOOLEAN]
  /\ password \in [Terminals -> Passwords]
  /\ LockedTakesNoInput

\* The step leaves the password of what stays locked.
KeepsPasswords ==
  \A t \in tabs \cap tabs' : locked[t] /\ locked'[t] => password'[t] = password[t]

LEMMA SetLockedKeeps ==
  ASSUME LockInv, NEW t, NEW on \in BOOLEAN, SetLocked(t, on)
  PROVE  /\ locked' \in [Terminals -> BOOLEAN] /\ sensitive' \in [Terminals -> BOOLEAN]
         /\ LockedTakesNoInput'
         /\ \A u \in Terminals \ {t} : locked'[u] = locked[u]
         /\ t \in Terminals => locked'[t] = on
BY DEF LockInv, SetLocked, LockedTakesNoInput

LEMMA SameLocks == ASSUME LockInv, UNCHANGED lockVars PROVE LockInv' /\ KeepsPasswords
BY DEF LockInv, lockVars, LockedTakesNoInput, KeepsPasswords

\* The OK button of a lock dialog, whatever terminal the dialog points to by then:
\* it locks only what is unlocked, and only locking stores a password.
LEMMA OkKeeps ==
  ASSUME LockInv, tabs \subseteq Terminals, NEW d, NEW pw \in Passwords, NEW again \in Passwords,
         Ok(d, pw, again)
  PROVE  LockInv' /\ KeepsPasswords
<1> DEFINE t == dialogs[d].term
<1>1. CASE UNCHANGED lockVars
  BY <1>1, SameLocks
<1>2. CASE ~locked[t] /\ SetLocked(t, TRUE) /\ password' = [password EXCEPT ![t] = pw]
  <2>1. /\ LockedTakesNoInput' /\ locked' \in [Terminals -> BOOLEAN]
        /\ sensitive' \in [Terminals -> BOOLEAN]
    BY <1>2, SetLockedKeeps
  <2>2. password' \in [Terminals -> Passwords]
    BY <1>2 DEF LockInv
  <2>3. KeepsPasswords
    BY <1>2 DEF LockInv, KeepsPasswords
  <2> QED BY <2>1, <2>2, <2>3 DEF LockInv
<1>3. CASE SetLocked(t, FALSE) /\ UNCHANGED password
  BY <1>3, SetLockedKeeps DEF LockInv, KeepsPasswords
<1> QED BY <1>1, <1>2, <1>3 DEF Ok, Mismatch

LEMMA OpenTabKeeps ==
  ASSUME LockInv, NEW t \in Terminals, OpenTab(t)
  PROVE  LockInv' /\ KeepsPasswords
BY SetLockedKeeps DEF OpenTab, LockInv, KeepsPasswords

LEMMA CloseTabKeeps ==
  ASSUME LockInv, tabs \subseteq Terminals, NEW t \in Terminals, CloseTab(t)
  PROVE  LockInv' /\ KeepsPasswords
<1>1. /\ LockedTakesNoInput' /\ locked' \in [Terminals -> BOOLEAN]
      /\ sensitive' \in [Terminals -> BOOLEAN]
  BY SetLockedKeeps DEF CloseTab
<1>2. (CHOOSE p \in Passwords : TRUE) \in Passwords
  BY LockAssumption
<1>3. password' \in [Terminals -> Passwords]
  BY <1>2 DEF CloseTab, LockInv
<1>4. KeepsPasswords
  BY DEF CloseTab, LockInv, KeepsPasswords
<1> QED BY <1>1, <1>3, <1>4 DEF LockInv

(***************************************************************************)
(* The find dialog.                                                        *)
(***************************************************************************)
\* Without a find dialog nothing searches with its regex, whatever becomes of the
\* current tab and of a terminal's own regex.
LEMMA NoFindKeeps ==
  ASSUME IInv, ~find.shown, UNCHANGED find,
         \A u \in Terminals : regex'[u] = regex[u] \/ regex'[u] = "none"
  PROVE  FindKeepsToItsTab' /\ ~find'.shown /\ ~find'.set
BY DEF IInv, GrabHolds, FindKeepsToItsTab

\* With one, the current tab stays.
LEMMA SameTabKeeps ==
  ASSUME IInv, app = "up", UNCHANGED <<find, regex, current>>
  PROVE  FindKeepsToItsTab'
BY DEF IInv, FindKeepsToItsTab

(***************************************************************************)
(* Steps that change what is beneath menus and dialogs.                    *)
(***************************************************************************)
LEMMA IInvLock == IInv => LockInv /\ tabs \subseteq Terminals
BY DEF IInv, TypeOK, LockInv

\* The buttons of a lock dialog.
LEMMA DialogKeeps ==
  ASSUME IInv, app = "up", ~Grabbed, DialogStep, UNCHANGED commandVars
  PROVE  IInv' /\ KeepsPasswords
<1>1. UNCHANGED <<tabs, up, mixed, reached>>
  BY DEF DialogStep, Cancel, ClickOk, CloseMessage, statusVars
<1>2. LockInv' /\ KeepsPasswords
  <2>1. ASSUME NEW d \in Dialogs, Cancel(d) PROVE LockInv' /\ KeepsPasswords
    BY <2>1, IInvLock, SameLocks DEF Cancel
  <2>2. ASSUME NEW d \in Dialogs, NEW pw \in Passwords, NEW again \in Passwords,
               ClickOk(d, pw, again)
        PROVE  LockInv' /\ KeepsPasswords
    BY <2>2, IInvLock, OkKeeps DEF ClickOk
  <2>3. CASE CloseMessage
    BY <2>3, IInvLock, SameLocks DEF CloseMessage
  <2> QED BY <2>1, <2>2, <2>3 DEF DialogStep
<1>3. UNCHANGED <<current, paste, background, popup, findItem, find, regex>>
  BY DEF commandVars, pasteVars, findVars
<1>4. FindKeepsToItsTab'
  BY <1>3, SameTabKeeps
<1>5. GrabHolds'
  BY <1>3 DEF IInv, GrabHolds, Grabbed
<1>6. TypeOK' /\ PasteFollowsStatus'
  BY <1>1, <1>2, <1>3 DEF IInv, TypeOK, LockInv, PasteFollowsStatus
<1> QED BY <1>2, <1>4, <1>5, <1>6 DEF IInv, LockInv

\* A new tab becomes the current one.
LEMMA NewTabKeeps ==
  ASSUME IInv, NEW t \in Terminals, NewTab(t), ~find.shown, popup' = NoPopup
  PROVE  IInv' /\ KeepsPasswords
<1>1. LockInv' /\ KeepsPasswords
  BY IInvLock, OpenTabKeeps DEF NewTab
<1>2. tabs' = tabs \cup {t} /\ UNCHANGED <<up, mixed, find, regex>>
      /\ current' = t /\ t # NoTerminal /\ paste' = up[t] /\ background' = FALSE
  BY LockAssumption DEF NewTab, OpenTab, SwitchPage, SetPaste, findVars, IInv, TypeOK, statusVars
<1>3. FindKeepsToItsTab' /\ ~find'.set
  BY <1>2, NoFindKeeps
<1>4. NoPopup \in [tab : Terminals \cup {NoTerminal}, up : BOOLEAN, locked : BOOLEAN]
  BY DEF NoPopup
<1>5. TypeOK'
  BY <1>1, <1>2, <1>4 DEF IInv, TypeOK, LockInv
<1>6. PasteFollowsStatus'
  <2>1. up' = up /\ current' = t /\ paste' = up[t] /\ tabs' # {} /\ t # NoTerminal
    BY <1>2
  <2>2. up[t] \in BOOLEAN
    BY DEF IInv, TypeOK
  <2> QED BY <2>1, <2>2 DEF PasteFollowsStatus
<1>7. GrabHolds'
  BY <1>3 DEF GrabHolds
<1> QED BY <1>1, <1>3, <1>5, <1>6, <1>7 DEF IInv, LockInv

\* A tab goes; another one becomes current if it was the current one.
LEMMA RemoveTabKeeps ==
  ASSUME IInv, NEW t \in Terminals, RemoveTab(t), ~find.shown, popup' = NoPopup
  PROVE  IInv' /\ KeepsPasswords
<1>1. LockInv' /\ KeepsPasswords
  BY IInvLock, CloseTabKeeps DEF RemoveTab
<1>2. /\ t \in tabs /\ tabs' = tabs \ {t} /\ up' = [up EXCEPT ![t] = FALSE]
      /\ mixed' = mixed \ {t}
      /\ regex' = [regex EXCEPT ![t] = "none"] /\ UNCHANGED find
  BY DEF RemoveTab, CloseTab
<1>3. FindKeepsToItsTab' /\ ~find'.set
  BY <1>2, NoFindKeeps DEF IInv, TypeOK
<1>4. NoPopup \in [tab : Terminals \cup {NoTerminal}, up : BOOLEAN, locked : BOOLEAN]
  BY DEF NoPopup
<1>5. current' \in tabs' \cup {NoTerminal} /\ paste' \in BOOLEAN /\ background' \in BOOLEAN
  <2>1. CASE t # current /\ UNCHANGED <<current, pasteVars>>
    BY <1>2, <2>1 DEF IInv, TypeOK, pasteVars
  <2>2. CASE \E n \in tabs \ {t} : SwitchPage(n)
    BY <1>2, <2>2 DEF IInv, TypeOK, SwitchPage, SetPaste
  <2>3. CASE SwitchPage(NoTerminal)
    BY <1>2, <2>3 DEF IInv, TypeOK, SwitchPage, SetPaste
  <2> QED BY <2>1, <2>2, <2>3 DEF RemoveTab
<1>8. PasteFollowsStatus'
  <2>1. CASE t # current /\ UNCHANGED <<current, pasteVars>>
    BY <1>2, <2>1 DEF IInv, TypeOK, PasteFollowsStatus, pasteVars
  <2>2. CASE \E n \in tabs \ {t} : SwitchPage(n)
    BY <1>2, <2>2, LockAssumption DEF IInv, TypeOK, PasteFollowsStatus, SwitchPage, SetPaste
  <2>3. CASE tabs = {t} /\ SwitchPage(NoTerminal)
    BY <1>2, <2>3 DEF IInv, TypeOK, PasteFollowsStatus, SwitchPage, SetPaste
  <2> QED BY <2>1, <2>2, <2>3 DEF RemoveTab
<1>6. TypeOK'
  BY <1>1, <1>2, <1>4, <1>5 DEF IInv, TypeOK, LockInv
<1>7. GrabHolds'
  BY <1>3 DEF GrabHolds
<1> QED BY <1>1, <1>3, <1>6, <1>7, <1>8 DEF IInv, LockInv

(***************************************************************************)
(* Steps of one tab that change no tabs, locks or dialogs.                 *)
(***************************************************************************)
\* A tab with a session or login bits keeps either, and gets no session.
KeepsOffer(t) ==
  t # NoTerminal =>
    /\ up'[t] => up[t]
    /\ up[t] \/ t \in mixed => up'[t] \/ t \in mixed'

\* The frame of such a step: what is left to show is the types and the button.
LEMMA SameLocksAndTab ==
  ASSUME IInv, app = "up", UNCHANGED <<tabs, lockVars, current, find, regex>>,
         up' \in [Terminals -> BOOLEAN], mixed' \subseteq tabs, popup' = popup \/ popup' = NoPopup,
         paste' \in BOOLEAN, background' \in BOOLEAN
  PROVE  /\ TypeOK' /\ GrabHolds' /\ LockedTakesNoInput' /\ FindKeepsToItsTab'
         /\ KeepsPasswords
<1>1. LockInv' /\ KeepsPasswords
  BY IInvLock, SameLocks
<1>2. FindKeepsToItsTab'
  BY SameTabKeeps
<1>3. NoPopup \in [tab : Terminals \cup {NoTerminal}, up : BOOLEAN, locked : BOOLEAN]
  BY DEF NoPopup
<1>4. TypeOK'
  BY <1>1, <1>3 DEF IInv, TypeOK, LockInv
<1>5. GrabHolds'
  BY DEF IInv, GrabHolds, lockVars
<1> QED BY <1>1, <1>2, <1>4, <1>5 DEF LockInv

\* The button goes with the status of the current tab, or it stays while that tab
\* keeps its status or leaves CONNECTED by a login bit.
LEMMA PasteKeeps ==
  ASSUME IInv, UNCHANGED <<tabs, current>>,
         up' \in [Terminals -> BOOLEAN],
         \/ current # NoTerminal /\ SetPaste(up'[current])
         \/ UNCHANGED pasteVars /\ KeepsOffer(current)
  PROVE  PasteFollowsStatus' /\ paste' \in BOOLEAN /\ background' \in BOOLEAN
<1>1. CASE current # NoTerminal /\ SetPaste(up'[current])
  <2>1. up'[current] \in BOOLEAN
    BY <1>1 DEF IInv, TypeOK
  <2> QED BY <1>1, <2>1 DEF IInv, PasteFollowsStatus, SetPaste
<1>2. CASE UNCHANGED pasteVars /\ KeepsOffer(current)
  BY <1>2 DEF IInv, TypeOK, PasteFollowsStatus, pasteVars, KeepsOffer
<1> QED BY <1>1, <1>2

\* Two steps of one kind: a session's status changes, and the button is told.
LEMMA StatusKeeps ==
  ASSUME IInv, app = "up", NEW t \in Terminals, UNCHANGED <<tabs, lockVars, current, find, regex>>,
         up' \in [Terminals -> BOOLEAN], \A u \in Terminals \ {t} : up'[u] = up[u],
         mixed' \subseteq tabs, mixed \ {t} \subseteq mixed',
         StatusSet(t) \/ (UNCHANGED pasteVars /\ KeepsOffer(t)),
         popup' = popup \/ popup' = NoPopup
  PROVE  IInv' /\ KeepsPasswords
<1>1. current \in Terminals \cup {NoTerminal} /\ NoTerminal \notin Terminals
  BY LockAssumption DEF IInv, TypeOK
<1>2. PasteFollowsStatus' /\ paste' \in BOOLEAN /\ background' \in BOOLEAN
  <2>1. CASE t = current
    BY <2>1, <1>1, PasteKeeps DEF StatusSet
  <2>2. CASE t # current
    <3>1. UNCHANGED pasteVars
      BY <2>2 DEF StatusSet
    <3>2. KeepsOffer(current)
      BY <2>2, <1>1 DEF KeepsOffer
    <3> QED BY <3>1, <3>2, PasteKeeps
  <2> QED BY <2>1, <2>2
<1> QED BY <1>2, SameLocksAndTab DEF IInv

LEMMA SessionKeeps ==
  ASSUME IInv, app = "up", NEW t \in Terminals, Session(t)
  PROVE  IInv' /\ KeepsPasswords
<1>1. /\ \E on \in BOOLEAN : up' = [up EXCEPT ![t] = on]
      /\ mixed' = mixed \ {t} /\ UNCHANGED <<tabs, lockVars, current, popup, find, regex>>
  BY DEF Session, SessionChanges, findVars
<1>2. up' \in [Terminals -> BOOLEAN] /\ \A u \in Terminals \ {t} : up'[u] = up[u]
  BY <1>1 DEF IInv, TypeOK
<1>3. mixed' \subseteq tabs /\ mixed \ {t} \subseteq mixed'
  BY <1>1 DEF IInv, TypeOK
<1> QED BY <1>1, <1>2, <1>3, StatusKeeps DEF Session

LEMMA SilentChangeKeeps ==
  ASSUME IInv, app = "up", NEW t \in Terminals, SilentChange(t)
  PROVE  IInv' /\ KeepsPasswords
<1>1. /\ t \in tabs /\ up' = [up EXCEPT ![t] = FALSE] /\ mixed' = mixed \cup {t}
      /\ UNCHANGED <<tabs, lockVars, current, pasteVars, popup, find, regex>>
  BY DEF SilentChange, LoginBit, commandVars, findVars
<1>2. up' \in [Terminals -> BOOLEAN] /\ (\A u \in Terminals \ {t} : up'[u] = up[u]) /\ ~up'[t]
  BY <1>1 DEF IInv, TypeOK
<1>3. mixed' \subseteq tabs /\ mixed \ {t} \subseteq mixed'
  BY <1>1 DEF IInv, TypeOK
<1>4. KeepsOffer(t)
  BY <1>1, <1>2 DEF KeepsOffer
<1> QED BY <1>1, <1>2, <1>3, <1>4, StatusKeeps

LEMMA TakeDownKeeps ==
  ASSUME IInv, app = "up", NEW t \in Terminals, TakeDown(t), UNCHANGED <<current, find, regex>>,
         popup' = popup \/ popup' = NoPopup
  PROVE  IInv' /\ KeepsPasswords
<1>1. UNCHANGED <<tabs, mixed, lockVars>> /\ up[t] /\ \E stays \in BOOLEAN : up' = [up EXCEPT ![t] = stays]
  BY DEF TakeDown, Disconnect
<1>2. up' \in [Terminals -> BOOLEAN] /\ \A u \in Terminals \ {t} : up'[u] = up[u]
  BY <1>1 DEF IInv, TypeOK
<1>3. up'[t] => KeepsOffer(t)
  BY <1>1, <1>2 DEF IInv, TypeOK, KeepsOffer
<1>4. mixed' \subseteq tabs /\ mixed \ {t} \subseteq mixed'
  BY <1>1 DEF IInv, TypeOK
<1> QED BY <1>1, <1>2, <1>3, <1>4, StatusKeeps DEF TakeDown

\* A command that is only told to the session, or opens a lock dialog.
LEMMA QuietKeeps ==
  ASSUME IInv, app = "up",
         UNCHANGED <<tabs, up, mixed, lockVars, current, pasteVars, find, regex>>,
         popup' = popup \/ popup' = NoPopup
  PROVE  IInv' /\ KeepsPasswords
<1>1. up' \in [Terminals -> BOOLEAN] /\ mixed' \subseteq tabs /\ KeepsOffer(current)
  BY DEF IInv, TypeOK, KeepsOffer
<1>2. PasteFollowsStatus' /\ paste' \in BOOLEAN /\ background' \in BOOLEAN
  BY <1>1, PasteKeeps
<1> QED BY <1>1, <1>2, SameLocksAndTab DEF IInv

LEMMA SelectionKeeps ==
  ASSUME IInv, app = "up", NEW t \in Terminals, SelectionChanged(t)
  PROVE  IInv' /\ KeepsPasswords
<1>1. UNCHANGED <<tabs, up, mixed, lockVars, current, find, regex, popup>>
      /\ paste' = up[t] /\ background' = (t # current) /\ t \in tabs
  BY DEF SelectionChanged, sessionVars, statusVars, findVars
<1>2. up' \in [Terminals -> BOOLEAN] /\ mixed' \subseteq tabs /\ paste' \in BOOLEAN /\ background' \in BOOLEAN
  BY <1>1 DEF IInv, TypeOK
<1>3. PasteFollowsStatus'
  <2>1. CASE t = current
    BY <2>1, <1>1, <1>2, LockAssumption DEF IInv, TypeOK, PasteFollowsStatus
  <2>2. CASE t # current
    BY <2>2, <1>1 DEF IInv, PasteFollowsStatus
  <2> QED BY <2>1, <2>2
<1> QED BY <1>1, <1>2, <1>3, SameLocksAndTab DEF IInv

\* The user goes to another page; nothing has the grab.
LEMMA SelectKeeps ==
  ASSUME IInv, app = "up", NEW t \in Terminals, SelectTab(t)
  PROVE  IInv' /\ KeepsPasswords
<1>1. UNCHANGED <<tabs, up, mixed, lockVars, find, regex, popup>> /\ ~find.shown /\ t \in tabs
      /\ current' = t /\ paste' = up[t] /\ background' = FALSE /\ t # NoTerminal
  <2>1. t # NoTerminal
    BY LockAssumption
  <2>2. UNCHANGED <<tabs, up, mixed, lockVars, find, regex, popup>> /\ ~find.shown /\ t \in tabs
    BY DEF SelectTab, Free, Grabbed, sessionVars, statusVars, findVars
  <2>3. current' = t /\ paste' = (t # NoTerminal /\ up'[t]) /\ background' = FALSE
    BY DEF SelectTab, SwitchPage, SetPaste
  <2>4. up[t] \in BOOLEAN /\ up'[t] = up[t]
    BY <2>2 DEF IInv, TypeOK
  <2> QED BY <2>1, <2>2, <2>3, <2>4
<1>2. LockInv' /\ KeepsPasswords
  BY <1>1, IInvLock, SameLocks
<1>3. FindKeepsToItsTab'
  BY <1>1, NoFindKeeps
<1>4. TypeOK' /\ GrabHolds'
  BY <1>1, <1>2 DEF IInv, TypeOK, LockInv, GrabHolds, lockVars
<1>5. PasteFollowsStatus'
  <2>1. up[t] \in BOOLEAN
    BY DEF IInv, TypeOK
  <2> QED BY <1>1, <2>1 DEF PasteFollowsStatus
<1> QED BY <1>2, <1>3, <1>4, <1>5 DEF IInv, LockInv

LEMMA AllTabsKeeps ==
  ASSUME IInv, app = "up", NEW reconnect \in BOOLEAN, AllTabs(reconnect)
  PROVE  IInv' /\ KeepsPasswords
<1>1. UNCHANGED <<tabs, lockVars, current, find, regex, popup>>
  BY DEF AllTabs, findVars
<1>2. PICK shells \in SUBSET {t \in tabs : up[t] /\ ~reconnect} :
        up' = [t \in Terminals |-> t \in shells]
  BY DEF AllTabs
<1>3. up' \in [Terminals -> BOOLEAN] /\ up \in [Terminals -> BOOLEAN]
  BY <1>2 DEF IInv, TypeOK
<1>4. (current # NoTerminal => current \in Terminals) /\ mixed' \subseteq tabs
  BY DEF IInv, TypeOK, AllTabs
<1>5. \/ current # NoTerminal /\ SetPaste(up'[current])
      \/ UNCHANGED pasteVars /\ KeepsOffer(current)
  <2>1. CASE current # NoTerminal /\ (reconnect \/ up'[current] # up[current])
    <3>1. SetPaste(FALSE)
      BY <2>1 DEF AllTabs
    <3>2. up'[current] = (current \in shells)
      BY <1>2, <1>4, <2>1
    <3>3. current \in shells => ~reconnect /\ up[current] = TRUE
      BY <1>3, <1>4, <2>1
    <3>4. CASE current \in shells
      BY <2>1, <3>2, <3>3, <3>4
    <3>5. CASE current \notin shells
      <4>1. up'[current] \in BOOLEAN /\ ~up'[current]
        BY <1>2, <1>3, <1>4, <2>1, <3>5
      <4> QED BY <4>1, <2>1, <3>1
    <3> QED BY <3>4, <3>5
  <2>2. CASE ~(current # NoTerminal /\ (reconnect \/ up'[current] # up[current]))
    <3>1. UNCHANGED pasteVars
      BY <2>2 DEF AllTabs
    <3>2. current # NoTerminal => up'[current] = up[current] /\ mixed' = mixed
      BY <2>2 DEF AllTabs
    <3> QED BY <3>1, <3>2 DEF KeepsOffer
  <2> QED BY <2>1, <2>2
<1>6. PasteFollowsStatus' /\ paste' \in BOOLEAN /\ background' \in BOOLEAN
  BY <1>1, <1>3, <1>5, PasteKeeps
<1> QED BY <1>1, <1>3, <1>4, <1>6, SameLocksAndTab DEF IInv

LEMMA WindowCommandKeeps ==
  ASSUME IInv, app = "up", NEW t \in Terminals, WindowCommand(t)
  PROVE  IInv' /\ KeepsPasswords
<1>1. UNCHANGED <<current, find, regex, popup>>
  BY DEF WindowCommand, findVars
<1>2. CASE TakeDown(t)
  BY <1>1, <1>2, TakeDownKeeps
<1>3. CASE (Paste(t) \/ Tell(t) \/ OpenDialog(t)) /\ UNCHANGED pasteVars
  BY <1>1, <1>3, QuietKeeps DEF Paste, Tell, OpenDialog, statusVars
<1> QED BY <1>2, <1>3 DEF WindowCommand

(***************************************************************************)
(* The popup menu.                                                         *)
(***************************************************************************)
LEMMA OpenPopupKeeps ==
  ASSUME IInv, app = "up", NEW t \in Terminals, OpenPopup(t)
  PROVE  IInv' /\ KeepsPasswords
<1>1. /\ UNCHANGED <<tabs, up, mixed, lockVars, current, pasteVars, find, regex>> /\ t \in tabs
      /\ ~find.shown /\ popup' = [tab |-> t, up |-> up[t], locked |-> locked[t]]
  BY DEF OpenPopup, Free, Grabbed, sessionVars, statusVars, findVars
<1>2. LockInv' /\ KeepsPasswords
  BY <1>1, IInvLock, SameLocks
<1>3. FindKeepsToItsTab'
  BY <1>1, SameTabKeeps
<1>4. up[t] \in BOOLEAN /\ locked[t] \in BOOLEAN
  BY DEF IInv, TypeOK
<1>5. TypeOK'
  BY <1>1, <1>2, <1>4 DEF IInv, TypeOK, LockInv, pasteVars
<1>6. GrabHolds'
  BY <1>1 DEF IInv, GrabHolds, lockVars
<1>7. PasteFollowsStatus'
  BY <1>1 DEF IInv, PasteFollowsStatus, pasteVars
<1> QED BY <1>2, <1>3, <1>5, <1>6, <1>7 DEF IInv, LockInv

\* Whatever command of the menu is chosen, it reaches no locked tab if the menu is
\* that of the current tab: the menu knows the lock.
LEMMA PopupItemSpares ==
  ASSUME IInv, popup # NoPopup, popup.tab = current, PopupItem(current)
  PROVE  reached' \subseteq reached
<1>1. current \in tabs /\ popup.locked = locked[current]
  BY DEF IInv, GrabHolds
<1>2. ASSUME ~popup.locked, Reach({current}) PROVE reached' \subseteq reached
  BY <1>1, <1>2 DEF Reach
<1>3. CASE (Offered("edit") \/ Offered("reconnect")) /\ Tell(current)
  BY <1>2, <1>3 DEF Offered, Tell
<1>4. CASE Offered("disconnect") /\ TakeDown(current)
  BY <1>2, <1>4 DEF Offered, TakeDown, Disconnect
<1>5. CASE \E n \in Terminals : NewTab(n)
  BY <1>5 DEF NewTab, OpenTab
<1>6. CASE RemoveTab(current)
  BY <1>6 DEF RemoveTab, CloseTab
<1>7. CASE OpenDialog(current)
  BY <1>7 DEF OpenDialog
<1> QED BY <1>3, <1>4, <1>5, <1>6, <1>7 DEF PopupItem

LEMMA PopupCommandKeeps ==
  ASSUME IInv, app = "up", PopupCommand
  PROVE  IInv' /\ KeepsPasswords
<1>1. popup' = NoPopup /\ ~find.shown /\ PopupItem(current)
  BY DEF PopupCommand, IInv, GrabHolds
<1>2. current \in Terminals
  <2>1. tabs # {}
    BY DEF PopupCommand, IInv, GrabHolds
  <2> QED BY <2>1 DEF IInv, TypeOK, PasteFollowsStatus
<1>3. CASE (Tell(current) \/ OpenDialog(current)) /\ UNCHANGED <<current, pasteVars, findVars>>
  BY <1>1, <1>3, QuietKeeps DEF Tell, OpenDialog, findVars, statusVars
<1>7. CASE Tell(current) /\ StatusSet(current) /\ UNCHANGED <<current, findVars>>
  <2>1. UNCHANGED <<tabs, up, mixed, lockVars>> /\ up' \in [Terminals -> BOOLEAN] /\ mixed' \subseteq tabs
    BY <1>7 DEF Tell, statusVars, IInv, TypeOK
  <2> QED BY <1>1, <1>2, <1>7, <2>1, StatusKeeps DEF findVars
<1>4. CASE TakeDown(current) /\ UNCHANGED <<current, findVars>>
  BY <1>1, <1>2, <1>4, TakeDownKeeps DEF findVars
<1>5. CASE \E n \in Terminals : NewTab(n)
  BY <1>1, <1>5, NewTabKeeps
<1>6. CASE RemoveTab(current)
  BY <1>1, <1>2, <1>6, RemoveTabKeeps
<1> QED BY <1>1, <1>3, <1>4, <1>5, <1>6, <1>7 DEF PopupItem

(***************************************************************************)
(* The find dialog and the menus.                                          *)
(***************************************************************************)
\* The frame of a step of the find dialog: it keeps its tab and sets no locks.
LEMMA FindFrame ==
  ASSUME IInv, UNCHANGED <<tabs, up, mixed, lockVars, current, pasteVars, popup>>,
         find' \in [shown : BOOLEAN, on : Terminals \cup {NoTerminal}, typed : BOOLEAN,
                    set : BOOLEAN],
         regex' \in [Terminals -> {"none", "dialog", "left"}],
         find'.set => find'.shown, find'.shown => popup = NoPopup,
         FindKeepsToItsTab'
  PROVE  IInv' /\ KeepsPasswords
<1>1. LockInv' /\ KeepsPasswords
  BY IInvLock, SameLocks
<1>2. TypeOK' /\ GrabHolds' /\ PasteFollowsStatus'
  BY <1>1 DEF IInv, TypeOK, LockInv, GrabHolds, PasteFollowsStatus, lockVars, pasteVars
<1> QED BY <1>1, <1>2 DEF IInv, LockInv

\* Opening the Edit menu or closing a popup menu.
LEMMA MenuKeeps ==
  ASSUME IInv, app = "up", OpenEditMenu \/ ClosePopup
  PROVE  IInv' /\ KeepsPasswords
BY QuietKeeps DEF OpenEditMenu, ClosePopup, sessionVars, statusVars, findVars

LEMMA OpenFindKeeps ==
  ASSUME IInv, OpenFind
  PROVE  IInv' /\ KeepsPasswords
<1>1. /\ UNCHANGED <<tabs, up, mixed, lockVars, current, pasteVars, popup, regex>>
      /\ find' = [shown |-> TRUE, on |-> current, typed |-> FALSE, set |-> FALSE]
      /\ ~find.shown /\ popup = NoPopup
  BY DEF OpenFind, Free, Grabbed, NoFind, sessionVars, statusVars
<1>2. FindKeepsToItsTab'
  BY <1>1 DEF IInv, FindKeepsToItsTab
<1> QED BY <1>1, <1>2, FindFrame DEF IInv, TypeOK

LEMMA TypePatternKeeps ==
  ASSUME IInv, app = "up", NEW some \in BOOLEAN, TypePattern(some)
  PROVE  IInv' /\ KeepsPasswords
<1>1. /\ UNCHANGED <<tabs, up, mixed, lockVars, current, pasteVars, popup, regex>> /\ find.shown
      /\ find' = [find EXCEPT !.typed = some, !.set = find.set /\ ~some]
  BY DEF TypePattern, sessionVars, statusVars
<1>2. /\ find' \in [shown : BOOLEAN, on : Terminals \cup {NoTerminal}, typed : BOOLEAN,
                    set : BOOLEAN]
      /\ find'.shown /\ find'.on = find.on /\ (find'.set => find.set)
  BY <1>1 DEF IInv, TypeOK
<1>3. FindKeepsToItsTab'
  BY <1>1, <1>2 DEF IInv, FindKeepsToItsTab
<1>4. popup = NoPopup
  BY <1>1 DEF IInv, GrabHolds
<1> QED BY <1>1, <1>2, <1>3, <1>4, FindFrame DEF IInv, TypeOK

LEMMA DroppedIsFree ==
  ASSUME IInv
  PROVE  /\ Dropped \in [Terminals -> {"none", "dialog", "left"}]
         /\ \A u \in Terminals : Dropped[u] # "dialog"
BY DEF IInv, TypeOK, Dropped

\* The tab that is current at the click is the one the dialog was opened over.
LEMMA ClickFindKeeps ==
  ASSUME IInv, app = "up", ClickFind
  PROVE  IInv' /\ KeepsPasswords
<1>1. UNCHANGED <<tabs, up, mixed, lockVars, current, pasteVars, popup>> /\ find.shown
  BY DEF ClickFind, statusVars
<1>2. popup = NoPopup /\ current = find.on
  BY <1>1 DEF IInv, GrabHolds, FindKeepsToItsTab
<1>3. CASE current = NoTerminal
  <2>1. UNCHANGED <<find, regex>>
    BY <1>3 DEF ClickFind
  <2> QED BY <1>1, <2>1, QuietKeeps
<1>4. CASE current # NoTerminal
  <2>1. /\ find' = [find EXCEPT !.set = TRUE] /\ UNCHANGED app
        /\ regex' = IF find.set THEN regex ELSE [Dropped EXCEPT ![current] = "dialog"]
    BY <1>4 DEF ClickFind
  <2>2. current \in Terminals
    BY <1>4 DEF IInv, TypeOK
  <2>3. /\ find' \in [shown : BOOLEAN, on : Terminals \cup {NoTerminal}, typed : BOOLEAN,
                      set : BOOLEAN]
        /\ find'.shown /\ find'.on = current
    BY <1>1, <1>2, <2>1 DEF IInv, TypeOK
  <2>4. /\ regex' \in [Terminals -> {"none", "dialog", "left"}]
        /\ \A u \in Terminals : regex'[u] = "dialog" <=> u = current
    <3>1. CASE find.set
      BY <1>2, <2>1, <2>2, <3>1 DEF IInv, TypeOK, FindKeepsToItsTab
    <3>2. CASE ~find.set
      BY <2>1, <2>2, <3>2, DroppedIsFree
    <3> QED BY <3>1, <3>2
  <2>5. FindKeepsToItsTab'
    BY <1>1, <2>2, <2>3, <2>4 DEF FindKeepsToItsTab
  <2> QED BY <1>1, <1>2, <2>3, <2>4, <2>5, FindFrame
<1> QED BY <1>3, <1>4

LEMMA CloseFindKeeps ==
  ASSUME IInv, CloseFind
  PROVE  IInv' /\ KeepsPasswords
<1>1. /\ UNCHANGED <<tabs, up, mixed, lockVars, current, pasteVars, popup>>
      /\ find' = [shown |-> FALSE, on |-> NoTerminal, typed |-> FALSE, set |-> FALSE]
      /\ regex' = [u \in Terminals |-> IF find.set /\ u = current THEN "none" ELSE Dropped[u]]
  BY DEF CloseFind, NoFind, statusVars
<1>2. /\ regex' \in [Terminals -> {"none", "dialog", "left"}]
      /\ \A u \in Terminals : regex'[u] # "dialog"
  BY <1>1, DroppedIsFree
<1>3. FindKeepsToItsTab'
  BY <1>1, <1>2 DEF FindKeepsToItsTab
<1> QED BY <1>1, <1>2, <1>3, FindFrame

(***************************************************************************)
(* The specification.                                                      *)
(***************************************************************************)
LEMMA InitIInv == Init => IInv
<1> SUFFICES ASSUME Init PROVE IInv
  OBVIOUS
<1>1. (CHOOSE p \in Passwords : TRUE) \in Passwords
  BY LockAssumption
<1>2. TypeOK
  BY <1>1 DEF Init, LockInit, TypeOK, NoPopup, NoFind
<1>3. GrabHolds /\ LockedTakesNoInput /\ FindKeepsToItsTab /\ PasteFollowsStatus
  BY DEF Init, LockInit, GrabHolds, LockedTakesNoInput, FindKeepsToItsTab,
         PasteFollowsStatus, NoPopup, NoFind
<1> QED BY <1>2, <1>3 DEF IInv

LEMMA TabStepKeeps ==
  ASSUME IInv, app = "up", TabStep
  PROVE  IInv' /\ KeepsPasswords
<1> PICK t \in Terminals :
      \/ SelectTab(t) \/ Session(t) \/ SilentChange(t) \/ SelectionChanged(t) \/ WindowCommand(t) \/ OpenPopup(t)
      \/ Free /\ (NewTab(t) \/ RemoveTab(t)) /\ UNCHANGED popup
  BY DEF TabStep
<1>1. CASE SelectTab(t)
  BY <1>1, SelectKeeps
<1>2. CASE Session(t)
  BY <1>2, SessionKeeps
<1>11. CASE SilentChange(t)
  BY <1>11, SilentChangeKeeps
<1>3. CASE SelectionChanged(t)
  BY <1>3, SelectionKeeps
<1>4. CASE WindowCommand(t)
  BY <1>4, WindowCommandKeeps
<1>5. CASE OpenPopup(t)
  BY <1>5, OpenPopupKeeps
<1>6. CASE Free /\ NewTab(t) /\ UNCHANGED popup
  BY <1>6, NewTabKeeps DEF Free, Grabbed
<1>7. CASE Free /\ RemoveTab(t) /\ UNCHANGED popup
  BY <1>7, RemoveTabKeeps DEF Free, Grabbed
<1> QED BY <1>1, <1>2, <1>3, <1>4, <1>5, <1>6, <1>7, <1>11

LEMMA FindStepKeeps ==
  ASSUME IInv, app = "up", FindStep
  PROVE  IInv' /\ KeepsPasswords
<1>1. CASE OpenEditMenu
  BY <1>1, MenuKeeps
<1>2. CASE OpenFind
  BY <1>2, OpenFindKeeps
<1>3. CASE \E some \in BOOLEAN : TypePattern(some)
  BY <1>3, TypePatternKeeps
<1>4. CASE ClickFind
  BY <1>4, ClickFindKeeps
<1>5. CASE CloseFind
  BY <1>5, CloseFindKeeps
<1> QED BY <1>1, <1>2, <1>3, <1>4, <1>5 DEF FindStep

LEMMA NextKeeps ==
  ASSUME IInv, [Next]_vars
  PROVE  IInv' /\ KeepsPasswords
<1>1. CASE app = "up" /\ TabStep
  BY <1>1, TabStepKeeps
<1>2. CASE app = "up" /\ PopupCommand
  BY <1>2, PopupCommandKeeps
<1>3. CASE app = "up" /\ ClosePopup
  BY <1>3, MenuKeeps
<1>4. CASE app = "up" /\ FindStep
  BY <1>4, FindStepKeeps
<1>5. CASE app = "up" /\ \E reconnect \in BOOLEAN : AllTabs(reconnect)
  BY <1>5, AllTabsKeeps
<1>6. CASE app = "up" /\ ~Grabbed /\ DialogStep /\ UNCHANGED commandVars
  BY <1>6, DialogKeeps
<1>7. CASE UNCHANGED vars
  <2>1. UNCHANGED <<tabs, up, mixed, lockVars, app, current, pasteVars, popup, find, regex>>
    BY <1>7 DEF vars, sessionVars, statusVars, commandVars, findVars
  <2>2. LockInv' /\ KeepsPasswords
    BY <2>1, IInvLock, SameLocks
  <2>3. TypeOK' /\ GrabHolds' /\ FindKeepsToItsTab' /\ PasteFollowsStatus'
    BY <2>1, <2>2 DEF IInv, TypeOK, LockInv, GrabHolds, FindKeepsToItsTab, PasteFollowsStatus,
                      lockVars, pasteVars
  <2> QED BY <2>2, <2>3 DEF IInv, LockInv
<1> QED BY <1>1, <1>2, <1>3, <1>4, <1>5, <1>6, <1>7 DEF Next

\* The parts of the invariant hold of every state, and no step replaces the password
\* of a session that stays locked.
THEOREM TabCommandsInvariant == Spec => []IInv
<1>1. Init => IInv
  BY InitIInv
<1>2. IInv /\ [Next]_vars => IInv'
  BY NextKeeps
<1> QED BY <1>1, <1>2, PTL DEF Spec

\* A tab takes input exactly when it is not locked, with any number of lock dialogs
\* left over on the screen (ilock.c:69-107).
THEOREM LocksHold == Spec => []LockedTakesNoInput
<1>1. IInv => LockedTakesNoInput
  BY DEF IInv
<1> QED BY <1>1, TabCommandsInvariant, PTL

\* The find dialog searches the tab it was opened over (cfind.c:36-96).
THEOREM FindStaysOnItsTab == Spec => []FindKeepsToItsTab
<1>1. IInv => FindKeepsToItsTab
  BY DEF IInv
<1> QED BY <1>1, TabCommandsInvariant, PTL

\* The Paste button follows the status of the current tab (cnotebook.c, cterminal.c).
THEOREM PasteFollows == Spec => []PasteFollowsStatus
<1>1. IInv => PasteFollowsStatus
  BY DEF IInv
<1> QED BY <1>1, TabCommandsInvariant, PTL

\* The password a session was locked with is the one that unlocks it (ilock.c:69-107).
THEOREM PasswordsKept == Spec => LockPasswordKept
<1>1. IInv /\ [Next]_vars =>
        [\A t \in tabs \cap tabs' : locked[t] /\ locked'[t] => password'[t] = password[t]]_sessionVars
  BY NextKeeps DEF KeepsPasswords
<1> QED BY <1>1, TabCommandsInvariant, PTL DEF Spec, LockPasswordKept

\* The menu of the current tab keeps its commands off while the tab is locked: its
\* sensitivity was fixed when it was built, and the lock cannot change under it
\* (cpopup.c:41-122).
THEOREM PopupKeepsOff == Spec => PopupSparesLocked
<1>1. ASSUME IInv, [Next]_vars, popup # NoPopup, popup.tab = current
      PROVE  reached' \subseteq reached
  <2>1. ~Free /\ Grabbed /\ ~find.shown
    BY <1>1 DEF Free, Grabbed, IInv, GrabHolds
  <2>2. CASE TabStep
    BY <2>1, <2>2 DEF TabStep, SelectTab, Session, SessionChanges, SilentChange, LoginBit, SelectionChanged,
                      WindowCommand, OpenPopup, sessionVars
  <2>3. CASE PopupCommand
    BY <1>1, <2>3, PopupItemSpares DEF PopupCommand
  <2>4. CASE ClosePopup \/ FindStep
    BY <2>4, <2>1 DEF ClosePopup, FindStep, OpenEditMenu, OpenFind, TypePattern, ClickFind,
                      CloseFind, sessionVars
  <2>5. CASE \E reconnect \in BOOLEAN : AllTabs(reconnect)
    BY <2>1, <2>5 DEF AllTabs
  <2>6. CASE UNCHANGED vars
    BY <2>6 DEF vars, sessionVars, statusVars
  <2> QED BY <1>1, <2>1, <2>2, <2>3, <2>4, <2>5, <2>6 DEF Next
<1>2. IInv /\ [Next]_vars =>
        [popup # NoPopup /\ popup.tab = current => reached' \subseteq reached]_vars
  BY <1>1
<1> QED BY <1>2, TabCommandsInvariant, PTL DEF Spec, PopupSparesLocked

-----------------------------------------------------------------------------
(* The keyboard shortcuts.  While lcrt is up the file and the accelerator  *)
(* group go together: an action is always bound to the key a restart would *)
(* load for it (BoundAsStored), because the file changes only before and   *)
(* after.  For the keys to stay distinct, what the file loads has to be so *)
(* too, and in the middle of a save its two halves each by itself.         *)
(***************************************************************************)
\* The parts that hold for any file found at first.
FileInv ==
  /\ KeysTypeOK
  /\ ~created => file = NoRows /\ phase = "off"
  /\ phase = "off" => key = Default
  /\ phase = "creating" => key = Default /\ \A a \in Actions : file[a] \in {NoRow, Default[a]}
  /\ phase = "creating" => \A a \in Actions \ unwritten : file[a] = Default[a]
  /\ phase = "saving" => \A a \in Actions \ unwritten : file[a] = key[a]
  /\ CleanIsStored
  /\ BoundAsStored

\* What a file loads is a key for each action.
LEMMA LoadedType ==
  ASSUME NEW f \in Rows
  PROVE  Loaded(f) \in [Actions -> Keys]
  BY ShortcutsAssumption, Zenon DEF Loaded, Rows

\* A file with all rows loads as it is.
LEMMA LoadedComplete ==
  ASSUME NEW f \in [Actions -> Keys]
  PROVE  Loaded(f) = f
<1>1. \A a \in Actions : f[a] # NoRow
  BY ShortcutsAssumption
<1> QED BY <1>1, SMT DEF Loaded

LEMMA InitFileInv == KeysInit => FileInv
<1> SUFFICES ASSUME KeysInit PROVE FileInv
  OBVIOUS
<1>1. NoRows \in Rows
  BY DEF NoRows, Rows
<1>2. file \in Rows /\ behind \subseteq Actions
  BY <1>1 DEF KeysInit
<1>3. KeysTypeOK
  BY <1>1, <1>2, ShortcutsAssumption DEF KeysInit, KeysTypeOK, Phases
<1> QED BY <1>3 DEF KeysInit, FileInv, CleanIsStored, BoundAsStored

\* When lcrt comes up with the keys that the file loads, all three agree.
LEMMA UpFileInv ==
  ASSUME KeysTypeOK', created', phase' = "up", key' = Loaded(file'), bound' = Bindings(key', Actions)
  PROVE  FileInv'
<1>1. CleanIsStored'
  BY DEF CleanIsStored
<1>2. BoundAsStored'
  <2> SUFFICES ASSUME NEW a \in Actions
               PROVE  /\ <<Loaded(file')[a], a>> \in bound'
                      /\ \A k \in Keys : <<k, a>> \in bound' => k = Loaded(file')[a]
    BY DEF BoundAsStored, Loaded
  <2>1. bound' = {<<key'[b], b>> : b \in Actions}
    BY DEF Bindings
  <2> QED BY <2>1
<1> QED BY <1>1, <1>2 DEF FileInv

\* A start: the table is loaded, or is about to be made.
LEMMA StartFileInv ==
  ASSUME FileInv, NEW on \in BOOLEAN, Start(on)
  PROVE  FileInv'
<1> USE DEF FileInv
<1>1. CASE created
  <2>1. /\ phase' = "up" /\ key' = Loaded(file') /\ bound' = Bindings(key', Actions) /\ created'
        /\ file' = file /\ key' = Loaded(file)
    BY <1>1 DEF Start
  <2>2. key' \in [Actions -> Keys]
    BY <2>1, LoadedType DEF KeysTypeOK
  <2>3. bound' \subseteq Keys \X Actions
    BY <2>1, <2>2 DEF Bindings
  <2>4. KeysTypeOK'
    BY <1>1, <2>2, <2>3 DEF Start, KeysTypeOK, Phases
  <2> QED BY <2>1, <2>4, UpFileInv
<1>2. CASE ~created
  <2>1. file = NoRows /\ phase' = "creating" /\ unwritten' = Actions /\ created' /\ UNCHANGED <<key, file>>
    BY <1>2 DEF Start
  <2>2. KeysTypeOK'
    BY <1>2 DEF Start, KeysTypeOK, Phases
  <2>3. key = Default
    BY DEF Start
  <2> QED BY <2>1, <2>2, <2>3 DEF CleanIsStored, BoundAsStored, NoRows
<1> QED BY <1>1, <1>2

\* A row is written, with a key.
LEMMA WriteRowEffect ==
  ASSUME KeysTypeOK, NEW a \in Actions, NEW k \in Keys, WriteRow(a, k)
  PROVE  /\ file' \in Rows /\ unwritten' \subseteq Actions /\ unwritten' = unwritten \ {a}
         /\ file'[a] = k /\ \A b \in Actions \ {a} : file'[b] = file[b]
  BY DEF WriteRow, KeysTypeOK, Rows

\* A row of a new table.
LEMMA CreateRowFileInv ==
  ASSUME FileInv, NEW a \in Actions, CreateRow(a)
  PROVE  FileInv'
<1> USE DEF FileInv
<1>1. Default[a] \in Keys
  BY ShortcutsAssumption
<1>2. /\ phase = "creating" /\ WriteRow(a, Default[a]) /\ key' = key /\ created' = created
      /\ key = Default
  BY DEF CreateRow, memoryVars
<1>3. /\ file' \in Rows /\ unwritten' \subseteq Actions /\ unwritten' = unwritten \ {a}
      /\ file'[a] = Default[a] /\ \A b \in Actions \ {a} : file'[b] = file[b]
  BY <1>1, <1>2, WriteRowEffect
<1>4. \A b \in Actions : file'[b] \in {NoRow, Default[b]}
  BY <1>2, <1>3
<1>5. \A b \in Actions \ unwritten' : file'[b] = Default[b]
  BY <1>2, <1>3
<1>6. CASE unwritten' = {}
  <2>1. phase' = "up" /\ bound' = Bindings(key', Actions)
    BY <1>2, <1>6 DEF CreateRow
  <2>2. key' = Loaded(file')
    <3>1. \A b \in Actions : file'[b] = Default[b]
      BY <1>5, <1>6
    <3> QED BY <1>2, <3>1, ShortcutsAssumption DEF Loaded
  <2>3. bound' \subseteq Keys \X Actions
    BY <1>2, <2>1 DEF Bindings, KeysTypeOK
  <2>4. KeysTypeOK'
    BY <1>3, <2>1, <2>3 DEF CreateRow, KeysTypeOK, Phases, memoryVars
  <2> QED BY <1>2, <2>1, <2>2, <2>4, UpFileInv
<1>7. CASE unwritten' # {}
  <2>1. KeysTypeOK' /\ phase' = "creating"
    BY <1>2, <1>3, <1>7 DEF CreateRow, KeysTypeOK, memoryVars
  <2> QED BY <1>2, <1>4, <1>5, <2>1 DEF CleanIsStored, BoundAsStored
<1> QED BY <1>6, <1>7

\* An edit: only the table changes, and it is noted.
LEMMA EditFileInv ==
  ASSUME FileInv, NEW a \in Actions, NEW k \in Keys, Edit(a, k)
  PROVE  FileInv'
<1> USE DEF FileInv
<1>1. KeysTypeOK' /\ phase = "up" /\ phase' = "up"
  BY DEF Edit, KeysTypeOK, fileVars
<1>2. BoundAsStored'
  BY DEF Edit, BoundAsStored, fileVars, Loaded
<1> QED BY <1>1, <1>2 DEF Edit, fileVars, CleanIsStored

\* A popup: the new pairs are of actions of the Edit menu.
LEMMA EditPopupFileInv ==
  ASSUME FileInv, EditPopup
  PROVE  FileInv'
<1> USE DEF FileInv
<1> DEFINE new == {<<key[b], b>> : b \in EditActions}
<1>1. bound' = bound \cup new
  BY DEF EditPopup, Bindings
<1>2. new \subseteq Keys \X Actions
  BY DEF KeysTypeOK, Actions
<1>3. KeysTypeOK' /\ phase = "up" /\ phase' = "up"
  BY <1>1, <1>2 DEF EditPopup, KeysTypeOK, fileVars, memoryVars
<1>4. CleanIsStored'
  BY DEF EditPopup, CleanIsStored, fileVars, memoryVars, Loaded
<1>5. BoundAsStored'
  <2> SUFFICES ASSUME NEW a \in Actions
               PROVE  /\ <<Loaded(file)[a], a>> \in bound'
                      /\ \A k \in Keys : <<k, a>> \in bound' /\ a \notin EditActions
                                            => k = Loaded(file)[a]
    BY DEF BoundAsStored, Loaded, EditPopup, fileVars
  <2>1. /\ <<Loaded(file)[a], a>> \in bound
        /\ \A k \in Keys : <<k, a>> \in bound /\ a \notin EditActions => k = Loaded(file)[a]
    BY <1>3 DEF BoundAsStored
  <2>2. \A k \in Keys : <<k, a>> \in new => a \in EditActions
    OBVIOUS
  <2> HIDE DEF new
  <2> QED BY <1>1, <2>1, <2>2
<1> QED BY <1>3, <1>4, <1>5 DEF EditPopup, fileVars

\* An exit, which ends lcrt unless there is something to save.
LEMMA ExitFileInv ==
  ASSUME FileInv, Exit
  PROVE  FileInv'
<1> USE DEF FileInv
<1>1. NoRows \in Rows /\ [Actions -> Keys] \subseteq Rows
  BY DEF NoRows, Rows
<1>2. CASE autoSave /\ dirty
  <2>1. KeysTypeOK' /\ phase' = "saving" /\ unwritten' = Actions
    BY <1>2 DEF Exit, KeysTypeOK, Phases, memoryVars, fileVars
  <2> QED BY <1>2, <2>1 DEF Exit, fileVars, CleanIsStored, BoundAsStored
<1>3. CASE ~(autoSave /\ dirty)
  <2>1. KeysTypeOK'
    BY <1>1, <1>3, ShortcutsAssumption DEF KeysTypeOK, Exit, Gone, fileVars, Phases
  <2>2. phase' = "off" /\ key' = Default /\ UNCHANGED fileVars
    BY <1>3 DEF Exit, Gone
  <2> QED BY <2>1, <2>2 DEF CleanIsStored, BoundAsStored, fileVars
<1> QED BY <1>2, <1>3

\* A row of a save; after the last one lcrt ends.
LEMMA SaveRowFileInv ==
  ASSUME FileInv, NEW a \in Actions, SaveRow(a)
  PROVE  FileInv'
<1> USE DEF FileInv
<1>1. phase = "saving" /\ WriteRow(a, key[a]) /\ created' = created /\ behind' = behind /\ key[a] \in Keys
  BY DEF SaveRow, Saved, KeysTypeOK
<1>2. /\ file' \in Rows /\ unwritten' \subseteq Actions /\ unwritten' = unwritten \ {a}
      /\ file'[a] = key[a] /\ \A b \in Actions \ {a} : file'[b] = file[b]
  BY <1>1, WriteRowEffect
<1>3. CASE unwritten' = {}
  <2>1. [Actions -> Keys] \subseteq Rows
    BY DEF Rows
  <2>2. Gone /\ left' = key
    BY <1>3 DEF SaveRow
  <2>3. KeysTypeOK' /\ phase' = "off" /\ key' = Default
    BY <1>1, <1>2, <2>1, <2>2, ShortcutsAssumption DEF KeysTypeOK, Gone, Phases
  <2> QED BY <1>1, <2>3 DEF CleanIsStored, BoundAsStored
<1>4. CASE unwritten' # {}
  <2>1. UNCHANGED <<phase, memoryVars, bound, asked, left>>
    BY <1>4 DEF SaveRow
  <2>2. KeysTypeOK'
    BY <1>1, <1>2, <2>1 DEF KeysTypeOK, memoryVars
  <2> QED BY <1>1, <1>2, <2>1, <2>2 DEF memoryVars, CleanIsStored, BoundAsStored
<1> QED BY <1>3, <1>4

LEMMA CrashFileInv ==
  ASSUME FileInv, Crash
  PROVE  FileInv'
<1>1. NoRows \in Rows
  BY DEF NoRows, Rows
<1>2. KeysTypeOK'
  BY <1>1, ShortcutsAssumption DEF FileInv, KeysTypeOK, Crash, Gone, fileVars, Phases
<1>3. phase' = "off" /\ key' = Default /\ UNCHANGED fileVars
  BY DEF Crash, Gone
<1> QED BY <1>2, <1>3 DEF FileInv, CleanIsStored, BoundAsStored, fileVars

LEMMA NextFileInv == FileInv /\ [KeysNext]_keysVars => FileInv'
<1> SUFFICES ASSUME FileInv, [KeysNext]_keysVars PROVE FileInv'
  OBVIOUS
<1>1. ASSUME NEW on \in BOOLEAN, Start(on) PROVE FileInv'
  BY <1>1, StartFileInv
<1>2. ASSUME NEW a \in Actions, NEW k \in Keys, Edit(a, k) PROVE FileInv'
  BY <1>2, EditFileInv
<1>3. CASE EditPopup
  BY <1>3, EditPopupFileInv
<1>4. CASE ToggleAutoSave
  BY <1>4 DEF FileInv, ToggleAutoSave, KeysTypeOK, CleanIsStored, BoundAsStored, Loaded, fileVars
<1>5. CASE SaveNow
  BY <1>5 DEF FileInv, SaveNow, KeysTypeOK, CleanIsStored, BoundAsStored, Loaded, fileVars, memoryVars
<1>6. CASE Exit \/ Crash
  BY <1>6, ExitFileInv, CrashFileInv
<1>7. ASSUME NEW a \in Actions, CreateRow(a) \/ SaveRow(a) PROVE FileInv'
  BY <1>7, CreateRowFileInv, SaveRowFileInv
<1>8. CASE UNCHANGED keysVars
  BY <1>8 DEF FileInv, keysVars, KeysTypeOK, CleanIsStored, BoundAsStored, Loaded, fileVars, memoryVars
<1> QED BY <1>1, <1>2, <1>3, <1>4, <1>5, <1>6, <1>7, <1>8 DEF KeysNext

\* While lcrt runs without an unsaved edit, its table is what the file loads, and
\* every action is bound to the key the file loads for it, whatever the file
\* found at first (lcrt_accels_load_local_config, lcrt_destroy_accels).
THEOREM ShortcutsFollowTheFile == KeysSpec => [](KeysTypeOK /\ CleanIsStored /\ BoundAsStored)
<1>1. FileInv => KeysTypeOK /\ CleanIsStored /\ BoundAsStored
  BY DEF FileInv
<1> QED BY InitFileInv, NextFileInv, <1>1, PTL DEF KeysSpec

-----------------------------------------------------------------------------
\* Of two actions of the set with one key, one is behind.
Apart(k, acts) ==
  \A a, b \in acts : a # b /\ k[a] = k[b] => a \in behind \/ b \in behind

\* The table and what the file loads keep the keys apart; in the middle of a save
\* the file is made of two parts that do, each by itself.
KeptApart ==
  /\ Apart(key, Actions)
  /\ Apart(Loaded(file), IF phase = "saving" THEN unwritten ELSE Actions)

KeysInv == FileInv /\ KeptApart

LEMMA DefaultApart == Apart(Default, Actions)
  BY ShortcutsAssumption DEF Apart, DistinctKeys

LEMMA NextKeysInv == KeysInv /\ [KeysNext]_keysVars => KeysInv'
<1> SUFFICES ASSUME FileInv, KeptApart, [KeysNext]_keysVars PROVE KeptApart'
  BY NextFileInv DEF KeysInv
<1> USE DEF KeptApart
<1>1. ASSUME NEW on \in BOOLEAN, Start(on) PROVE KeptApart'
  <2>1. UNCHANGED <<file, behind>> /\ phase = "off" /\ phase' # "saving" /\ key' \in {key, Loaded(file)}
    BY <1>1 DEF Start
  <2> QED BY <2>1 DEF Apart, Loaded
<1>2. ASSUME NEW a \in Actions, NEW k \in Keys, Edit(a, k) PROVE KeptApart'
  <2>1. key \in [Actions -> Keys]
    BY DEF FileInv, KeysTypeOK
  <2>2. /\ key' = [key EXCEPT ![a] = k] /\ (\A b \in Actions \ {a} : key[b] # k)
        /\ UNCHANGED <<file, behind, phase>> /\ phase # "saving"
    BY <1>2 DEF Edit, fileVars
  <2>3. Apart(key, Actions)'
    BY <2>1, <2>2 DEF Apart
  <2>4. Apart(Loaded(file), Actions)'
    BY <2>2 DEF Apart, Loaded
  <2> QED BY <2>2, <2>3, <2>4
<1>3. CASE EditPopup \/ ToggleAutoSave \/ SaveNow
  <2>1. UNCHANGED <<file, key, behind, phase, unwritten>>
    BY <1>3 DEF EditPopup, ToggleAutoSave, SaveNow, fileVars, memoryVars
  <2> QED BY <2>1 DEF Apart, Loaded
<1>4. ASSUME NEW a \in Actions, CreateRow(a) PROVE KeptApart'
  <2>1. /\ phase = "creating" /\ phase' # "saving" /\ UNCHANGED <<key, behind>>
        /\ file' = [file EXCEPT ![a] = Default[a]] /\ file \in Rows
    BY <1>4 DEF CreateRow, WriteRow, memoryVars, FileInv, KeysTypeOK
  <2>2. \A b \in Actions : file'[b] \in {NoRow, Default[b]}
    BY <2>1 DEF FileInv, Rows
  <2>3. Loaded(file') = Default
    BY <2>2, ShortcutsAssumption DEF Loaded
  <2>4. Apart(Loaded(file), Actions)'
    BY <2>1, <2>3, ShortcutsAssumption DEF Apart, DistinctKeys, Loaded
  <2>5. Apart(key, Actions)'
    BY <2>1 DEF Apart
  <2> QED BY <2>1, <2>4, <2>5
<1>5. CASE Exit
  <2>1. /\ phase = "up" /\ UNCHANGED <<file, behind>> /\ key' \in {key, Default}
        /\ phase' = "saving" => unwritten' = Actions
    BY <1>5 DEF Exit, Gone, fileVars, memoryVars
  <2>2. Apart(key, Actions)'
    BY <2>1, DefaultApart DEF Apart
  <2>3. Apart(Loaded(file), Actions)'
    BY <2>1 DEF Apart, Loaded
  <2> QED BY <2>1, <2>2, <2>3
<1>6. ASSUME NEW a \in Actions, SaveRow(a) PROVE KeptApart'
  <2>1. /\ phase = "saving" /\ WriteRow(a, key[a]) /\ behind' = behind
        /\ key \in [Actions -> Keys] /\ file \in Rows /\ unwritten \subseteq Actions
        /\ \A b \in Actions \ unwritten : file[b] = key[b]
    BY <1>6 DEF SaveRow, Saved, FileInv, KeysTypeOK
  <2>2. file' = [file EXCEPT ![a] = key[a]] /\ unwritten' = unwritten \ {a} /\ a \in unwritten
    BY <2>1 DEF WriteRow
  <2>3. CASE unwritten' = {}
    <3>1. key' = Default /\ phase' = "off"
      BY <1>6, <2>3 DEF SaveRow, Gone
    <3>2. \A b \in Actions : file'[b] = key[b]
      BY <2>1, <2>2, <2>3 DEF Rows
    <3>3. Loaded(file') = key
      BY <2>1, <3>2, ShortcutsAssumption DEF Loaded
    <3>4. Apart(Loaded(file), Actions)'
      BY <2>1, <3>3 DEF Apart, Loaded
    <3>5. Apart(key, Actions)'
      BY <2>1, <3>1, DefaultApart DEF Apart
    <3> QED BY <3>1, <3>4, <3>5
  <2>4. CASE unwritten' # {}
    <3>1. key' = key /\ phase' = "saving"
      BY <1>6, <2>1, <2>4 DEF SaveRow, memoryVars
    <3>2. \A b \in unwritten' : file'[b] = file[b]
      BY <2>1, <2>2 DEF Rows
    <3>3. \A b \in unwritten' : Loaded(file')[b] = Loaded(file)[b]
      BY <2>1, <2>2, <3>2 DEF Loaded
    <3>4. Apart(Loaded(file), unwritten)
      BY <2>1
    <3>5. Apart(Loaded(file), unwritten)'
      <4> SUFFICES ASSUME NEW b \in unwritten', NEW c \in unwritten', b # c,
                          Loaded(file')[b] = Loaded(file')[c]
                   PROVE  b \in behind' \/ c \in behind'
        BY DEF Apart, Loaded
      <4>1. b \in unwritten /\ c \in unwritten
        BY <2>2
      <4>2. Loaded(file)[b] = Loaded(file)[c]
        BY <3>3
      <4> QED BY <2>1, <3>4, <4>1, <4>2 DEF Apart
    <3>6. Apart(key, Actions)'
      BY <2>1, <3>1 DEF Apart
    <3> QED BY <3>1, <3>5, <3>6
  <2> QED BY <2>3, <2>4
<1>7. CASE Crash
  <2>1. /\ key' = Default /\ phase' = "off" /\ file' = file /\ behind \subseteq behind'
        /\ phase = "saving" /\ unwritten # Actions => unwritten \subseteq behind'
    BY <1>7 DEF Crash, Gone, fileVars
  <2>2. Apart(key, Actions)'
    BY <2>1, DefaultApart DEF Apart
  <2>3. Apart(Loaded(file), Actions)'
    <3>1. CASE phase # "saving" \/ unwritten = Actions
      BY <2>1, <3>1 DEF Apart, Loaded
    <3>2. CASE phase = "saving" /\ unwritten # Actions
      <4>1. \A b \in Actions \ unwritten : Loaded(file)[b] = key[b]
        BY <3>2, ShortcutsAssumption DEF FileInv, KeysTypeOK, Loaded
      <4>2. Loaded(file') = Loaded(file)
        BY <2>1 DEF Loaded
      <4> QED BY <2>1, <3>2, <4>1, <4>2 DEF Apart
    <3> QED BY <3>1, <3>2
  <2> QED BY <2>1, <2>2, <2>3
<1>8. CASE UNCHANGED keysVars
  BY <1>8 DEF keysVars, fileVars, memoryVars, Apart, Loaded
<1> QED BY <1>1, <1>2, <1>3, <1>4, <1>5, <1>6, <1>7, <1>8 DEF KeysNext

\* Of two actions that ever have one key, one had no row in the file found at
\* first, or has been left behind by a save that was cut short.
THEOREM KeysStayDistinct == KeysSpec => []KeysDistinct
<1>1. KeysInit => KeysInv
  <2> SUFFICES ASSUME KeysInit PROVE KeysInv
    OBVIOUS
  <2>1. Apart(key, Actions) /\ phase = "off"
    BY DefaultApart DEF KeysInit
  <2>2. Apart(Loaded(file), Actions)
    <3>1. CASE file = NoRows
      <4>1. Loaded(file) = Default
        BY <3>1, ShortcutsAssumption DEF Loaded, NoRows
      <4> QED BY <4>1, DefaultApart
    <3>2. CASE file # NoRows
      <4>1. \A a \in Actions \ behind : Loaded(file)[a] = file[a]
        BY <3>2 DEF KeysInit, Loaded
      <4>2. \A a, b \in Actions \ behind : a # b => file[a] # file[b]
        BY <3>2 DEF KeysInit
      <4> QED BY <4>1, <4>2 DEF Apart
    <3> QED BY <3>1, <3>2
  <2> QED BY <2>1, <2>2, InitFileInv DEF KeysInv, KeptApart
<1>2. KeysInv => KeysDistinct
  BY DEF KeysInv, KeptApart, Apart, KeysDistinct
<1> QED BY <1>1, NextKeysInv, <1>2, PTL DEF KeysSpec

-----------------------------------------------------------------------------
\* Between an exit that saves and the next start the file loads as the keys of the
\* exit: they were saved, or were clean and so already those that it loads.
LeftInv == phase = "off" /\ left # NoRows => created /\ Loaded(file) = left

LEMMA NextLeftInv == FileInv /\ LeftInv /\ [KeysNext]_keysVars => LeftInv'
<1> SUFFICES ASSUME FileInv, LeftInv, [KeysNext]_keysVars PROVE LeftInv'
  OBVIOUS
<1>1. CASE Exit
  <2>1. CASE autoSave /\ dirty
    BY <1>1, <2>1 DEF Exit, LeftInv
  <2>2. CASE ~(autoSave /\ dirty)
    <3>1. UNCHANGED <<file, created>> /\ left' = (IF autoSave THEN key ELSE NoRows) /\ phase = "up"
      BY <1>1, <2>2 DEF Exit, fileVars
    <3>2. created /\ (autoSave => Loaded(file) = key)
      BY <2>2, <3>1 DEF FileInv, CleanIsStored
    <3> QED BY <3>1, <3>2 DEF LeftInv, Loaded, NoRows
  <2> QED BY <2>1, <2>2
<1>2. CASE Crash
  BY <1>2 DEF Crash, LeftInv, NoRows
<1>3. CASE phase' # "off"
  BY <1>3 DEF LeftInv
<1>4. CASE UNCHANGED keysVars
  BY <1>4 DEF LeftInv, keysVars, fileVars, Loaded, NoRows
<1>5. ASSUME NEW on \in BOOLEAN, Start(on) PROVE phase' # "off"
  BY <1>5 DEF Start
<1>6. ASSUME NEW a \in Actions, NEW k \in Keys, Edit(a, k) PROVE phase' # "off"
  BY <1>6 DEF Edit
<1>7. ASSUME EditPopup \/ ToggleAutoSave \/ SaveNow PROVE phase' # "off"
  BY <1>7 DEF EditPopup, ToggleAutoSave, SaveNow
<1>8. ASSUME NEW a \in Actions, CreateRow(a) PROVE phase' # "off"
  BY <1>8 DEF CreateRow
<1>9. ASSUME NEW a \in Actions, SaveRow(a) PROVE LeftInv'
  <2>1. /\ phase = "saving" /\ WriteRow(a, key[a]) /\ created' /\ unwritten \subseteq Actions
        /\ key \in [Actions -> Keys] /\ file \in Rows
        /\ \A b \in Actions \ unwritten : file[b] = key[b]
    BY <1>9 DEF SaveRow, Saved, FileInv, KeysTypeOK
  <2>2. CASE unwritten' # {}
    BY <1>9, <2>1, <2>2 DEF SaveRow, LeftInv
  <2>3. CASE unwritten' = {}
    <3>1. left' = key
      BY <1>9, <2>3 DEF SaveRow
    <3>2. \A b \in Actions : file'[b] = key[b]
      BY <2>1, <2>3 DEF WriteRow, Rows
    <3>3. Loaded(file') = key
      BY <2>1, <3>2, ShortcutsAssumption DEF Loaded
    <3> QED BY <2>1, <3>1, <3>3 DEF LeftInv, Loaded, NoRows
  <2> QED BY <2>2, <2>3
<1> QED BY <1>1, <1>2, <1>3, <1>4, <1>5, <1>6, <1>7, <1>8, <1>9 DEF KeysNext

LEMMA StartBringsBack ==
  ASSUME FileInv, LeftInv, [KeysNext]_keysVars, phase = "off", phase' # "off", left # NoRows
  PROVE  key' = left
<1>1. PICK on \in BOOLEAN : Start(on)
  BY DEF KeysNext, Edit, EditPopup, ToggleAutoSave, SaveNow, CreateRow, SaveRow, Exit, Crash, Gone,
         keysVars
<1> QED BY <1>1 DEF Start, LeftInv

\* The first start after an exit with auto save has the keys that exit had, even
\* where the file had no rows for them and the exit found nothing to save.
THEOREM KeysComeBack == KeysSpec => EditsComeBack
<1>1. KeysInit => FileInv /\ LeftInv
  BY InitFileInv DEF KeysInit, LeftInv
<1>2. (FileInv /\ LeftInv) /\ [KeysNext]_keysVars => (FileInv /\ LeftInv)'
  BY NextFileInv, NextLeftInv
<1>3. FileInv /\ LeftInv /\ [KeysNext]_keysVars
        => [phase = "off" /\ phase' # "off" /\ left # NoRows => key' = left]_keysVars
  BY StartBringsBack
<1> QED BY <1>1, <1>2, <1>3, PTL DEF KeysSpec, EditsComeBack
=============================================================================

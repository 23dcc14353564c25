---------------------------- MODULE TelnetSession ----------------------------
(***************************************************************************)
(* Terminals that run a telnet child (src/src/telnet.c).  Unlike ssh, the  *)
(* telnet protocol keeps its progress in the status word itself: the bits  *)
(* SEND_USERNAME and SEND_PASSWORD are or-ed into lterminal->connected,    *)
(* next to the values that the rest of lcrt compares it with.              *)
(*                                                                         *)
(* The telnet program is installed: lcrt_exec_check caches its answer, and *)
(* without the program a tab shows a message and nothing ever runs in it.  *)
(***************************************************************************)
EXTENDS TerminalCore

CONSTANTS RememberChoices,  \* states of the dialog's "remember" button tried
          MaxDialogs        \* bound on the dialogs up at once

ASSUME TelnetAssumption == RememberChoices \subseteq BOOLEAN /\ MaxDialogs \in Nat \ {0}

VARIABLES
  named,    \* strlen(user->username) # 0, per session record
  secret,   \* strlen(user->password) # 0, per session record
  private,  \* lterminal->private_data # NULL
  pid,      \* lterminal->child_pid # 0
  child,    \* phase of the process on the terminal's pty
  app       \* "up", or how lcrt died

recVars  == <<named, secret>>
procVars == <<private, pid, child>>
vars == <<coreVars, recVars, procVars, app>>

-----------------------------------------------------------------------------
(* The status word as a set of bits.                                       *)
(***************************************************************************)
HasBit(word, bit) == (word \div bit) % 2 = 1
SetBit(word, bit) == IF HasBit(word, bit) THEN word ELSE word + bit
BothSent == SEND_USERNAME + SEND_PASSWORD
TelnetStatus == 0 .. 63

-----------------------------------------------------------------------------
(* The environment: the telnet client and the host behind it.              *)
(***************************************************************************)
\* "talk": the host will print something next; "login", "passwd": it waits for
\* a line; "named", "auth": it has one and will answer; "shell": logged in;
\* "dead": exited, the exit not delivered yet; "none": no process, or reaped.
Phases == {"none", "talk", "login", "named", "passwd", "auth", "shell", "dead"}
Alive == Phases \ {"none", "dead"}

\* "login" stands for any text with "login:", a "Last login:" line included.
Texts == {"refused", "closed", "incorrect", "incorrect_login", "login", "passwd", "other"}

Output == {
  <<"talk", "refused", "dead">>,  <<"talk", "other", "talk">>,
  <<"talk", "login", "login">>,   <<"talk", "passwd", "passwd">>,
  <<"talk", "other", "shell">>,   <<"talk", "closed", "dead">>,
  <<"login", "closed", "dead">>,  <<"named", "passwd", "passwd">>,
  <<"named", "other", "shell">>,  <<"named", "closed", "dead">>,
  <<"passwd", "closed", "dead">>, <<"auth", "incorrect", "talk">>,
  <<"auth", "incorrect_login", "login">>, <<"auth", "login", "shell">>,
  <<"auth", "other", "shell">>,   <<"auth", "closed", "dead">>,
  <<"shell", "other", "shell">>,  <<"shell", "closed", "dead">> }

\* A line fed to the process.
Fed(phase) == CASE phase = "login" -> "named"
                [] phase = "passwd" -> "auth"
                [] OTHER -> phase

\* The default command, which a login that is seen feeds to the process.
Commands(t, phase) == IF IsCommanded(t) THEN Fed(phase) ELSE phase

-----------------------------------------------------------------------------
(* The protocol's callbacks.                                               *)
(***************************************************************************)
LoginFrame(t, at, text) == [kind |-> "login", term |-> t, at |-> at, text |-> text]
Frame(kind, t) == [kind |-> kind, term |-> t]

Frames ==
  [kind : {"login", "resume"}, term : Terminals, at : {"incorrect", "login", "passwd"},
   text : Texts]
    \cup [kind : {"notice", "confirm_close"}, term : Terminals]

\* lcrt_telnet_connect: fresh private data and a new child; the status stays.
Connect(t) ==
  /\ private' = [private EXCEPT ![t] = TRUE]
  /\ pid' = [pid EXCEPT ![t] = TRUE]
  /\ child' = [child EXCEPT ![t] = "talk"]

\* A bit is or-ed into the status word, past lcrt_terminal_set_status: neither
\* the label nor the toolbar follows.
Sent(t, bit) == status' = [status EXCEPT ![t] = SetBit(@, bit)]

\* The end of the "login:" and "Password:" blocks: the bit is set and the line
\* goes to the child.
SendLine(t, bit, phase, rest) ==
  /\ Sent(t, bit)
  /\ child' = [child EXCEPT ![t] = Fed(phase)]
  /\ stack' = rest
  /\ UNCHANGED <<toolbar, keyVars, saveVars>>

OpenLogin(t, at, text, phase, rest) ==
  /\ Len(rest) < MaxDialogs
  /\ stack' = <<LoginFrame(t, at, text)>> \o rest
  /\ child' = [child EXCEPT ![t] = phase]
  /\ UNCHANGED <<linkVars, keyVars, saveVars>>

AsksLogin(t, text) ==
  text \in {"login", "incorrect_login"} /\ ~HasBit(status[t], SEND_USERNAME)

\* The last test of lcrt_telnet_receive.
LoginDone(t) == status[t] = BothSent \/ ~named[user[t]]

\* lcrt_telnet_receive below its "Login incorrect" block.
AfterIncorrect(t, text, phase, rest) ==
  \/ /\ AsksLogin(t, text)
     /\ IF named[user[t]] THEN SendLine(t, SEND_USERNAME, phase, rest)
                          ELSE OpenLogin(t, "login", text, phase, rest)
  \/ /\ text = "passwd"
     /\ IF secret[user[t]] THEN SendLine(t, SEND_PASSWORD, phase, rest)
                           ELSE OpenLogin(t, "passwd", text, phase, rest)
  \/ /\ ~AsksLogin(t, text) /\ text # "passwd"
     /\ stack' = rest
     /\ \/ /\ LoginDone(t)
           /\ SetConnectedStatus(t)
           /\ child' = [child EXCEPT ![t] = Commands(t, phase)]
        \/ /\ ~LoginDone(t)
           /\ child' = [child EXCEPT ![t] = phase]
           /\ UNCHANGED <<linkVars, keyVars, saveVars>>

\* lcrt_telnet_receive on a screen that shows text.
ReceiveText(t, text, phase) ==
  \/ /\ text = "refused"
     /\ Len(stack) < MaxDialogs
     /\ child' = [child EXCEPT ![t] = phase]
     /\ Push(Frame("notice", t))
     /\ UNCHANGED <<linkVars, keyVars, saveVars>>
  \/ /\ text = "closed"
     /\ child' = [child EXCEPT ![t] = phase]
     /\ UNCHANGED <<linkVars, keyVars, saveVars, stack>>
  \/ /\ text \in {"incorrect", "incorrect_login"}
     /\ OpenLogin(t, "incorrect", text, phase, stack)
  \/ /\ text \notin {"refused", "closed", "incorrect", "incorrect_login"}
     /\ AfterIncorrect(t, text, phase, stack)

\* lcrt_telnet_disconnect of a connected terminal.
Disconnect(t) ==
  /\ SetStatus(t, DISCONNECT)
  /\ child' = [child EXCEPT ![t] = Fed(@)]
  /\ private' = [private EXCEPT ![t] = FALSE]

-----------------------------------------------------------------------------
(* What the user does.                                                     *)
(***************************************************************************)
Unmoved == UNCHANGED <<tabVars, linkVars, keyVars, saveVars, procVars>>

\* lcrt_create_terminal: from a dialog, or by a clone of a connected tab.
NewTerminal(t, u) ==
  /\ Idle
  /\ NewPage(t, u)
  /\ Connect(t)
  /\ SwitchPage(t, DISCONNECT)
  /\ UNCHANGED <<stack, recVars, app>>

Clone(t) == current # NoTerminal /\ status[current] = CONNECTED /\ NewTerminal(t, user[current])

\* Return in the focused terminal, with the handler connected.
PressReturn ==
  /\ Idle /\ current # NoTerminal
  /\ keyHandlers[current] > 0
  /\ Connect(current)
  /\ UNCHANGED <<tabVars, linkVars, keyVars, saveVars, stack, recVars, app>>

\* The user types a line into the focused terminal.
TypeLine ==
  /\ Idle /\ current # NoTerminal
  /\ keyHandlers[current] = 0
  /\ child[current] \in {"login", "passwd"}
  /\ child' = [child EXCEPT ![current] = Fed(@)]
  /\ UNCHANGED <<coreVars, recVars, private, pid, app>>

\* lcrt_file_on_reconnect_activate.
Reconnect ==
  /\ Idle /\ current # NoTerminal
  /\ status[current] \in {DISCONNECT, CHILD_EXIT}
  /\ Connect(current)
  /\ UNCHANGED <<tabVars, linkVars, keyVars, saveVars, stack, recVars, app>>

\* lcrt_file_on_reconnect_all_activate; connecting opens no dialog here, so the
\* loop runs through.
ReconnectAll ==
  /\ Idle /\ tabs # {}
  /\ status' = [t \in Terminals |-> IF t \in tabs THEN DISCONNECT ELSE status[t]]
  /\ toolbar' = ButtonsFor(DISCONNECT)
  /\ private' = [t \in Terminals |-> private[t] \/ t \in tabs]
  /\ pid' = [t \in Terminals |-> pid[t] \/ t \in tabs]
  /\ child' = [t \in Terminals |-> IF t \in tabs THEN "talk" ELSE child[t]]
  /\ UNCHANGED <<tabVars, keyVars, saveVars, stack, recVars, app>>

\* lcrt_file_on_disconnect_activate.
DisconnectCurrent ==
  /\ Idle /\ current # NoTerminal
  /\ status[current] = CONNECTED
  /\ Disconnect(current)
  /\ UNCHANGED <<tabVars, keyVars, saveVars, stack, recVars, pid, app>>

\* lcrt_file_on_disconnect_all_activate.
DisconnectAll ==
  LET live == {t \in tabs : status[t] = CONNECTED} IN
  /\ Idle /\ live # {}
  /\ status' = [t \in Terminals |-> IF t \in live THEN DISCONNECT ELSE status[t]]
  /\ toolbar' = IF current \in live THEN ButtonsFor(DISCONNECT) ELSE toolbar
  /\ child' = [t \in Terminals |-> IF t \in live THEN Fed(child[t]) ELSE child[t]]
  /\ private' = [t \in Terminals |-> private[t] /\ t \notin live]
  /\ UNCHANGED <<tabVars, keyVars, saveVars, stack, recVars, pid, app>>

\* lcrt_destroy_terminal: disconnect, drop the page, kill the child.
Destroy(t) ==
  /\ DestroyPage(t)
  /\ private' = [private EXCEPT ![t] = FALSE]
  /\ pid' = [pid EXCEPT ![t] = FALSE]
  /\ child' = [child EXCEPT ![t] = "none"]

\* lcrt_terminal_on_button_close_clicked: a connected session is confirmed.
Close(t) ==
  /\ Idle /\ t \in tabs
  /\ \/ status[t] # CONNECTED /\ Destroy(t) /\ UNCHANGED stack
     \/ status[t] = CONNECTED /\ Push(Frame("confirm_close", t)) /\ Unmoved
  /\ UNCHANGED <<recVars, app>>

AnswerClose(ok) ==
  /\ Top("confirm_close")
  /\ Pop
  /\ IF ok THEN Destroy(Head(stack).term) ELSE Unmoved
  /\ UNCHANGED <<recVars, app>>

\* "Connection refused" is acknowledged; resetting the screen is all that follows.
CloseNotice ==
  /\ Top("notice")
  /\ Pop
  /\ Unmoved
  /\ UNCHANGED <<recVars, app>>

\* The login dialog is answered: OK stores what was typed in the record (with
\* or without a name, with or without a password), both buttons note the
\* "remember" choice; telnet has no "changed" callback.
AnswerLogin(ok, hasName, hasSecret, keep) ==
  /\ Top("login")
  /\ LET t == Head(stack).term IN
     /\ remember' = [remember EXCEPT ![t] = keep]
     /\ IF ok THEN /\ named' = [named EXCEPT ![user[t]] = hasName]
                   /\ secret' = [secret EXCEPT ![user[t]] = hasSecret]
              ELSE UNCHANGED recVars
  /\ stack' = <<[Head(stack) EXCEPT !.kind = "resume"]>> \o Tail(stack)
  /\ UNCHANGED <<tabVars, linkVars, keyVars, stored, procVars, app>>

\* lcrt_telnet_receive after lcrt_create_login returned: the dialog is noted in
\* the private data the handler found on entry, and the handler goes on.
ResumeReceive ==
  /\ Top("resume")
  /\ LET f == Head(stack) IN
     \/ /\ ~private[f.term]
        /\ app' = "segv"
        /\ UNCHANGED <<linkVars, keyVars, saveVars, stack, child>>
     \/ /\ private[f.term]
        /\ CASE f.at = "incorrect" -> AfterIncorrect(f.term, f.text, child[f.term], Tail(stack))
             [] f.at = "login" -> SendLine(f.term, SEND_USERNAME, child[f.term], Tail(stack))
             [] f.at = "passwd" -> SendLine(f.term, SEND_PASSWORD, child[f.term], Tail(stack))
        /\ UNCHANGED app
  /\ UNCHANGED <<tabVars, recVars, private, pid>>

-----------------------------------------------------------------------------
(* What happens to the child.                                              *)
(***************************************************************************)
\* The child prints and VTE emits contents-changed.
Receive(t) ==
  /\ Polling /\ t \in tabs
  /\ \E o \in Output :
       /\ o[1] = child[t]
       /\ \/ /\ status[t] = CONNECTED
             /\ child' = [child EXCEPT ![t] = o[3]]
             /\ UNCHANGED <<linkVars, keyVars, saveVars, stack>>
          \/ /\ status[t] # CONNECTED
             /\ ReceiveText(t, o[2], o[3])
  /\ UNCHANGED <<tabVars, recVars, private, pid, app>>

\* The child dies without a word.
Die(t) ==
  /\ Polling /\ t \in tabs
  /\ child[t] \in Alive
  /\ child' = [child EXCEPT ![t] = "dead"]
  /\ UNCHANGED <<coreVars, recVars, private, pid, app>>

\* Mutant: the test for CONNECTED looks at the bit only.
ChildExited_BitTest(t) ==
  /\ Polling /\ t \in tabs
  /\ child[t] = "dead"
  /\ child' = [child EXCEPT ![t] = "none"]
  /\ IF HasBit(status[t], CONNECTED)
     THEN pid' = [pid EXCEPT ![t] = FALSE] /\ ArmReturnKey(t)
     ELSE UNCHANGED <<pid, linkVars, keyVars>>
  /\ UNCHANGED <<tabVars, saveVars, stack, recVars, private, app>>

\* VTE reaps the child and emits child-exited, which
\* lcrt_terminal_on_child_exited ignores unless the status is CONNECTED.
ChildExited(t) ==
  /\ Polling /\ t \in tabs
  /\ child[t] = "dead"
  /\ child' = [child EXCEPT ![t] = "none"]
  /\ IF status[t] = CONNECTED
     THEN pid' = [pid EXCEPT ![t] = FALSE] /\ ArmReturnKey(t)
     ELSE UNCHANGED <<pid, linkVars, keyVars>>
  /\ UNCHANGED <<tabVars, saveVars, stack, recVars, private, app>>

-----------------------------------------------------------------------------
Init ==
  /\ CoreInit
  /\ named \in [Users -> BOOLEAN]
  /\ secret \in [Users -> BOOLEAN]
  /\ private = [t \in Terminals |-> FALSE]
  /\ pid = [t \in Terminals |-> FALSE]
  /\ child = [t \in Terminals |-> "none"]
  /\ app = "up"

UserStep ==
  \/ \E t \in Terminals, u \in Users : NewTerminal(t, u)
  \/ \E t \in Terminals : Clone(t) \/ Close(t)
  \/ \E t \in Terminals : SelectTab(t) /\ UNCHANGED <<recVars, procVars, app>>
  \/ PressReturn \/ TypeLine \/ Reconnect \/ ReconnectAll \/ DisconnectCurrent \/ DisconnectAll

DialogStep ==
  \/ \E ok \in BOOLEAN : AnswerClose(ok)
  \/ CloseNotice
  \/ \E ok, hasName, hasSecret \in BOOLEAN, keep \in RememberChoices :
       AnswerLogin(ok, hasName, hasSecret, keep)

ChildStep == \E t \in Terminals : Receive(t) \/ Die(t) \/ ChildExited(t)

\* lcrt is gone.
Down == app # "up" /\ UNCHANGED vars

Next ==
  \/ app = "up" /\ (UserStep \/ DialogStep \/ ResumeReceive \/ ChildStep)
  \/ Down

Spec == Init /\ [][Next]_vars

-----------------------------------------------------------------------------
(* Properties.                                                             *)
(***************************************************************************)
\* Every variable has its type.
TypeOK ==
  /\ TabType /\ LinkType(TelnetStatus) /\ KeyType /\ SaveType
  /\ named \in [Users -> BOOLEAN] /\ secret \in [Users -> BOOLEAN]
  /\ private \in [Terminals -> BOOLEAN] /\ pid \in [Terminals -> BOOLEAN]
  /\ child \in [Terminals -> Phases]
  /\ stack \in Seq(Frames)
  /\ app \in {"up", "segv"}

\* Disconnect is offered only for a tab whose login was seen, and always for a
\* tab that is plainly connected - though the bits that lcrt_telnet_receive
\* or-s in pass the toolbar by.
ToolbarBounds ==
  IF current = NoTerminal THEN toolbar = NoButtons
  ELSE /\ toolbar.disconnect => HasBit(status[current], CONNECTED)
       /\ status[current] = CONNECTED => toolbar.disconnect
       /\ toolbar.reconnect = ~toolbar.disconnect

\* The state that all tabs share keeps its shape: types, a Return handler at most
\* once, a current terminal that is open and its buttons, and no handler suspended
\* on a freed terminal.
TabInv == TypeOK /\ OneReturnHandler /\ ToolbarBounds /\ CurrentIsOpen /\ SuspendedOnOpenTabs

\* The password leaves lcrt only for a prompt that asked for it: while its
\* dialog is up the process neither leaves the prompt nor takes a line.
PasswordToItsPrompt ==
  \A i \in 1..Len(stack) :
    stack[i].kind \in {"login", "resume"} /\ stack[i].at = "passwd" =>
      child[stack[i].term] \in {"passwd", "dead", "none"}

\* The exit of the process, and nothing else, ends a session and offers Return; the
\* user's Disconnect and Reconnect All drop it, and so does a handler that or-s a
\* login bit into the status of a connected tab.
IsTabSession ==
  /\ SessionsOfTabs!TabSessionSpec
  /\ [][\A t \in Terminals :
          OffersReturn(t) <=> status[t] = CONNECTED /\ ChildExited(t)]_vars

\* The inductive invariant behind them.  Only the login bits pass the toolbar by,
\* so it shows one of two pictures; a close is confirmed below every other dialog;
\* nothing of its terminal is above a password dialog, because the process at its
\* prompt prints nothing that opens one.
ToolbarForm ==
  IF current = NoTerminal THEN toolbar = NoButtons
  ELSE \/ toolbar = ButtonsFor(CONNECTED) /\ HasBit(status[current], CONNECTED)
       \/ toolbar = ButtonsFor(DISCONNECT) /\ status[current] # CONNECTED

IsLogin(f) == f.kind \in {"login", "resume"}
AsksPassword(f, t) == IsLogin(f) /\ f.term = t /\ f.at = "passwd"
AsksIn(s, t) == \E i \in 1..Len(s) : AsksPassword(s[i], t)
AtPrompt == {"passwd", "dead", "none"}

StackFits(s, open, ch) ==
  /\ s \in Seq(Frames)
  /\ \A i \in 1..Len(s) :
       /\ s[i].term \in open
       /\ s[i].kind = "confirm_close" => i = Len(s)
       /\ IsLogin(s[i]) /\ s[i].at = "incorrect" => s[i].text \in {"incorrect", "incorrect_login"}
       /\ IsLogin(s[i]) => \A j \in 1..Len(s) : i < j => ~AsksPassword(s[j], s[i].term)
  /\ \A t \in Terminals : AsksIn(s, t) => ch[t] \in AtPrompt

IInv ==
  /\ TypeOK
  /\ OneReturnHandler /\ HasCurrent /\ ClosedTabsAreQuiet
  /\ ToolbarForm
  /\ current # NoTerminal => currentUser = user[current]
  /\ StackFits(stack, tabs, child)

-----------------------------------------------------------------------------
(* What the comments and the manual say and the code does not keep.        *)
(***************************************************************************)
\* Enter connects again "when current session had been disconnected", not in a
\* shell that is running.
ReturnNotArmedInShell ==
  \A t \in tabs : keyHandlers[t] # 0 => child[t] # "shell"

\* "Login success": the default command that follows is not taken for a login name
\* or a password.
CommandsGoToShell ==
  [][\A t \in tabs : status[t] # CONNECTED /\ status'[t] = CONNECTED /\ IsCommanded(t)
       => child'[t] \notin {"named", "auth"}]_vars

\* "connected with remote": a tab that turns connected has a process.
ConnectedWithRemote ==
  \A t \in tabs : status[t] = CONNECTED => child[t] # "none"

\* The receive callback handles what a terminal receives, also after the
\* disconnect callback has freed its private data.
ReceiveHandlesData == app # "segv"

\* A session that is gone can be connected again, with Enter or from the menu.
GoneCanReconnect ==
  \A t \in tabs :
    child[t] = "none" /\ Idle =>
      keyHandlers[t] # 0 \/ status[t] \in {DISCONNECT, CHILD_EXIT}
=============================================================================

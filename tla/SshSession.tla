----------------------------- MODULE SshSession -----------------------------
(***************************************************************************)
(* Terminals that run an ssh child (src/src/ssh.c), driven by what the     *)
(* child prints, by its exit, and by the user.  lcrt logs in by reading    *)
(* the screen: it recognises the prompts of ssh, answers them from the     *)
(* session record, and asks the user through a modal dialog for what is    *)
(* missing.  Several tabs may share one session record.                    *)
(***************************************************************************)
EXTENDS TerminalCore

CONSTANTS Names,            \* login names
          NoName,           \* the empty login name
          RememberChoices,  \* states of the dialog's "remember" button tried
          SecretChoices,    \* whether a password is stored, the cases tried
          FoundChoices,     \* outcomes of lcrt_exec_check tried
          AsksHostKey,      \* the ssh client does not know the server's key
          MaxDialogs        \* bound on the dialogs up at once

ASSUME SshAssumption ==
  /\ NoName \notin Names
  /\ RememberChoices \subseteq BOOLEAN /\ FoundChoices \subseteq BOOLEAN
  /\ SecretChoices \subseteq BOOLEAN
  /\ AsksHostKey \in BOOLEAN /\ MaxDialogs \in Nat \ {0}

VARIABLES
  username,         \* user->username, per session record
  password,         \* strlen(user->password) # 0, per session record
  private,          \* lterminal->private_data # NULL
  again,            \* tssh->again, denials counted on this connection
  changed,          \* tssh->username_changed
  pid,              \* lterminal->child_pid # 0
  child,            \* phase of the process on the terminal's pty
  loginName,        \* the login name that process was started with
  app               \* "up", or how lcrt died

recVars  == <<username, password>>
sshVars  == <<private, again, changed>>
procVars == <<pid, child, loginName>>
vars == <<coreVars, recVars, sshVars, procVars, app>>

LoginName == Names \cup {NoName}

-----------------------------------------------------------------------------
(* The environment: OpenSSH's client on the pty.                           *)
(***************************************************************************)
\* "talk": it will print something next; "passwd", "yesno": it waits for an
\* answer; "auth": the server checks a password; "again": a denial is printed and
\* the next prompt is not; "shell": logged in; "dead": exited, the exit not
\* delivered yet; "none": no process, or reaped.
Phases == {"none", "talk", "passwd", "yesno", "auth", "again", "shell", "dead"}
Alive == Phases \ {"none", "dead"}

\* What the screen shows when contents-changed is delivered: a denial and the prompt
\* that follows it come on one screen or on two.
Texts == {"timed_out", "refused", "denied", "denied_prompt", "prompt",
          "yesno", "other"}

\* Output a process prints in a phase, and the phase it is in afterwards.
Output ==
  (IF AsksHostKey THEN {<<"talk", "yesno", "yesno">>, <<"yesno", "other", "dead">>} ELSE {}) \cup {
  <<"talk", "timed_out", "dead">>, <<"talk", "refused", "dead">>,
  <<"talk", "prompt", "passwd">>,
  <<"talk", "denied", "dead">>,    <<"talk", "other", "talk">>,
  <<"talk", "other", "shell">>,    <<"talk", "other", "dead">>,
  <<"auth", "denied_prompt", "passwd">>, <<"auth", "denied", "dead">>,
  <<"auth", "denied", "again">>,   <<"again", "prompt", "passwd">>,
  <<"again", "other", "dead">>,
  <<"auth", "other", "shell">>,    <<"auth", "other", "dead">>,
  <<"passwd", "other", "dead">>,
  <<"shell", "other", "shell">>,   <<"shell", "denied", "shell">>,
  <<"shell", "other", "dead">> }

\* A line fed to the process: a password prompt takes it as the password.
Fed(phase) == IF phase = "passwd" THEN "auth" ELSE phase

\* The default command, which a login that is seen feeds to the process.
Commands(t, phase) == IF IsCommanded(t) THEN Fed(phase) ELSE phase

\* SIGKILL.
Killed(phase) == IF phase = "none" THEN "none" ELSE "dead"

\* "user@host's password:" is on the screen, for the record's present user
\* name; an empty name matches the tail of any prompt.
PromptMatches(t, text) ==
  /\ text \in {"prompt", "denied_prompt"}
  /\ username[user[t]] \in {NoName, loginName[t]}

-----------------------------------------------------------------------------
(* The protocol's callbacks.                                               *)
(***************************************************************************)
\* A login dialog remembers where in lcrt_ssh_receive it was opened, the screen that
\* handler had read, and its tssh: "own" is whether that is still the terminal's
\* private data.  A connect makes new ones, and the handler goes on with the old.
LoginFrame(t, at, text, own) ==
  [kind |-> "login", term |-> t, at |-> at, text |-> text, own |-> own]
FailedFrame(t) == [kind |-> "failed", term |-> t, own |-> TRUE]
Frame(kind, t) == [kind |-> kind, term |-> t]

LoginKinds == {"login", "resume"}
AskingKinds == LoginKinds \cup {"failed"}

Frames ==
  [kind : LoginKinds, term : Terminals, at : {"denied", "prompt"}, text : Texts, own : BOOLEAN]
    \cup [kind : {"failed"}, term : Terminals, own : BOOLEAN]
    \cup [kind : {"notice", "new_page", "confirm_close"}, term : Terminals]
    \cup [kind : {"reconnect_all"}, todo : SUBSET Terminals]

\* A handler of the terminal that has read tssh.
Asks(f, t) == f.kind \in AskingKinds /\ f.term = t

\* The handlers of the terminal are left with the private data of before.
Disown(t, rest) ==
  [i \in DOMAIN rest |-> IF Asks(rest[i], t) THEN [rest[i] EXCEPT !.own = FALSE] ELSE rest[i]]

\* lcrt_ssh_connect: fresh private data, then a new child on the terminal's
\* pty - or an information dialog, when lcrt_exec_check, given a protocol that
\* was never assigned, does not find the program.  oldPid and oldChild are what
\* the caller leaves of the previous connection.
Connect(t, u, found, oldPid, oldChild) ==
  /\ private' = [private EXCEPT ![t] = TRUE]
  /\ again' = [again EXCEPT ![t] = 0]
  /\ changed' = [changed EXCEPT ![t] = FALSE]
  /\ pid' = [pid EXCEPT ![t] = found \/ oldPid]
  /\ child' = [child EXCEPT ![t] = IF found THEN "talk" ELSE oldChild]
  /\ loginName' = IF found THEN [loginName EXCEPT ![t] = username[u]] ELSE loginName

\* The stack after a handler that connected as its last act.
AfterConnect(t, found, rest) ==
  stack' = IF found THEN rest ELSE <<Frame("notice", t)>> \o rest

\* Mutant: the dialog's "changed" signal is not connected.
NoteTyping_Ignored(t, typed) == UNCHANGED changed

\* lcrt_login_on_entry_username_changed, through lcrt_ssh_username_changed.
NoteTyping(t, typed) == changed' = [changed EXCEPT ![t] = @ \/ typed]

\* lcrt_create_login up to gtk_dialog_run: putting the record's name in the
\* entry already emits "changed".
OpenLogin(t, at, text, own, rest) ==
  /\ Len(rest) < MaxDialogs
  /\ stack' = <<LoginFrame(t, at, text, own)>> \o rest
  /\ NoteTyping(t, username[user[t]] # NoName)

\* The stored password goes to the child.
SubmitPassword(t, phase, rest) ==
  /\ child' = [child EXCEPT ![t] = Fed(phase)]
  /\ SetStatus(t, CONNECTING)
  /\ stack' = rest
  /\ UNCHANGED <<keyVars, saveVars, sshVars, pid, loginName, app>>

\* "when username is changed, we should kill the previous connection and fork
\* connect again": kill(0) signals lcrt's own process group.  Handlers of the
\* terminal further out keep the private data of the connection that was killed,
\* whose username_changed is cleared.
Restart(t, rest) ==
  /\ UNCHANGED <<linkVars, keyVars, saveVars>>
  /\ \/ /\ ~pid[t]
        /\ app' = "group_killed"
        /\ stack' = rest
        /\ UNCHANGED <<sshVars, procVars>>
     \/ /\ pid[t]
        /\ \E found \in FoundChoices :
             /\ Connect(t, user[t], found, FALSE, Killed(child[t]))
             /\ AfterConnect(t, found, Disown(t, rest))
        /\ UNCHANGED app

\* lcrt_ssh_receive below its "Permission denied" block; phase is the child's, and
\* own whether the handler's tssh is the terminal's.
AfterDenied(t, text, phase, own, rest) ==
  \/ /\ PromptMatches(t, text)
     /\ username[user[t]] = NoName \/ ~password[user[t]]
     /\ OpenLogin(t, "prompt", text, own, rest)
     /\ child' = [child EXCEPT ![t] = phase]
     /\ UNCHANGED <<linkVars, keyVars, saveVars, private, again, pid, loginName, app>>
  \/ /\ PromptMatches(t, text)
     /\ username[user[t]] # NoName /\ password[user[t]]
     /\ IF own /\ changed[t] THEN Restart(t, rest) ELSE SubmitPassword(t, phase, rest)
  \/ /\ text = "yesno"
     /\ child' = [child EXCEPT ![t] = "talk"]
     /\ status' = [status EXCEPT ![t] = WAIT_RETURN]
     /\ stack' = rest
     /\ UNCHANGED <<toolbar, keyVars, saveVars, sshVars, pid, loginName, app>>
  \/ /\ ~PromptMatches(t, text) /\ text # "yesno"
     /\ IF status[t] = WAIT_RETURN
        THEN /\ status' = [status EXCEPT ![t] = DISCONNECT]
             /\ child' = [child EXCEPT ![t] = phase]
             /\ UNCHANGED <<toolbar, keyVars, saveVars>>
        ELSE /\ SetConnectedStatus(t)
             /\ child' = [child EXCEPT ![t] = Commands(t, phase)]
     /\ stack' = rest
     /\ UNCHANGED <<sshVars, pid, loginName, app>>

\* The "Permission denied" block: the third denial on a connection gives up,
\* an earlier one asks for the login again.
Denied(t, text, phase) ==
  /\ again' = [again EXCEPT ![t] = @ + 1]
  /\ child' = [child EXCEPT ![t] = phase]
  /\ IF again[t] + 1 >= 3
     THEN /\ Len(stack) < MaxDialogs
          /\ SetStatus(t, DISCONNECT)
          /\ Push(FailedFrame(t))
          /\ UNCHANGED changed
     ELSE /\ OpenLogin(t, "denied", text, TRUE, stack)
          /\ UNCHANGED linkVars
  /\ UNCHANGED <<keyVars, saveVars, private, pid, loginName, app>>

\* lcrt_ssh_receive on a screen that shows text.
ReceiveText(t, text, phase) ==
  \/ /\ text \in {"timed_out", "refused"}
     /\ Len(stack) < MaxDialogs
     /\ child' = [child EXCEPT ![t] = phase]
     /\ Push(Frame("notice", t))
     /\ UNCHANGED <<linkVars, keyVars, saveVars, sshVars, pid, loginName, app>>
  \/ /\ text \in {"denied", "denied_prompt"}
     /\ Denied(t, text, phase)
  \/ /\ text \notin {"timed_out", "refused", "denied", "denied_prompt"}
     /\ AfterDenied(t, text, phase, TRUE, stack)

\* lcrt_ssh_receive reads tssh on a denial and on its own prompt; after
\* lcrt_ssh_disconnect private_data is NULL.
ReadsPrivate(t, text) == text \in {"denied", "denied_prompt"} \/ PromptMatches(t, text)

\* lcrt_ssh_disconnect of a connected terminal: "exit" is fed to the child,
\* which is neither killed nor waited for; the private data is freed.
Disconnect(t) ==
  /\ SetStatus(t, DISCONNECT)
  /\ child' = [child EXCEPT ![t] = Fed(@)]
  /\ private' = [private EXCEPT ![t] = FALSE]
  /\ again' = [again EXCEPT ![t] = 0]
  /\ changed' = [changed EXCEPT ![t] = FALSE]

-----------------------------------------------------------------------------
(* What the user does.                                                     *)
(***************************************************************************)
UserVars == <<recVars, app>>

\* lcrt_create_terminal for the session u chosen in the connect dialog, the
\* quick connect dialog or by a clone.
NewTerminal(t, u) ==
  /\ NewPage(t, u)
  /\ \E found \in FoundChoices :
       /\ Connect(t, u, found, FALSE, "none")
       /\ IF found
          THEN SwitchPage(t, DISCONNECT) /\ UNCHANGED stack
          ELSE /\ Push(Frame("new_page", t))
               /\ IF tabs = {} THEN SwitchPage(t, DISCONNECT)
                  ELSE current' = current /\ currentUser' = u /\ UNCHANGED toolbar
  /\ UNCHANGED UserVars

OpenSession(t, u) == Idle /\ NewTerminal(t, u)

\* lcrt_file_on_clone_session_activate, lcrt_notebook_clone_terminal.
Clone(t) ==
  /\ Idle /\ current # NoTerminal
  /\ status[current] = CONNECTED
  /\ NewTerminal(t, user[current])

\* Mutant: the terminal takes the key while its login dialog is up.
PressReturn_DialogNotModal ==
  /\ Polling /\ current # NoTerminal
  /\ keyHandlers[current] > 0
  /\ \E found \in FoundChoices :
       /\ Connect(current, user[current], found, pid[current], child[current])
       /\ AfterConnect(current, found, stack)
  /\ UNCHANGED <<tabVars, linkVars, keyVars, saveVars, UserVars>>

\* Return in the focused terminal: every connected handler connects.
PressReturn ==
  /\ Idle /\ current # NoTerminal
  /\ keyHandlers[current] > 0
  /\ \E found \in FoundChoices :
       /\ Connect(current, user[current], found, pid[current], child[current])
       /\ AfterConnect(current, found, stack)
  /\ UNCHANGED <<tabVars, linkVars, keyVars, saveVars, UserVars>>

\* lcrt_file_on_reconnect_activate.
Reconnect ==
  /\ Idle /\ current # NoTerminal
  /\ status[current] \in {DISCONNECT, CHILD_EXIT}
  /\ \E found \in FoundChoices :
       /\ Connect(current, user[current], found, pid[current], child[current])
       /\ AfterConnect(current, found, stack)
  /\ UNCHANGED <<tabVars, linkVars, keyVars, saveVars, UserVars>>

\* lcrt_file_on_reconnect_all_activate: a loop over the terminals that a
\* dialog can interrupt between two of them.
ReconnectAll ==
  /\ Idle /\ tabs # {}
  /\ Push([kind |-> "reconnect_all", todo |-> tabs])
  /\ UNCHANGED <<tabVars, linkVars, keyVars, saveVars, sshVars, procVars, UserVars>>

ReconnectNext ==
  /\ Top("reconnect_all")
  /\ \E t \in Head(stack).todo, found \in FoundChoices :
       LET left == Head(stack).todo \ {t}
           rest == IF left = {} THEN Tail(stack)
                   ELSE <<[kind |-> "reconnect_all", todo |-> left]>> \o Tail(stack)
       IN  /\ SetStatus(t, DISCONNECT)
           /\ Connect(t, user[t], found, pid[t],
                      IF status[t] = CONNECTED THEN Fed(child[t]) ELSE child[t])
           /\ AfterConnect(t, found, rest)
  /\ UNCHANGED <<tabVars, keyVars, saveVars, UserVars>>

\* lcrt_file_on_disconnect_activate.
DisconnectCurrent ==
  /\ Idle /\ current # NoTerminal
  /\ status[current] = CONNECTED
  /\ Disconnect(current)
  /\ UNCHANGED <<tabVars, keyVars, saveVars, stack, pid, loginName, UserVars>>

\* lcrt_file_on_disconnect_all_activate; no dialog can interrupt this loop.
DisconnectAll ==
  LET live == {t \in tabs : status[t] = CONNECTED} IN
  /\ Idle /\ live # {}
  /\ status' = [t \in Terminals |-> IF t \in live THEN DISCONNECT ELSE status[t]]
  /\ toolbar' = IF current \in live THEN ButtonsFor(DISCONNECT) ELSE toolbar
  /\ child' = [t \in Terminals |-> IF t \in live THEN Fed(child[t]) ELSE child[t]]
  /\ private' = [t \in Terminals |-> private[t] /\ t \notin live]
  /\ again' = [t \in Terminals |-> IF t \in live THEN 0 ELSE again[t]]
  /\ changed' = [t \in Terminals |-> changed[t] /\ t \notin live]
  /\ UNCHANGED <<tabVars, keyVars, saveVars, stack, pid, loginName, UserVars>>

\* lcrt_destroy_terminal: disconnect, drop the page, kill the child.
Destroy(t) ==
  /\ DestroyPage(t)
  /\ private' = [private EXCEPT ![t] = FALSE]
  /\ again' = [again EXCEPT ![t] = 0]
  /\ changed' = [changed EXCEPT ![t] = FALSE]
  /\ pid' = [pid EXCEPT ![t] = FALSE]
  /\ child' = [child EXCEPT ![t] = "none"]
  /\ loginName' = [loginName EXCEPT ![t] = NoName]
  /\ UNCHANGED UserVars

\* lcrt_terminal_on_button_close_clicked: a connected session is confirmed.
Close(t) ==
  /\ Idle /\ t \in tabs
  /\ \/ /\ status[t] # CONNECTED
        /\ Destroy(t)
        /\ UNCHANGED stack
     \/ /\ status[t] = CONNECTED
        /\ Push(Frame("confirm_close", t))
        /\ UNCHANGED <<tabVars, linkVars, keyVars, saveVars, sshVars, procVars, UserVars>>

AnswerClose(ok) ==
  /\ Top("confirm_close")
  /\ Pop
  /\ IF ok THEN Destroy(Head(stack).term)
     ELSE UNCHANGED <<tabVars, linkVars, keyVars, saveVars, sshVars, procVars, UserVars>>

\* A message is acknowledged; nothing follows it in its handler.
CloseNotice ==
  /\ Top("notice")
  /\ Pop
  /\ UNCHANGED <<tabVars, linkVars, keyVars, saveVars, sshVars, procVars, UserVars>>

\* The message of lcrt_create_terminal's connect: the page becomes current.
CloseNewPage ==
  /\ Top("new_page")
  /\ Pop
  /\ UNCHANGED <<tabs, user>>
  /\ IF Head(stack).term = current THEN UNCHANGED <<current, currentUser, toolbar>>
     ELSE SwitchPage(Head(stack).term, status[Head(stack).term])
  /\ UNCHANGED <<status, keyVars, saveVars, sshVars, procVars, UserVars>>

\* Mutant: the count of denials is not cleared.
CloseFailed_CountKept ==
  /\ Top("failed")
  /\ Pop
  /\ UNCHANGED <<tabVars, linkVars, keyVars, saveVars, sshVars, procVars, UserVars>>

\* The third denial is acknowledged: the count starts over, in the private data that
\* the handler counted in.
CloseFailed ==
  /\ Top("failed")
  /\ Pop
  /\ again' = IF Head(stack).own THEN [again EXCEPT ![Head(stack).term] = 0] ELSE again
  /\ UNCHANGED <<tabVars, linkVars, keyVars, saveVars, private, changed, procVars, UserVars>>

\* The login dialog is answered: OK stores what was typed in the record, both
\* buttons note the "remember" choice, and typing in the name entry has marked
\* the terminal's private data.  The suspended lcrt_ssh_receive then resumes.
AnswerLogin(ok, typed, name, secret, keep) ==
  /\ Top("login")
  /\ LET t == Head(stack).term
         u == user[t]
     IN /\ typed \/ name = username[u]
        /\ NoteTyping(t, typed)
        /\ remember' = [remember EXCEPT ![t] = keep]
        /\ IF ok THEN /\ username' = [username EXCEPT ![u] = name]
                      /\ password' = [password EXCEPT ![u] = secret]
                 ELSE UNCHANGED recVars
  /\ stack' = <<[Head(stack) EXCEPT !.kind = "resume"]>> \o Tail(stack)
  /\ UNCHANGED <<tabVars, linkVars, keyVars, stored, private, again, procVars, app>>

\* lcrt_ssh_receive after lcrt_create_login returned.
ResumeReceive ==
  /\ Top("resume")
  /\ LET f == Head(stack) IN
       \/ /\ f.own /\ changed[f.term]
          /\ Restart(f.term, Tail(stack))
       \/ /\ ~(f.own /\ changed[f.term]) /\ f.at = "denied"
          /\ AfterDenied(f.term, f.text, child[f.term], f.own, Tail(stack))
       \/ /\ ~(f.own /\ changed[f.term]) /\ f.at = "prompt"
          /\ SubmitPassword(f.term, child[f.term], Tail(stack))
  /\ UNCHANGED <<tabVars, recVars>>

-----------------------------------------------------------------------------
(* What happens to the child.                                              *)
(***************************************************************************)
\* The child's signals reach lcrt once lcrt_create_terminal has connected them.
Attached(t) == t \in tabs /\ \A i \in 1..Len(stack) : stack[i] # Frame("new_page", t)

\* The child prints and VTE emits contents-changed.
Receive(t) ==
  /\ Polling /\ Attached(t)
  /\ \E o \in Output :
       /\ o[1] = child[t]
       /\ \/ /\ status[t] = CONNECTED
             /\ child' = [child EXCEPT ![t] = o[3]]
             /\ UNCHANGED <<linkVars, keyVars, saveVars, stack, sshVars, pid, loginName, app>>
          \/ /\ status[t] # CONNECTED
             /\ ~private[t] /\ ReadsPrivate(t, o[2])
             /\ app' = "segv"
             /\ UNCHANGED <<linkVars, keyVars, saveVars, stack, sshVars, procVars>>
          \/ /\ status[t] # CONNECTED
             /\ private[t] \/ ~ReadsPrivate(t, o[2])
             /\ ReceiveText(t, o[2], o[3])
  /\ UNCHANGED <<tabVars, recVars>>

\* The child dies without a word.
Die(t) ==
  /\ Polling /\ t \in tabs
  /\ child[t] \in Alive
  /\ child' = [child EXCEPT ![t] = "dead"]
  /\ UNCHANGED <<coreVars, sshVars, pid, loginName, UserVars>>

\* Mutant: the test for CONNECTED is dropped, every exit arms the Return key.
ChildExited_AnyStatus(t) ==
  /\ Polling /\ Attached(t)
  /\ child[t] = "dead"
  /\ child' = [child EXCEPT ![t] = "none"]
  /\ pid' = [pid EXCEPT ![t] = FALSE]
  /\ ArmReturnKey(t)
  /\ UNCHANGED <<tabVars, saveVars, stack, sshVars, loginName, UserVars>>

\* Mutant: the test for CONNECTED is inverted.
ChildExited_TestInverted(t) ==
  /\ Polling /\ Attached(t)
  /\ child[t] = "dead"
  /\ child' = [child EXCEPT ![t] = "none"]
  /\ IF status[t] # CONNECTED
     THEN pid' = [pid EXCEPT ![t] = FALSE] /\ ArmReturnKey(t)
     ELSE UNCHANGED <<pid, linkVars, keyVars>>
  /\ UNCHANGED <<tabVars, saveVars, stack, sshVars, loginName, UserVars>>

\* VTE reaps the child and emits child-exited, which
\* lcrt_terminal_on_child_exited ignores unless the terminal is connected.
ChildExited(t) ==
  /\ Polling /\ Attached(t)
  /\ child[t] = "dead"
  /\ child' = [child EXCEPT ![t] = "none"]
  /\ IF status[t] = CONNECTED
     THEN pid' = [pid EXCEPT ![t] = FALSE] /\ ArmReturnKey(t)
     ELSE UNCHANGED <<pid, linkVars, keyVars>>
  /\ loginName' = [loginName EXCEPT ![t] = NoName]
  /\ UNCHANGED <<tabVars, saveVars, stack, sshVars, UserVars>>

-----------------------------------------------------------------------------
Init ==
  /\ CoreInit
  /\ username \in [Users -> LoginName]
  /\ password \in [Users -> SecretChoices]
  /\ private = [t \in Terminals |-> FALSE]
  /\ again = [t \in Terminals |-> 0]
  /\ changed = [t \in Terminals |-> FALSE]
  /\ pid = [t \in Terminals |-> FALSE]
  /\ child = [t \in Terminals |-> "none"]
  /\ loginName = [t \in Terminals |-> NoName]
  /\ app = "up"

UserStep ==
  \/ \E t \in Terminals, u \in Users : OpenSession(t, u)
  \/ \E t \in Terminals : Clone(t) \/ Close(t)
  \/ \E t \in Terminals : SelectTab(t) /\ UNCHANGED <<recVars, sshVars, procVars, app>>
  \/ PressReturn \/ Reconnect \/ ReconnectAll \/ DisconnectCurrent \/ DisconnectAll

DialogStep ==
  \/ \E ok \in BOOLEAN : AnswerClose(ok)
  \/ CloseNotice \/ CloseNewPage \/ CloseFailed
  \/ \E ok, typed \in BOOLEAN, secret \in SecretChoices, name \in LoginName,
        keep \in RememberChoices :
       AnswerLogin(ok, typed, name, secret, keep)

HandlerStep == ReconnectNext \/ ResumeReceive

ChildStep == \E t \in Terminals : Receive(t) \/ Die(t) \/ ChildExited(t)

\* lcrt is gone.
Down == app # "up" /\ UNCHANGED vars

Next ==
  \/ app = "up" /\ (UserStep \/ DialogStep \/ HandlerStep \/ ChildStep)
  \/ Down

\* The main loop dispatches a ready child watch, and a handler whose dialog was
\* answered runs on; the user and the network owe nothing.
Fairness ==
  /\ WF_vars(app = "up" /\ HandlerStep)
  /\ \A t \in Terminals : SF_vars(app = "up" /\ ChildExited(t))

Spec == Init /\ [][Next]_vars
FairSpec == Spec /\ Fairness

-----------------------------------------------------------------------------
(* Properties.                                                             *)
(***************************************************************************)
RecType == username \in [Users -> LoginName] /\ password \in [Users -> BOOLEAN]
SshType ==
  /\ private \in [Terminals -> BOOLEAN]
  /\ again \in [Terminals -> Nat]
  /\ changed \in [Terminals -> BOOLEAN]
ProcType ==
  /\ pid \in [Terminals -> BOOLEAN]
  /\ child \in [Terminals -> Phases]
  /\ loginName \in [Terminals -> LoginName]
SshStatus == {DISCONNECT, CONNECTED, CONNECTING, WAIT_RETURN, CHILD_EXIT}

\* Every variable has its type; in particular the open tabs have a record.
TypeOK ==
  /\ TabType /\ LinkType(SshStatus) /\ KeyType /\ SaveType
  /\ RecType /\ SshType /\ ProcType
  /\ stack \in Seq(Frames)
  /\ app \in {"up", "segv", "group_killed"}

\* The denials of a connection stay below three, except while the message that
\* the connection failed is up - although logins go on, and more denials are counted,
\* while it is.
GivesUpAfterThree ==
  \A t \in Terminals :
    again[t] >= 3 => \E i \in 1..Len(stack) : stack[i] = FailedFrame(t)

\* A dialog that asks for the password of a prompt it has read has its connection
\* to itself: the process stays at that prompt, or dies, and nobody connects anew -
\* although the dialog of an earlier denial, whose prompt came on a screen of its
\* own, may be suspended beneath it.
OfPrompt(f, t) == f.kind \in LoginKinds /\ f.term = t /\ f.text \in {"prompt", "denied_prompt"}
AtPrompt == {"passwd", "dead", "none"}
PromptKeepsItsChild ==
  \A i \in 1..Len(stack), t \in Terminals :
    OfPrompt(stack[i], t) => stack[i].own /\ child[t] \in AtPrompt

\* Why SuspendedOnOpenTabs is inductive.  A terminal is freed with no handler suspended:
\* the confirmation that asks first was opened with no other dialog up, so it is the
\* outermost frame, and so is a loop over the terminals.  A login dialog is opened for
\* what the screen shows.
Outermost == {"confirm_close", "reconnect_all"}
FrameOK(f, open) ==
  /\ FrameTerminals(f) \subseteq open
  /\ f.kind \in LoginKinds =>
       /\ f.at = "denied" => f.text \in {"denied", "denied_prompt"}
       /\ f.at = "prompt" => f.text \in {"prompt", "denied_prompt"}
StackOK(s, open) ==
  \A i \in 1..Len(s) :
    /\ FrameOK(s[i], open)
    /\ s[i].kind \in Outermost => i = Len(s)

\* Another tab has the same record, and may rename the login in a dialog of its own.
Shared(t) == \E o \in tabs \ {t} : user[o] = user[t]

\* Why denials, logins and processes go together.  A handler that has read a prompt has
\* the connection to itself, and no other handler of its terminal asks above it; the
\* third denial waits for its message; a dialog whose name entry was not touched was
\* opened for a record without a name.
PromptsOK(s, t, phase) ==
  \A i \in 1..Len(s) : OfPrompt(s[i], t) =>
    /\ s[i].own /\ phase \in AtPrompt
    /\ \A j \in 1..Len(s) : j < i => ~Asks(s[j], t)
CountOK(s, t, denials) == denials >= 3 => \E i \in 1..Len(s) : s[i] = FailedFrame(t)
OwnLogin(s, t) == \E i \in 1..Len(s) : s[i].kind \in LoginKinds /\ s[i].term = t /\ s[i].own
LoginOK(s, t) ==
  /\ PromptsOK(s, t, child[t])
  /\ CountOK(s, t, again[t])
  /\ OwnLogin(s, t) => changed[t] \/ Shared(t) \/ username[user[t]] = NoName

LoginInv == \A t \in Terminals : LoginOK(stack, t)

\* The inductive invariant from which the safety properties of the tabs follow.
IInv == TypeOK /\ StackOK(stack, tabs) /\ CoreInv /\ LoginInv

\* A stored password is submitted only to a connection that was started under
\* the record's present login name (or to whatever login, if the record has no
\* name) - unless another tab shares the record and may have renamed the login.
Submits(t) == status'[t] = CONNECTING /\ child[t] # "auth" /\ child'[t] = "auth"
PasswordGoesToItsLogin ==
  [][\A t \in tabs : Submits(t) /\ ~Shared(t) =>
       username[user[t]] \in {NoName, loginName[t]}]_vars

\* A tab turns connected without a process, or one whose exit is still to be
\* delivered, only when the dialog of a denial is answered that was left beneath a
\* new connection, or for a record without a name, or one that another tab renames.
Gone(t) == status[t] = CONNECTED /\ child[t] = "none"
ConnectsToChild ==
  [][\A t \in tabs : ~Gone(t) /\ Gone(t)' =>
       /\ Top("resume") /\ Head(stack).term = t
       /\ Head(stack).own /\ ~Shared(t) => username[user[t]] = NoName]_vars

\* The exit of the process, and nothing else, ends a session and offers Return; the
\* user's Disconnect and Reconnect All drop it, and so does a login handler that goes
\* on and submits the password.
IsTabSession ==
  /\ SessionsOfTabs!TabSessionSpec
  /\ [][\A t \in Terminals :
          OffersReturn(t) <=> status[t] = CONNECTED /\ ChildExited(t)]_vars

\* When the process of a connected session dies, the tab stops claiming to be
\* connected (or is connected anew).
DeathNoticed ==
  \A t \in Terminals :
    (status[t] = CONNECTED /\ child[t] = "dead") ~>
      (status[t] # CONNECTED \/ child[t] \in Alive \/ app # "up")

-----------------------------------------------------------------------------
(* What the comments of the source say and the code does not keep.         *)
(***************************************************************************)
\* A changed login name kills "the previous connection": never lcrt itself, by
\* the kill(0) of a child_pid that a child's exit has cleared meanwhile.
KillsOnlyTheConnection == app # "group_killed"

\* The receive callback handles what a terminal receives, also after the
\* disconnect callback has freed its private data.
ReceiveHandlesData == app # "segv"

\* disconnect closes the connection: until connect is called again, and sets up
\* the private data, the tab does not turn connected.
DisconnectedStaysDown ==
  \A t \in Terminals : status[t] = CONNECTED => private[t]

\* "connected with remote": a session shown as connected has a process.
ConnectedWithRemote ==
  \A t \in tabs : status[t] = CONNECTED => child[t] # "none"

\* A login that succeeds with "remember" chosen in its login dialog stores the
\* record of that terminal.
LoggedIn(t) == status[t] # CONNECTED /\ status'[t] = CONNECTED
RemembersThatLogin ==
  [][\A t \in tabs : LoggedIn(t) /\ remember[t] => user[t] \in stored']_vars
=============================================================================

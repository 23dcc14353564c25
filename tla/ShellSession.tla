---------------------------- MODULE ShellSession ----------------------------
(***************************************************************************)
(* Terminals that run a local shell (src/src/shell.c), the simplest of the *)
(* protocols: anything the shell prints means connected, and disconnect    *)
(* does nothing at all.                                                    *)
(***************************************************************************)
EXTENDS TerminalCore

CONSTANT FoundChoices   \* outcomes tried for lcrt_exec_check, whose argument is uninitialised

ASSUME ShellAssumption == FoundChoices \subseteq BOOLEAN

VARIABLES
  pid,      \* lterminal->child_pid # 0
  child,    \* the process on the terminal's pty
  loose,    \* tabs, open or closed, of which a shell runs that lcrt has no pid of
  asked,    \* history: tabs told to disconnect and not to connect since
  strayKill \* history: a SIGKILL went to a pid that was no longer lcrt's child

procVars == <<pid, child, loose>>
histVars == <<asked, strayKill>>
vars == <<coreVars, procVars, histVars>>

\* "dead": exited, the exit not delivered yet; "none": no process, or reaped.
Phases == {"none", "runs", "dead"}

Frame(kind, t) == [kind |-> kind, term |-> t]
Frames ==
  [kind : {"notice", "new_page"}, term : Terminals]
    \cup [kind : {"reconnect_all"}, todo : SUBSET Terminals]

-----------------------------------------------------------------------------
(* The protocol's callbacks.                                               *)
(***************************************************************************)
\* A fork puts the new child on the pty.  A shell that is still there loses its
\* place: its pid is overwritten and VTE listens to the new child only; the
\* hang-up of its pty ends it or does not.
Displace(t, found) ==
  /\ child' = [child EXCEPT ![t] = IF found THEN "runs" ELSE @]
  /\ loose' = IF found /\ child[t] = "runs" THEN loose \cup {t} ELSE loose

\* Mutant: the pid of the new child is not noted.
Connect_PidForgotten(t, found, frame, rest) ==
  /\ Displace(t, found)
  /\ asked' = asked \ {t}
  /\ stack' = IF found THEN rest ELSE <<frame>> \o rest
  /\ UNCHANGED <<pid, strayKill>>

\* lcrt_shell_connect: a new child takes the pty, or a message says that the
\* program is not there.  Neither touches the status.
Connect(t, found, frame, rest) ==
  /\ pid' = [pid EXCEPT ![t] = @ \/ found]
  /\ Displace(t, found)
  /\ asked' = asked \ {t}
  /\ stack' = IF found THEN rest ELSE <<frame>> \o rest
  /\ UNCHANGED strayKill

-----------------------------------------------------------------------------
(* What the user does.                                                     *)
(***************************************************************************)
\* lcrt_create_terminal: the Terminal button, the connect dialogs, a clone.
NewTerminal(t, u) ==
  /\ Idle
  /\ NewPage(t, u)
  /\ \E found \in FoundChoices :
       /\ Connect(t, found, Frame("new_page", t), stack)
       /\ IF found \/ tabs = {} THEN SwitchPage(t, DISCONNECT)
          ELSE current' = current /\ currentUser' = u /\ UNCHANGED toolbar

Clone(t) == current # NoTerminal /\ status[current] = CONNECTED /\ NewTerminal(t, user[current])

ConnectCurrent ==
  /\ \E found \in FoundChoices : Connect(current, found, Frame("notice", current), stack)
  /\ UNCHANGED <<tabVars, linkVars, keyVars, saveVars>>

\* Return in the focused terminal, with the handler connected.
PressReturn ==
  /\ Idle /\ current # NoTerminal
  /\ keyHandlers[current] > 0
  /\ ConnectCurrent

\* lcrt_file_on_reconnect_activate.
Reconnect ==
  /\ Idle /\ current # NoTerminal
  /\ status[current] \in {DISCONNECT, CHILD_EXIT}
  /\ ConnectCurrent

\* lcrt_file_on_reconnect_all_activate; "exit" is fed to a connected shell, which
\* the new one displaces from the pty, or which may take it and die.
ReconnectAll ==
  /\ Idle /\ tabs # {}
  /\ Push([kind |-> "reconnect_all", todo |-> tabs])
  /\ UNCHANGED <<tabVars, linkVars, keyVars, saveVars, procVars, histVars>>

ReconnectNext ==
  /\ Top("reconnect_all")
  /\ \E t \in Head(stack).todo, found \in FoundChoices :
       LET left == Head(stack).todo \ {t}
           rest == IF left = {} THEN Tail(stack)
                   ELSE <<[kind |-> "reconnect_all", todo |-> left]>> \o Tail(stack)
       IN  SetStatus(t, DISCONNECT) /\ Connect(t, found, Frame("notice", t), rest)
  /\ UNCHANGED <<tabVars, keyVars, saveVars>>

\* lcrt_file_on_disconnect_activate and lcrt_file_on_disconnect_all_activate call
\* lcrt_shell_disconnect, which is empty.
Disconnect(S) ==
  /\ Idle /\ S # {} /\ \A t \in S : status[t] = CONNECTED
  /\ asked' = asked \cup S
  /\ UNCHANGED <<coreVars, procVars, strayKill>>

DisconnectCurrent == current # NoTerminal /\ Disconnect({current})
DisconnectAll == Disconnect({t \in tabs : status[t] = CONNECTED})

\* lcrt_terminal_on_button_close_clicked, which asks nothing for a shell, and
\* lcrt_destroy_terminal: the child is killed by the pid that was noted for it, and
\* would be left running if none was.
Close(t) ==
  /\ Idle /\ t \in tabs
  /\ DestroyPage(t)
  /\ strayKill' = (strayKill \/ (pid[t] /\ child[t] = "none"))
  /\ loose' = IF child[t] = "runs" /\ ~pid[t] THEN loose \cup {t} ELSE loose
  /\ pid' = [pid EXCEPT ![t] = FALSE]
  /\ child' = [child EXCEPT ![t] = "none"]
  /\ asked' = asked \ {t}
  /\ UNCHANGED stack

CloseNotice ==
  /\ Top("notice")
  /\ Pop
  /\ UNCHANGED <<tabVars, linkVars, keyVars, saveVars, procVars, histVars>>

\* The message of lcrt_create_terminal's connect: the page becomes current.
CloseNewPage ==
  /\ Top("new_page")
  /\ Pop
  /\ UNCHANGED <<tabs, user>>
  /\ IF Head(stack).term = current THEN UNCHANGED <<current, currentUser, toolbar>>
     ELSE SwitchPage(Head(stack).term, status[Head(stack).term])
  /\ UNCHANGED <<status, keyVars, saveVars, procVars, histVars>>

-----------------------------------------------------------------------------
(* What happens to the shell.                                              *)
(***************************************************************************)
\* The shell prints, perhaps its last words: lcrt_terminal_on_contents_changed
\* and lcrt_shell_receive.  A default command is one more line for the shell.
Receive(t) ==
  /\ Polling /\ t \in tabs
  /\ child[t] = "runs"
  /\ \E last \in BOOLEAN : child' = [child EXCEPT ![t] = IF last THEN "dead" ELSE "runs"]
  /\ IF status[t] = CONNECTED THEN UNCHANGED <<linkVars, keyVars, saveVars>>
                              ELSE SetConnectedStatus(t)
  /\ UNCHANGED <<tabVars, stack, pid, loose, histVars>>

\* The shell dies without a word.
Die(t) ==
  /\ Polling /\ child[t] = "runs"
  /\ child' = [child EXCEPT ![t] = "dead"]
  /\ UNCHANGED <<coreVars, pid, loose, histVars>>

\* The last loose shell of a tab dies, of the hang-up, of the "exit" it was fed or
\* by itself; lcrt hears nothing of it.
LooseDies(t) ==
  /\ Polling /\ t \in loose
  /\ loose' = loose \ {t}
  /\ UNCHANGED <<coreVars, pid, child, histVars>>

\* Mutant: the status stays CONNECTED and the pid is cleared.
ChildExited_StatusKept(t) ==
  /\ Polling /\ child[t] = "dead"
  /\ child' = [child EXCEPT ![t] = "none"]
  /\ pid' = [pid EXCEPT ![t] = FALSE]
  /\ UNCHANGED <<coreVars, loose, histVars>>

\* VTE reaps the child and emits child-exited, which
\* lcrt_terminal_on_child_exited ignores unless the terminal is connected.
ChildExited(t) ==
  /\ Polling /\ child[t] = "dead"
  /\ child' = [child EXCEPT ![t] = "none"]
  /\ IF status[t] = CONNECTED
     THEN pid' = [pid EXCEPT ![t] = FALSE] /\ ArmReturnKey(t)
     ELSE UNCHANGED <<pid, linkVars, keyVars>>
  /\ UNCHANGED <<tabVars, saveVars, stack, loose, histVars>>

-----------------------------------------------------------------------------
Init ==
  /\ CoreInit
  /\ pid = [t \in Terminals |-> FALSE]
  /\ child = [t \in Terminals |-> "none"]
  /\ loose = {}
  /\ asked = {}
  /\ strayKill = FALSE

UserStep ==
  \/ \E t \in Terminals, u \in Users : NewTerminal(t, u)
  \/ \E t \in Terminals : Clone(t) \/ Close(t)
  \/ \E t \in Terminals : SelectTab(t) /\ UNCHANGED <<procVars, histVars>>
  \/ PressReturn \/ Reconnect \/ ReconnectAll \/ DisconnectCurrent \/ DisconnectAll

DialogStep == CloseNotice \/ CloseNewPage

ChildStep == \E t \in Terminals : Receive(t) \/ Die(t) \/ LooseDies(t) \/ ChildExited(t)

Next == UserStep \/ DialogStep \/ ReconnectNext \/ ChildStep

Spec == Init /\ [][Next]_vars

-----------------------------------------------------------------------------
(* Properties.                                                             *)
(***************************************************************************)
\* Every variable has its type.
TypeOK ==
  /\ TabType /\ LinkType({DISCONNECT, CONNECTED, CHILD_EXIT}) /\ KeyType /\ SaveType
  /\ pid \in [Terminals -> BOOLEAN]
  /\ child \in [Terminals -> Phases]
  /\ loose \subseteq Terminals
  /\ stack \in Seq(Frames)
  /\ asked \subseteq Terminals /\ strayKill \in BOOLEAN

\* A tab that shows a session has a shell, or one whose exit is still to be
\* delivered: the end of a shell is never lost, whatever reconnects overtake it.
ConnectedHasShell == \A t \in Terminals : status[t] = CONNECTED => child[t] # "none"

\* Closing a tab leaves no shell behind: lcrt loses hold of a shell only when it
\* forks another over it in an open tab, and of one whose session is shown only in
\* Reconnect All.
ShellsStayInHand ==
  [][\A t \in loose' \ loose :
       t \in tabs' /\ (status[t] = CONNECTED => Top("reconnect_all"))]_vars

\* The exit of a shell, and nothing else, ends a session and offers Return; what
\* else takes a session down, Reconnect All, drops it.
IsTabSession ==
  /\ SessionsOfTabs!TabSessionSpec
  /\ [][\A t \in Terminals :
          OffersReturn(t) <=> status[t] = CONNECTED /\ ChildExited(t)]_vars

\* The inductive invariant from which all of the above follow: the shell on a
\* tab's pty is one that closing the tab kills.
ShellHasPid == \A t \in Terminals : child[t] # "none" => t \in tabs /\ pid[t]

IInv ==
  TypeOK /\ SuspendedOnOpenTabs /\ CoreInv /\ ConnectedHasShell /\ ShellHasPid

-----------------------------------------------------------------------------
(* What the comments and the manual say and the code does not keep.        *)
(***************************************************************************)
\* "child process id": what closing a tab kills is the tab's child.
KillsItsChild == ~strayKill

\* "child process id": a tab has one child, and none once it is closed.
NoShellIsLeft == loose \subseteq tabs

\* "You can click Disconnect menuitem to disconnect the session first".
DisconnectEndsSession == \A t \in asked : status[t] # CONNECTED
=============================================================================

---------------------------- MODULE SerialSession ----------------------------
(***************************************************************************)
(* Terminals on a serial device (src/src/serial.c).  There is no child     *)
(* process: lcrt opens the device itself, watches the descriptor from its  *)
(* main loop, feeds what it reads to the terminal and writes what the user *)
(* types.  lterminal->private_data points to the struct lcrt_serial_tm     *)
(* with the descriptor, the id of the watch and the id of the "commit"     *)
(* handler; here the descriptor's number stands for all three.             *)
(*                                                                         *)
(* A poll of the main loop marks every watch of a device that has input;   *)
(* the watches are then dispatched one by one, and the first read takes    *)
(* all the input there is.                                                 *)
(***************************************************************************)
EXTENDS TerminalCore

CONSTANT MaxFds   \* the descriptors that lcrt may have open for serial devices

ASSUME SerialAssumption == MaxFds \in Nat \ {0}

VARIABLES
  plugged,  \* the session's device is there
  unread,   \* the device has input that nobody has read
  opened,   \* open descriptors
  hung,     \* descriptors whose device was pulled out
  device,   \* the session a descriptor was opened for
  holder,   \* the terminal that the descriptor's watch and "commit" handler serve
  orphans,  \* descriptors whose watch points to a freed terminal
  ready,    \* watches marked by the last poll and not dispatched yet
  private,  \* lterminal->private_data->fd, 0 if there is no private data
  drawn,    \* contents-changed is due
  app       \* "up", or how lcrt died

deviceVars == <<plugged, unread>>
fdVars == <<opened, hung, device, holder, orphans, ready, private>>
vars == <<coreVars, deviceVars, fdVars, drawn, app>>

Fds == 1 .. MaxFds

\* open returns the lowest free number.
NextFd == CHOOSE f \in Fds \ opened : \A g \in Fds \ opened : f <= g

\* A closed descriptor has neither a device nor a hang-up.
DropClosed ==
  /\ hung' = hung \cap opened'
  /\ device' = [f \in Fds |-> IF f \in opened' THEN device[f] ELSE NoUser]

\* The watches and "commit" handlers of a terminal.
Watches(t) == {f \in Fds : holder[f] = t}
\* Those that lterminal->private_data has forgotten.
Forgotten(t) == Watches(t) \ {private[t]}

Frame(kind, t) == [kind |-> kind, term |-> t]
Frames ==
  [kind : {"notice", "notice_key", "new_page", "confirm_close"}, term : Terminals]
    \cup [kind : Loops, todo : SUBSET Terminals]

-----------------------------------------------------------------------------
(* The protocol's callbacks.                                               *)
(***************************************************************************)
\* lcrt_serial_connect opens and flushes the device and installs a watch and a
\* handler of its own, whatever private_data points to.
OpenPort(t, u) ==
  /\ plugged[u] /\ opened # Fds
  /\ opened' = opened \cup {NextFd}
  /\ device' = [device EXCEPT ![NextFd] = u]
  /\ holder' = [holder EXCEPT ![NextFd] = t]
  /\ private' = [private EXCEPT ![t] = NextFd]
  /\ unread' = [unread EXCEPT ![u] = FALSE]
  /\ UNCHANGED <<plugged, hung, orphans, ready, drawn, app>>

\* The device is not there, or lcrt has no descriptor left: a message, and
\* nothing has changed.
NoPort(t, u, frame, rest) ==
  /\ ~plugged[u] \/ opened = Fds
  /\ stack' = <<frame>> \o rest
  /\ UNCHANGED <<deviceVars, fdVars, drawn, app>>

\* lcrt_serial_connect of a page that exists; "failed" is what a failure does
\* to status and toolbar.
Connect(t, frame, rest, failed) ==
  \/ OpenPort(t, user[t]) /\ SetConnectedStatus(t) /\ stack' = rest
  \/ NoPort(t, user[t], frame, rest) /\ failed /\ UNCHANGED <<keyVars, saveVars>>

\* Mutant: private_data still points to the freed struct.
Release_PrivateKept(t) ==
  /\ opened' = IF status[t] = CONNECTED THEN opened \ {private[t]} ELSE opened
  /\ holder' = [f \in Fds |-> IF f = private[t] THEN NoTerminal ELSE holder[f]]
  /\ DropClosed
  /\ ready' = ready \ {private[t]}
  /\ UNCHANGED private

\* lcrt_serial_disconnect: the descriptor is closed only when the tab counts as
\* connected; watch, handler and private data go in any case.
Release(t) ==
  /\ opened' = IF status[t] = CONNECTED THEN opened \ {private[t]} ELSE opened
  /\ holder' = [f \in Fds |-> IF f = private[t] THEN NoTerminal ELSE holder[f]]
  /\ DropClosed
  /\ ready' = ready \ {private[t]}
  /\ private' = [private EXCEPT ![t] = 0]

\* Mutant: the test for CONNECTED is dropped.
Down_AnyStatus(t) ==
  /\ keyHandlers' = [keyHandlers EXCEPT ![t] = @ + 1]
  /\ signalConnected' = [signalConnected EXCEPT ![t] = TRUE]
  /\ SetStatus(t, DISCONNECT)

\* Mutant: the Return key is armed and the status stays.
Down_StatusKept(t) ==
  /\ keyHandlers' = [keyHandlers EXCEPT ![t] = @ + 1]
  /\ signalConnected' = [signalConnected EXCEPT ![t] = TRUE]
  /\ UNCHANGED linkVars

\* lcrt_terminal_on_child_exited, called as a function, and the status: Return is
\* armed whoever took the connection down, the user's Disconnect included.
Down(t) ==
  IF status[t] = CONNECTED
  THEN /\ keyHandlers' = [keyHandlers EXCEPT ![t] = @ + 1]
       /\ signalConnected' = [signalConnected EXCEPT ![t] = TRUE]
       /\ SetStatus(t, DISCONNECT)
  ELSE UNCHANGED <<linkVars, keyVars>>

Disconnect(t) == Release(t) /\ Down(t) /\ UNCHANGED <<deviceVars, orphans, drawn>>

-----------------------------------------------------------------------------
(* What the user does.                                                     *)
(***************************************************************************)
Unmoved == UNCHANGED <<tabVars, linkVars, keyVars, saveVars, deviceVars, fdVars, drawn>>

\* lcrt_create_terminal, for a session or for a clone of the current one.
NewTerminal(t, u) ==
  /\ Idle
  /\ \/ /\ OpenPort(t, u)
        /\ NewPageWith(t, u, CONNECTED)
        /\ SwitchPage(t, CONNECTED)
        /\ UNCHANGED stack
     \/ /\ NoPort(t, u, Frame("new_page", t), stack)
        /\ NewPageWith(t, u, DISCONNECT)
        /\ IF tabs = {} THEN SwitchPage(t, DISCONNECT)
           ELSE current' = current /\ currentUser' = u /\ UNCHANGED toolbar
  /\ UNCHANGED keyVars

Clone(t) == current # NoTerminal /\ status[current] = CONNECTED /\ NewTerminal(t, user[current])

\* Return in the focused terminal; the key itself follows the handler.
PressReturn ==
  /\ Idle /\ current # NoTerminal
  /\ keyHandlers[current] > 0
  /\ Connect(current, Frame("notice_key", current), stack, UNCHANGED linkVars)
  /\ UNCHANGED tabVars

\* Every "commit" handler of the terminal reads private_data: here one is left
\* and the data is not.  Any other key stroke changes nothing.
WriteThroughNull(t) == private[t] = 0 /\ Watches(t) # {}
TypeKey ==
  /\ Idle /\ current # NoTerminal
  /\ WriteThroughNull(current)
  /\ app' = "segv"
  /\ UNCHANGED stack /\ Unmoved

\* lcrt_file_on_reconnect_activate.
Reconnect ==
  /\ Idle /\ current # NoTerminal
  /\ status[current] \in {DISCONNECT, CHILD_EXIT}
  /\ Connect(current, Frame("notice", current), stack, UNCHANGED linkVars)
  /\ UNCHANGED tabVars

\* lcrt_file_on_reconnect_all_activate and lcrt_file_on_disconnect_all_activate:
\* loops over the terminals, the first of which a message can interrupt; nothing
\* does the second, which skips what is not connected.
Loop(kind, todo) ==
  /\ Idle /\ todo # {}
  /\ Push([kind |-> kind, todo |-> todo])
  /\ UNCHANGED app /\ Unmoved

RestOfLoop(t) ==
  LET left == Head(stack).todo \ {t} IN
  IF left = {} THEN Tail(stack) ELSE <<[Head(stack) EXCEPT !.todo = left]>> \o Tail(stack)

ReconnectNext ==
  /\ Top("reconnect_all")
  /\ \E t \in Head(stack).todo :
       Connect(t, Frame("notice", t), RestOfLoop(t), SetStatus(t, DISCONNECT))
  /\ UNCHANGED tabVars

DisconnectNext ==
  /\ Top("disconnect_all")
  /\ \E t \in Head(stack).todo :
       /\ stack' = RestOfLoop(t)
       /\ Disconnect(t)
  /\ UNCHANGED <<tabVars, saveVars, app>>

\* lcrt_file_on_disconnect_activate.
DisconnectCurrent ==
  /\ Idle /\ current # NoTerminal
  /\ status[current] = CONNECTED
  /\ Disconnect(current)
  /\ UNCHANGED <<tabVars, saveVars, stack, app>>

\* lcrt_destroy_terminal: disconnect, drop the page, free the terminal.  A
\* forgotten watch goes on pointing to it.
Destroy(t) ==
  /\ DestroyPage(t)
  /\ opened' = IF status[t] = CONNECTED THEN opened \ {private[t]} ELSE opened
  /\ holder' = [f \in Fds |-> IF holder[f] = t THEN NoTerminal ELSE holder[f]]
  /\ orphans' = orphans \cup Forgotten(t)
  /\ DropClosed
  /\ ready' = ready \ {private[t]}
  /\ private' = [private EXCEPT ![t] = 0]
  /\ drawn' = [drawn EXCEPT ![t] = FALSE]
  /\ UNCHANGED deviceVars

\* lcrt_terminal_on_button_close_clicked: a connected session is confirmed.
Close(t) ==
  /\ Idle /\ t \in tabs
  /\ \/ status[t] # CONNECTED /\ Destroy(t) /\ UNCHANGED stack
     \/ status[t] = CONNECTED /\ Push(Frame("confirm_close", t)) /\ Unmoved
  /\ UNCHANGED app

AnswerClose(ok) ==
  /\ Top("confirm_close")
  /\ Pop
  /\ IF ok THEN Destroy(Head(stack).term) ELSE Unmoved
  /\ UNCHANGED app

\* A message is acknowledged.  After a Return the key stroke itself is still to
\* be written.
CloseNotice ==
  /\ Top("notice") \/ Top("notice_key")
  /\ Pop
  /\ app' = IF Top("notice_key") /\ WriteThroughNull(Head(stack).term) THEN "segv" ELSE app
  /\ Unmoved

\* The message of a new page's connect: the page becomes current.
CloseNewPage ==
  /\ Top("new_page")
  /\ Pop
  /\ UNCHANGED <<tabs, user>>
  /\ IF Head(stack).term = current THEN UNCHANGED <<current, currentUser, toolbar>>
     ELSE SwitchPage(Head(stack).term, status[Head(stack).term])
  /\ UNCHANGED <<status, keyVars, saveVars, deviceVars, fdVars, drawn, app>>

-----------------------------------------------------------------------------
(* What the device does, and the main loop.                                *)
(***************************************************************************)
Plug(u) ==
  /\ Polling /\ ~plugged[u]
  /\ plugged' = [plugged EXCEPT ![u] = TRUE]
  /\ UNCHANGED <<coreVars, unread, fdVars, drawn, app>>

\* The device is pulled out; its descriptors are of no more use.
Pull(u) ==
  /\ Polling /\ plugged[u]
  /\ plugged' = [plugged EXCEPT ![u] = FALSE]
  /\ unread' = [unread EXCEPT ![u] = FALSE]
  /\ hung' = hung \cup {f \in opened : device[f] = u}
  /\ UNCHANGED <<coreVars, opened, device, holder, orphans, ready, private, drawn, app>>

\* Input arrives and a poll marks the watches of the device.
Arrive(u) ==
  /\ Polling /\ plugged[u]
  /\ unread' = [unread EXCEPT ![u] = TRUE]
  /\ ready' = ready \cup
       {f \in opened \ hung : device[f] = u /\ (holder[f] # NoTerminal \/ f \in orphans)}
  /\ UNCHANGED <<coreVars, plugged, opened, hung, device, holder, orphans, private, drawn, app>>

\* lcrt_serial_read on a watch whose terminal is gone.
ReadFreed(f) ==
  /\ Polling
  /\ f \in orphans /\ f \in ready \cup hung
  /\ app' = "freed"
  /\ UNCHANGED stack /\ Unmoved

\* lcrt_serial_read finds input and feeds it to the terminal.
ReadInput(f) ==
  /\ Polling
  /\ f \in ready \ (orphans \cup hung) /\ unread[device[f]]
  /\ unread' = [unread EXCEPT ![device[f]] = FALSE]
  /\ ready' = ready \ {f}
  /\ drawn' = [drawn EXCEPT ![holder[f]] = TRUE]
  /\ UNCHANGED <<coreVars, plugged, opened, hung, device, holder, orphans, private, app>>

\* lcrt_serial_read finds nothing: EAGAIN, and it disconnects the terminal.
FindsNothing(f) == f \in ready \ (orphans \cup hung) /\ ~unread[device[f]]
ReadNothing(f) ==
  /\ Polling
  /\ FindsNothing(f)
  /\ LET t == holder[f] IN
     /\ opened' = IF status[t] = CONNECTED THEN opened \ {private[t]} ELSE opened
     /\ holder' = [g \in Fds |-> IF g = private[t] THEN NoTerminal ELSE holder[g]]
     /\ DropClosed
     /\ ready' = ready \ {f, private[t]}
     /\ private' = [private EXCEPT ![t] = 0]
     /\ Down(t)
  /\ UNCHANGED <<tabVars, saveVars, stack, deviceVars, orphans, drawn, app>>

\* A hung-up descriptor polls as readable at once and for ever.  read fails, or
\* returns 0 and leaves errno as it was: only EAGAIN disconnects.
ReadHungUp(f, eagain) ==
  /\ Polling
  /\ f \in hung \ orphans /\ holder[f] # NoTerminal
  /\ IF eagain THEN Disconnect(holder[f])
     ELSE UNCHANGED <<linkVars, keyVars, deviceVars, fdVars, drawn>>
  /\ UNCHANGED <<tabVars, saveVars, stack, app>>

\* contents-changed, once lcrt_create_terminal has connected it: text on the
\* screen counts as a connection.  The default command is fed to a terminal without
\* a child and comes out as "commit", like a key stroke.
Attached(t) == t \in tabs /\ \A i \in 1 .. Len(stack) : stack[i] # Frame("new_page", t)

Receive(t) ==
  /\ Polling /\ Attached(t) /\ drawn[t]
  /\ drawn' = [drawn EXCEPT ![t] = FALSE]
  /\ IF status[t] = CONNECTED THEN UNCHANGED <<linkVars, keyVars, saveVars>>
     ELSE SetConnectedStatus(t)
  /\ app' = IF status[t] # CONNECTED /\ IsCommanded(t) /\ WriteThroughNull(t)
            THEN "segv" ELSE app
  /\ UNCHANGED <<tabVars, stack, deviceVars, fdVars>>

-----------------------------------------------------------------------------
Init ==
  /\ CoreInit
  /\ plugged \in [Users -> BOOLEAN]
  /\ unread = [u \in Users |-> FALSE]
  /\ opened = {} /\ hung = {} /\ orphans = {} /\ ready = {}
  /\ device = [f \in Fds |-> NoUser]
  /\ holder = [f \in Fds |-> NoTerminal]
  /\ private = [t \in Terminals |-> 0]
  /\ drawn = [t \in Terminals |-> FALSE]
  /\ app = "up"

UserStep ==
  \/ \E t \in Terminals, u \in Users : NewTerminal(t, u)
  \/ \E t \in Terminals : Clone(t) \/ Close(t)
  \/ \E t \in Terminals : SelectTab(t) /\ UNCHANGED <<deviceVars, fdVars, drawn, app>>
  \/ PressReturn \/ TypeKey \/ Reconnect \/ DisconnectCurrent
  \/ Loop("reconnect_all", tabs)
  \/ Loop("disconnect_all", {t \in tabs : status[t] = CONNECTED})

DialogStep == CloseNotice \/ CloseNewPage \/ \E ok \in BOOLEAN : AnswerClose(ok)

HandlerStep == ReconnectNext \/ DisconnectNext

WatchStep ==
  \/ \E f \in Fds : ReadFreed(f) \/ ReadInput(f) \/ ReadNothing(f)
  \/ \E f \in Fds, eagain \in BOOLEAN : ReadHungUp(f, eagain)

DeviceStep == \E u \in Users : Plug(u) \/ Pull(u) \/ Arrive(u)

Next ==
  \/ /\ app = "up"
     /\ UserStep \/ DialogStep \/ HandlerStep \/ WatchStep \/ DeviceStep
          \/ \E t \in Terminals : Receive(t)
  \/ app # "up" /\ UNCHANGED vars

Spec == Init /\ [][Next]_vars

-----------------------------------------------------------------------------
(* Properties.                                                             *)
(***************************************************************************)
\* Every variable has its type.
TypeOK ==
  /\ TabType /\ LinkType({DISCONNECT, CONNECTED}) /\ KeyType /\ SaveType
  /\ plugged \in [Users -> BOOLEAN] /\ unread \in [Users -> BOOLEAN]
  /\ opened \subseteq Fds /\ orphans \subseteq opened /\ ready \subseteq opened
  /\ hung \subseteq opened
  /\ device \in [Fds -> Users \cup {NoUser}] /\ holder \in [Fds -> tabs \cup {NoTerminal}]
  /\ private \in [Terminals -> Fds \cup {0}] /\ drawn \in [Terminals -> BOOLEAN]
  /\ stack \in Seq(Frames)
  /\ app \in {"up", "segv", "freed"}

\* The state that all tabs share keeps its shape: types, a Return handler at most
\* once, a current terminal that is open and its buttons, and no handler suspended
\* on a freed terminal.
TabInv ==
  TypeOK /\ OneReturnHandler /\ ToolbarFollowsStatus /\ CurrentIsOpen /\ SuspendedOnOpenTabs

\* What is typed in a tab goes to that tab's device: private_data names an open
\* descriptor of the tab's session, with the tab's own watch - although numbers
\* are reused and other tabs' watches take this tab down.
PortIsItsOwn ==
  \A t \in Terminals :
    LET f == private[t] IN
    f # 0 => f \in opened /\ holder[f] = t /\ device[f] = user[t]

\* A session that goes down ends, and offers Return - whether its device was pulled
\* out, a read found nothing or the user disconnected - unless Reconnect All, which
\* drops it, finds no device.
IsTabSession ==
  /\ SessionsOfTabs!TabSessionSpec
  /\ [][\A t \in Terminals :
          GoesDown(t) => (OffersReturn(t) <=> ~Top("reconnect_all"))]_vars

\* The inductive invariant behind them.  A close is confirmed below every other
\* dialog.  A page whose connect failed does not get the window's current user
\* before its message is closed.  Only open descriptors have a watch, on an open
\* tab or on a freed one and never on both, and only watches are ready.
StackFits(s, open) ==
  /\ s \in Seq(Frames)
  /\ \A i \in 1..Len(s) :
       /\ FrameTerminals(s[i]) \subseteq open
       /\ s[i].kind = "confirm_close" => i = Len(s)

PageWaits(s, page) == \E i \in 1..Len(s) : s[i].kind = "new_page" /\ s[i].term # page

PortsFit ==
  /\ opened \subseteq Fds /\ orphans \subseteq opened /\ hung \subseteq opened
  /\ device \in [Fds -> Users \cup {NoUser}] /\ holder \in [Fds -> tabs \cup {NoTerminal}]
  /\ private \in [Terminals -> Fds \cup {0}]
  /\ \A f \in Fds : holder[f] # NoTerminal => f \in opened \ orphans
  /\ ready \subseteq {f \in opened : holder[f] # NoTerminal \/ f \in orphans}
  /\ PortIsItsOwn

IInv ==
  /\ TypeOK /\ CoreInv
  /\ StackFits(stack, tabs)
  /\ current # NoTerminal /\ ~PageWaits(stack, current) => currentUser = user[current]
  /\ PortsFit

-----------------------------------------------------------------------------
(* What comments say and the code does not keep.                           *)
(***************************************************************************)
\* "A unique id for the input event source": a terminal has one watch.
InputIsUnique == \A t \in tabs : Cardinality(Watches(t)) <= 1

\* "we use it to point to struct lcrt_terminal": the struct exists when the
\* watch is dispatched.
WatchHasItsTerminal == app # "freed"

\* "the callback to write data to serial port": it finds the port.
WriteFindsItsPort == app # "segv"

\* "connected with remote": a tab that shows a connection has a device.
ConnectedWithRemote == \A t \in tabs : status[t] = CONNECTED => private[t] # 0

\* "serial device may be pull out" is what EAGAIN is taken for: a read finds
\* nothing only when its device is gone.
EmptyReadMeansPulled == \A f \in Fds : FindsNothing(f) => ~plugged[device[f]]

=============================================================================

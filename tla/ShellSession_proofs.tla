------------------------- MODULE ShellSession_proofs -------------------------
(***************************************************************************)
(* Proofs about ShellSession for any number of tabs and session records.   *)
(***************************************************************************)
EXTENDS ShellSession, TerminalCore_proofs, SequenceTheorems

ShellStatus == {DISCONNECT, CONNECTED, CHILD_EXIT}

LEMMA ShellStatusIn ==
  DISCONNECT \in ShellStatus /\ CONNECTED \in ShellStatus /\ CHILD_EXIT \in ShellStatus
BY DEF ShellStatus

(***************************************************************************)
(* The stack of suspended handlers.                                        *)
(***************************************************************************)
OnOpenTabs(s, open) ==
  s \in Seq(Frames) /\ \A i \in 1..Len(s) : FrameTerminals(s[i]) \subseteq open

LEMMA FramesPush ==
  ASSUME NEW open, NEW s, OnOpenTabs(s, open), NEW f \in Frames, FrameTerminals(f) \subseteq open
  PROVE  OnOpenTabs(<<f>> \o s, open)
<1> DEFINE r == <<f>> \o s
<1>1. <<f>> \in Seq(Frames) /\ Len(<<f>>) = 1 /\ <<f>>[1] = f /\ s \in Seq(Frames)
  BY DEF OnOpenTabs
<1>2. /\ r \in Seq(Frames) /\ Len(s) \in Nat /\ Len(r) = Len(s) + 1
      /\ \A i \in 1..Len(r) : r[i] = IF i = 1 THEN f ELSE s[i - 1]
  BY <1>1, ConcatProperties, LenProperties
<1>3. ASSUME NEW i \in 1..Len(r) PROVE FrameTerminals(r[i]) \subseteq open
  <2>1. CASE i = 1
    BY <1>2, <2>1
  <2>2. CASE i # 1
    BY <1>2, <2>2 DEF OnOpenTabs
  <2> QED BY <2>1, <2>2
<1> QED BY <1>2, <1>3 DEF OnOpenTabs

LEMMA FramesPop ==
  ASSUME NEW open, NEW s, OnOpenTabs(s, open), s # <<>>
  PROVE  /\ Head(s) \in Frames /\ FrameTerminals(Head(s)) \subseteq open
         /\ OnOpenTabs(Tail(s), open)
<1> DEFINE r == Tail(s)
           f == Head(s)
<1>1. s \in Seq(Frames) /\ Len(s) \in Nat /\ Len(s) # 0
  BY EmptySeq DEF OnOpenTabs
<1>2. /\ f \in Frames /\ f = s[1]
      /\ r \in Seq(Frames) /\ Len(r) = Len(s) - 1
      /\ \A i \in 1..Len(r) : r[i] = s[i + 1]
  BY <1>1, HeadTailProperties
<1> HIDE DEF r, f
<1>3. OnOpenTabs(r, open) /\ FrameTerminals(f) \subseteq open
  BY <1>1, <1>2 DEF OnOpenTabs
<1> QED BY <1>2, <1>3 DEF r, f

LEMMA NoFrames == ASSUME NEW open PROVE OnOpenTabs(<<>>, open)
BY DEF OnOpenTabs

LEMMA FrameIsOn ==
  ASSUME NEW open \in SUBSET Terminals, NEW t \in open, NEW kind \in {"notice", "new_page"}
  PROVE  Frame(kind, t) \in Frames /\ FrameTerminals(Frame(kind, t)) \subseteq open
BY DEF Frame, Frames, FrameTerminals, Loops

LEMMA LoopIsOn ==
  ASSUME NEW open \in SUBSET Terminals, NEW todo \in SUBSET open
  PROVE  LET f == [kind |-> "reconnect_all", todo |-> todo]
         IN  f \in Frames /\ FrameTerminals(f) \subseteq open
BY DEF Frames, FrameTerminals, Loops

-----------------------------------------------------------------------------
(* A step is shown safe in three parts: the shared variables keep their    *)
(* types, KeepsCore, and the pids and processes of the tabs.               *)
(***************************************************************************)
Shared == TabType /\ LinkType(ShellStatus) /\ KeyType /\ SaveType
History == asked \subseteq Terminals /\ strayKill \in BOOLEAN
Process ==
  /\ pid \in [Terminals -> BOOLEAN] /\ child \in [Terminals -> Phases]
  /\ loose \subseteq Terminals
  /\ ConnectedHasShell /\ ShellHasPid

LEMMA InParts == IInv <=> Shared /\ OnOpenTabs(stack, tabs) /\ CoreInv /\ Process /\ History
BY DEF IInv, TypeOK, SuspendedOnOpenTabs, OnOpenTabs, Shared, History, Process, ShellStatus

LEMMA InPartsNext ==
  Shared' /\ OnOpenTabs(stack', tabs') /\ CoreInv' /\ Process' /\ History' => IInv'
BY DEF IInv, TypeOK, SuspendedOnOpenTabs, OnOpenTabs, Shared, History, Process, ShellStatus

Keeps == IInv' /\ KeepsCore

\* lcrt_shell_connect on a tab that is, or has just been, opened.
LEMMA ConnectProcess ==
  ASSUME pid \in [Terminals -> BOOLEAN], child \in [Terminals -> Phases],
         loose \subseteq Terminals, ShellHasPid, ConnectedHasShell, tabs \subseteq tabs',
         NEW t \in Terminals, t \in tabs', NEW found \in BOOLEAN, NEW frame, NEW rest,
         Connect(t, found, frame, rest), History,
         \A n \in Terminals : status'[n] = CONNECTED => status[n] = CONNECTED
  PROVE  Process' /\ History'
<1>1. /\ pid' \in [Terminals -> BOOLEAN] /\ child' \in [Terminals -> Phases]
      /\ \A n \in Terminals \ {t} : pid'[n] = pid[n] /\ child'[n] = child[n]
      /\ child'[t] # "none" => pid'[t]
      /\ child[t] # "none" => child'[t] # "none"
      /\ loose' \subseteq Terminals
  BY DEF Connect, Displace, Phases, ShellHasPid
<1>2. ShellHasPid'
  BY <1>1 DEF ShellHasPid
<1>3. ConnectedHasShell'
  BY <1>1 DEF ConnectedHasShell
<1> QED BY <1>1, <1>2, <1>3 DEF Process, History, Connect

\* Steps that leave the processes alone and connect nothing.
LEMMA SameProcess ==
  ASSUME Process, UNCHANGED <<tabs, procVars>>,
         \A n \in Terminals : status'[n] = CONNECTED => status[n] = CONNECTED
  PROVE  Process'
BY DEF Process, procVars, ConnectedHasShell, ShellHasPid

LEMMA SameShared ==
  ASSUME Shared, UNCHANGED <<tabVars, linkVars, keyVars, saveVars>>
  PROVE  Shared'
BY DEF Shared, tabVars, linkVars, keyVars, saveVars, TabType, LinkType, KeyType, SaveType

\* The frame a connect leaves above the others.
LEMMA ConnectStack ==
  ASSUME NEW open \in SUBSET Terminals, NEW t \in open, NEW kind \in {"notice", "new_page"},
         NEW found, NEW rest, OnOpenTabs(rest, open), Connect(t, found, Frame(kind, t), rest)
  PROVE  OnOpenTabs(stack', open)
<1>1. CASE found
  BY <1>1 DEF Connect
<1>2. CASE ~found
  BY <1>2, FrameIsOn, FramesPush DEF Connect
<1> QED BY <1>1, <1>2

-----------------------------------------------------------------------------
(* The steps.                                                              *)
(***************************************************************************)
LEMMA NewTerminalKeeps ==
  ASSUME IInv, NEW t \in Terminals, NEW u \in Users, NewTerminal(t, u)
  PROVE  Keeps
<1> USE InParts
<1>1. PICK found \in FoundChoices :
        /\ Connect(t, found, Frame("new_page", t), stack)
        /\ IF found \/ tabs = {} THEN SwitchPage(t, DISCONNECT)
           ELSE current' = current /\ currentUser' = u /\ UNCHANGED toolbar
  BY DEF NewTerminal
<1>2. NewPage(t, u) /\ stack = <<>> /\ found \in BOOLEAN
  BY ShellAssumption DEF NewTerminal, Idle
<1>3. Shared' /\ t \in tabs' /\ tabs \subseteq tabs'
  BY <1>1, <1>2, NewPageType, ShellStatusIn DEF Shared, NewPage, NewPageWith
<1>4. KeepsCore
  BY <1>1, <1>2, CoreNewPage DEF Shared
<1>5. Process' /\ History'
  <2>1. \A n \in Terminals : status'[n] = CONNECTED => status[n] = CONNECTED
    BY <1>2 DEF NewPage, NewPageWith, Shared, LinkType, DISCONNECT, CONNECTED
  <2> QED BY <1>1, <1>2, <1>3, <2>1, ConnectProcess DEF Process
<1>6. OnOpenTabs(stack', tabs')
  BY <1>1, <1>2, <1>3, ConnectStack, NoFrames DEF Shared, TabType
<1> QED BY <1>3, <1>4, <1>5, <1>6, InPartsNext DEF Keeps, KeepsCore

LEMMA ConnectCurrentKeeps ==
  ASSUME IInv, current # NoTerminal, ConnectCurrent
  PROVE  Keeps
<1>0. Shared /\ Process /\ History /\ CoreInv /\ OnOpenTabs(stack, tabs)
  BY InParts
<1>1. PICK found \in FoundChoices : Connect(current, found, Frame("notice", current), stack)
  BY DEF ConnectCurrent
<1>2. /\ current \in tabs /\ tabs \in SUBSET Terminals /\ found \in BOOLEAN
      /\ UNCHANGED <<tabs, status>>
  BY <1>0, ShellAssumption DEF Shared, TabType, ConnectCurrent, tabVars, linkVars
<1>3. Shared' /\ KeepsCore
  BY <1>0, SameShared, CoreStutter DEF ConnectCurrent, tabVars, linkVars
<1>4. Process' /\ History'
  BY <1>0, <1>1, <1>2, ConnectProcess DEF Process
<1>5. OnOpenTabs(stack', tabs')
  BY <1>0, <1>1, <1>2, ConnectStack
<1> QED BY <1>3, <1>4, <1>5, InPartsNext DEF Keeps, KeepsCore

\* A step that only opens or closes a dialog, or notes what was asked for.
LEMMA QuietKeeps ==
  ASSUME IInv, UNCHANGED <<tabVars, linkVars, keyVars, saveVars, procVars, strayKill>>,
         asked' \subseteq Terminals, OnOpenTabs(stack', tabs)
  PROVE  Keeps
<1>0. Shared /\ Process /\ History /\ CoreInv
  BY InParts
<1>1. Shared' /\ KeepsCore
  BY <1>0, SameShared, CoreStutter DEF tabVars, linkVars
<1>2. Process' /\ History'
  BY <1>0, SameProcess DEF History, tabVars, linkVars
<1>3. OnOpenTabs(stack', tabs')
  BY DEF tabVars
<1> QED BY <1>1, <1>2, <1>3, InPartsNext DEF Keeps, KeepsCore

LEMMA CloseKeeps ==
  ASSUME IInv, NEW t \in Terminals, Close(t)
  PROVE  Keeps
<1>0. Shared /\ Process /\ History /\ CoreInv
  BY InParts
<1>1. t \in tabs /\ DestroyPage(t) /\ stack' = <<>>
  BY DEF Close, Idle
<1>2. Shared' /\ KeepsCore
  BY <1>0, <1>1, DestroyPageType, CoreDestroy, ShellStatusIn DEF Shared
<1>3. /\ tabs' = tabs \ {t} /\ status'[t] = DISCONNECT
      /\ \A n \in Terminals \ {t} : status'[n] = status[n]
  BY <1>0, <1>1 DEF DestroyPage, Shared, LinkType
<1>4. /\ pid' \in [Terminals -> BOOLEAN] /\ child' \in [Terminals -> Phases]
      /\ child'[t] = "none" /\ loose' \subseteq Terminals
      /\ \A n \in Terminals \ {t} : child'[n] = child[n] /\ pid'[n] = pid[n]
  BY <1>0 DEF Close, Process, Phases
<1>5. Process'
  BY <1>0, <1>3, <1>4
  DEF Process, ConnectedHasShell, ShellHasPid, DISCONNECT, CONNECTED
<1>6. History'
  <2>1. strayKill' \in BOOLEAN /\ asked' \subseteq Terminals
    BY <1>0 DEF Close, History, Process
  <2> QED BY <2>1 DEF History
<1> QED BY <1>1, <1>2, <1>5, <1>6, NoFrames, InPartsNext DEF Keeps, KeepsCore

LEMMA SelectTabKeeps ==
  ASSUME IInv, NEW t \in Terminals, SelectTab(t), UNCHANGED <<procVars, histVars>>
  PROVE  Keeps
<1>0. Shared /\ Process /\ History /\ CoreInv
  BY InParts
<1>1. t \in tabs /\ SwitchPage(t, status[t]) /\ UNCHANGED <<tabs, user, status, keyVars, saveVars, stack>>
  BY DEF SelectTab
<1>2. Shared'
  BY <1>0, <1>1, SwitchPageType DEF Shared, KeyType, SaveType, keyVars, saveVars
<1>3. KeepsCore
  BY <1>0, <1>1, CoreSwitch DEF Shared
<1>4. Process' /\ History'
  BY <1>0, <1>1, SameProcess DEF History, histVars
<1>5. OnOpenTabs(stack', tabs')
  BY <1>1, InParts
<1> QED BY <1>2, <1>3, <1>4, <1>5, InPartsNext DEF Keeps, KeepsCore

LEMMA UserStepKeeps == IInv /\ UserStep => Keeps
<1> SUFFICES ASSUME IInv, UserStep PROVE Keeps
  OBVIOUS
<1>0. /\ OnOpenTabs(stack, tabs) /\ asked \subseteq Terminals
      /\ tabs \in SUBSET Terminals /\ current \in tabs \cup {NoTerminal}
      /\ \A t \in tabs : user[t] \in Users
  BY InParts DEF Shared, TabType, History
<1>1. ASSUME NEW t \in Terminals, NEW u \in Users, NewTerminal(t, u) PROVE Keeps
  BY <1>1, NewTerminalKeeps
<1>2. ASSUME NEW t \in Terminals, Clone(t) PROVE Keeps
  BY <1>0, <1>2, NewTerminalKeeps DEF Clone
<1>3. ASSUME NEW t \in Terminals, Close(t) PROVE Keeps
  BY <1>3, CloseKeeps
<1>4. ASSUME NEW t \in Terminals, SelectTab(t), UNCHANGED <<procVars, histVars>> PROVE Keeps
  BY <1>4, SelectTabKeeps
<1>5. CASE PressReturn \/ Reconnect
  BY <1>5, ConnectCurrentKeeps DEF PressReturn, Reconnect
<1>6. CASE ReconnectAll
  <2> DEFINE f == [kind |-> "reconnect_all", todo |-> tabs]
  <2>1. f \in Frames /\ FrameTerminals(f) \subseteq tabs
    BY <1>0, LoopIsOn
  <2>2. stack' = <<f>> \o stack
    BY <1>6 DEF ReconnectAll, Push
  <2> HIDE DEF f
  <2>3. OnOpenTabs(stack', tabs)
    BY <1>0, <2>1, <2>2, FramesPush
  <2> QED BY <1>0, <1>6, <2>3, QuietKeeps DEF ReconnectAll, histVars
<1>7. ASSUME NEW S \in SUBSET Terminals, Disconnect(S) PROVE Keeps
  BY <1>0, <1>7, QuietKeeps DEF Disconnect, coreVars
<1>8. CASE DisconnectCurrent \/ DisconnectAll
  <2>1. {t \in tabs : status[t] = CONNECTED} \in SUBSET Terminals
    BY <1>0
  <2>2. current # NoTerminal => {current} \in SUBSET Terminals
    BY <1>0
  <2> QED BY <1>7, <1>8, <2>1, <2>2 DEF DisconnectCurrent, DisconnectAll
<1> QED BY <1>1, <1>2, <1>3, <1>4, <1>5, <1>6, <1>8 DEF UserStep

\* Reconnect All goes on with the next tab.
LEMMA ReconnectNextKeeps == IInv /\ ReconnectNext => Keeps
<1> SUFFICES ASSUME IInv, ReconnectNext PROVE Keeps
  OBVIOUS
<1> DEFINE f == Head(stack)
           loop(left) == [kind |-> "reconnect_all", todo |-> left]
           then(left) == IF left = {} THEN Tail(stack) ELSE <<loop(left)>> \o Tail(stack)
<1>0. Shared /\ Process /\ History /\ CoreInv /\ OnOpenTabs(stack, tabs) /\ tabs \in SUBSET Terminals
  BY InParts DEF Shared, TabType
<1>1. /\ f.kind = "reconnect_all" /\ f.todo \in SUBSET tabs
      /\ OnOpenTabs(Tail(stack), tabs)
  BY <1>0, FramesPop DEF ReconnectNext, Top, FrameTerminals, Loops
<1>2. PICK t \in f.todo, found \in FoundChoices :
        SetStatus(t, DISCONNECT) /\ Connect(t, found, Frame("notice", t), then(f.todo \ {t}))
  BY DEF ReconnectNext
<1>3. UNCHANGED <<tabVars, keyVars, saveVars>>
  BY DEF ReconnectNext
<1>4. t \in tabs /\ t \in Terminals /\ found \in BOOLEAN /\ UNCHANGED <<tabs, current>>
  BY <1>0, <1>1, <1>3, ShellAssumption DEF tabVars
<1>5. OnOpenTabs(then(f.todo \ {t}), tabs)
  <2> DEFINE left == f.todo \ {t}
  <2>1. loop(left) \in Frames /\ FrameTerminals(loop(left)) \subseteq tabs
    BY <1>0, <1>1, LoopIsOn
  <2> HIDE DEF left, loop
  <2>2. OnOpenTabs(<<loop(left)>> \o Tail(stack), tabs)
    BY <1>1, <2>1, FramesPush
  <2> QED BY <1>1, <2>2 DEF left
<1> HIDE DEF then, f
<1>6. Shared'
  BY <1>0, <1>2, <1>3, <1>4, SetStatusType, ShellStatusIn
  DEF Shared, tabVars, keyVars, saveVars, TabType, KeyType, SaveType
<1>7. KeepsCore
  BY <1>0, <1>2, <1>3, <1>4, CoreSetStatus, ShellStatusIn DEF Shared, DISCONNECT, CONNECTED
<1>8. Process' /\ History'
  <2>1. \A n \in Terminals : status'[n] = CONNECTED => status[n] = CONNECTED
    BY <1>0, <1>2 DEF SetStatus, Shared, LinkType, DISCONNECT, CONNECTED
  <2> QED BY <1>0, <1>2, <1>4, <2>1, ConnectProcess DEF Process
<1>9. OnOpenTabs(stack', tabs')
  BY <1>0, <1>2, <1>4, <1>5, ConnectStack
<1> QED BY <1>6, <1>7, <1>8, <1>9, InPartsNext DEF Keeps, KeepsCore

LEMMA DialogStepKeeps == IInv /\ DialogStep => Keeps
<1> SUFFICES ASSUME IInv, DialogStep PROVE Keeps
  OBVIOUS
<1> DEFINE f == Head(stack)
<1>0. Shared /\ Process /\ History /\ CoreInv /\ OnOpenTabs(stack, tabs)
  BY InParts
<1>1. /\ OnOpenTabs(Tail(stack), tabs) /\ FrameTerminals(f) \subseteq tabs /\ stack' = Tail(stack)
  BY <1>0, FramesPop DEF DialogStep, CloseNotice, CloseNewPage, Top, Pop
<1>2. CASE CloseNotice
  BY <1>0, <1>1, <1>2, QuietKeeps DEF CloseNotice, histVars, History
<1>3. CASE CloseNewPage
  <2>0. /\ f.kind = "new_page" /\ UNCHANGED <<tabs, user, status, keyVars, saveVars, procVars, histVars>>
        /\ \/ UNCHANGED <<current, currentUser, toolbar>>
           \/ SwitchPage(f.term, status[f.term])
    BY <1>3 DEF CloseNewPage, Top
  <2>1. f.term \in tabs
    BY <1>1, <2>0 DEF FrameTerminals, Loops
  <2> HIDE DEF f
  <2>2. CASE UNCHANGED <<current, currentUser, toolbar>>
    BY <1>0, <1>1, <2>0, <2>2, QuietKeeps DEF histVars, History, tabVars, linkVars
  <2>3. CASE SwitchPage(f.term, status[f.term])
    <3>1. Shared' /\ KeepsCore
      BY <1>0, <2>0, <2>1, <2>3, SwitchPageType, CoreSwitch
      DEF Shared, KeyType, SaveType, keyVars, saveVars
    <3>2. Process' /\ History'
      BY <1>0, <2>0, SameProcess DEF History, histVars
    <3> QED BY <1>1, <2>0, <3>1, <3>2, InPartsNext DEF Keeps, KeepsCore
  <2> QED BY <2>0, <2>2, <2>3
<1> QED BY <1>2, <1>3 DEF DialogStep

LEMMA ChildStepKeeps == IInv /\ ChildStep => Keeps
<1> SUFFICES ASSUME IInv, NEW t \in Terminals,
                    Receive(t) \/ Die(t) \/ LooseDies(t) \/ ChildExited(t)
             PROVE  Keeps
  BY DEF ChildStep
<1>0. Shared /\ Process /\ History /\ CoreInv /\ OnOpenTabs(stack, tabs)
  BY InParts
<1>6. CASE LooseDies(t)
  <2>1. /\ UNCHANGED <<tabVars, linkVars, keyVars, saveVars, stack, pid, child, histVars>>
        /\ loose' \subseteq Terminals
    BY <1>0, <1>6 DEF LooseDies, coreVars, Process
  <2>2. Shared' /\ KeepsCore
    BY <1>0, <2>1, SameShared, CoreStutter DEF tabVars, linkVars
  <2>3. Process' /\ History' /\ OnOpenTabs(stack', tabs')
    BY <1>0, <2>1
    DEF Process, History, histVars, ConnectedHasShell, ShellHasPid, tabVars, linkVars
  <2> QED BY <2>2, <2>3, InPartsNext DEF Keeps, KeepsCore
<1> SUFFICES ASSUME Receive(t) \/ Die(t) \/ ChildExited(t) PROVE Keeps
  BY <1>6
<1>1. /\ t \in tabs /\ UNCHANGED <<tabVars, tabs, stack, loose, histVars>>
      /\ child' \in [Terminals -> Phases]
      /\ \A n \in Terminals \ {t} : child'[n] = child[n]
  BY <1>0 DEF Receive, Die, ChildExited, coreVars, tabVars, Process, Phases, ShellHasPid
<1>2. History' /\ OnOpenTabs(stack', tabs')
  BY <1>0, <1>1 DEF History, histVars
<1>3. CASE Receive(t)
  <2>1. UNCHANGED pid /\ child[t] = "runs" /\ child'[t] # "none"
    BY <1>0, <1>3 DEF Receive, Process
  <2>2. CASE UNCHANGED <<linkVars, keyVars, saveVars>>
    <3>1. Shared' /\ KeepsCore
      BY <1>0, <1>1, <2>2, SameShared, CoreStutter DEF tabVars, linkVars
    <3>2. Process'
      BY <1>0, <1>1, <2>1, <2>2 DEF Process, ConnectedHasShell, ShellHasPid, linkVars
    <3> QED BY <1>2, <3>1, <3>2, InPartsNext DEF Keeps, KeepsCore
  <2>3. CASE SetConnectedStatus(t)
    <3>1. Shared'
      <4>1. LinkType(ShellStatus)' /\ KeyType' /\ SaveType'
        BY <1>0, <2>3, SetConnectedType, ShellStatusIn DEF Shared, TabType
      <4> QED BY <1>0, <1>1, <4>1 DEF Shared, TabType, tabVars
    <3>2. KeepsCore
      BY <1>0, <1>1, <2>3, CoreConnected DEF Shared
    <3>3. \A n \in Terminals \ {t} : status'[n] = status[n]
      BY <1>0, <2>3 DEF SetConnectedStatus, SetStatus, Shared, LinkType
    <3>4. Process'
      BY <1>0, <1>1, <2>1, <3>3 DEF Process, ConnectedHasShell, ShellHasPid
    <3> QED BY <1>2, <3>1, <3>2, <3>4, InPartsNext DEF Keeps, KeepsCore
  <2> QED BY <1>3, <2>2, <2>3 DEF Receive
<1>4. CASE Die(t)
  <2>1. /\ UNCHANGED <<tabVars, linkVars, keyVars, saveVars, pid>>
        /\ child[t] # "none" /\ child'[t] # "none"
    BY <1>0, <1>4 DEF Die, coreVars, Process
  <2>2. Shared' /\ KeepsCore
    BY <1>0, <2>1, SameShared, CoreStutter DEF tabVars, linkVars
  <2>3. Process'
    BY <1>0, <1>1, <2>1 DEF Process, ConnectedHasShell, ShellHasPid, linkVars
  <2> QED BY <1>2, <2>2, <2>3, InPartsNext DEF Keeps, KeepsCore
<1>5. CASE ChildExited(t)
  <2>1. child'[t] = "none"
    BY <1>0, <1>5 DEF ChildExited, Process
  <2>2. CASE status[t] = CONNECTED /\ pid' = [pid EXCEPT ![t] = FALSE] /\ ArmReturnKey(t)
    <3>1. Shared'
      <4>1. LinkType(ShellStatus)' /\ KeyType'
        BY <1>0, <2>2, ArmReturnKeyType, ShellStatusIn DEF Shared
      <4> QED BY <1>0, <1>1, <1>5, <4>1
              DEF Shared, TabType, SaveType, tabVars, saveVars, ChildExited
    <3>2. KeepsCore
      BY <1>0, <1>1, <2>2, CoreArm DEF Shared
    <3>3. /\ status'[t] # CONNECTED
          /\ \A n \in Terminals \ {t} : status'[n] = status[n] /\ pid'[n] = pid[n]
          /\ pid' \in [Terminals -> BOOLEAN]
      BY <1>0, <2>2
      DEF ArmReturnKey, SetStatus, Shared, LinkType, Process, CHILD_EXIT, CONNECTED
    <3>4. Process'
      BY <1>0, <1>1, <2>1, <3>3 DEF Process, ConnectedHasShell, ShellHasPid
    <3> QED BY <1>2, <3>1, <3>2, <3>4, InPartsNext DEF Keeps, KeepsCore
  <2>3. CASE status[t] # CONNECTED /\ UNCHANGED <<pid, linkVars, keyVars>>
    <3>1. Shared' /\ KeepsCore
      BY <1>0, <1>1, <1>5, <2>3, SameShared, CoreStutter DEF ChildExited, tabVars, linkVars
    <3>2. Process'
      BY <1>0, <1>1, <2>1, <2>3
      DEF Process, ConnectedHasShell, ShellHasPid, linkVars
    <3> QED BY <1>2, <3>1, <3>2, InPartsNext DEF Keeps, KeepsCore
  <2> QED BY <1>5, <2>2, <2>3 DEF ChildExited
<1> QED BY <1>3, <1>4, <1>5

LEMMA ShellInit == Init => IInv
<1> SUFFICES ASSUME Init PROVE IInv
  OBVIOUS
<1> USE DEF Init, CoreInit
<1>1. Shared
  <2>1. TabType
    BY DEF TabType
  <2>2. LinkType(ShellStatus)
    BY ShellStatusIn, ButtonsType DEF LinkType
  <2>3. KeyType /\ SaveType
    BY DEF KeyType, SaveType
  <2> QED BY <2>1, <2>2, <2>3 DEF Shared
<1>3. CoreInv
  BY DEF CoreInv, OneReturnHandler, ToolbarFollowsStatus, HasCurrent, ClosedTabsAreQuiet,
         DISCONNECT, CONNECTED
<1>2. Process /\ History
  <2>1. ConnectedHasShell /\ ShellHasPid
    BY DEF ConnectedHasShell, ShellHasPid, DISCONNECT, CONNECTED
  <2>2. pid \in [Terminals -> BOOLEAN] /\ child \in [Terminals -> Phases]
    BY Zenon DEF Phases
  <2>3. History
    BY DEF History
  <2> QED BY <2>1, <2>2, <2>3 DEF Process
<1> QED BY <1>1, <1>2, <1>3, NoFrames, InParts

LEMMA ShellNext == IInv /\ [Next]_vars => Keeps
<1>1. ASSUME IInv, UNCHANGED vars PROVE Keeps
  BY <1>1, QuietKeeps, InParts DEF vars, coreVars, histVars, History
<1> QED BY <1>1, UserStepKeeps, ReconnectNextKeeps, DialogStepKeeps, ChildStepKeeps DEF Next

\* The inductive invariant, whatever the number of tabs and records.
THEOREM ShellInvariant == Spec => []IInv
<1>1. IInv /\ [Next]_vars => IInv'
  BY ShellNext DEF Keeps
<1> QED BY <1>1, ShellInit, PTL DEF Spec

\* A tab that shows a session has a shell, or one whose exit is still to be
\* delivered.
THEOREM ShellEndsAreSeen == Spec => []ConnectedHasShell
<1>1. IInv => ConnectedHasShell
  BY DEF IInv
<1> QED BY <1>1, ShellInvariant, PTL

-----------------------------------------------------------------------------
(* Shells in hand.                                                         *)
(***************************************************************************)
\* What a fork loosens: the shell of an open tab, whose session is not shown unless
\* Reconnect All is under way.
InHand(t) == t \in tabs' /\ (status[t] = CONNECTED => Top("reconnect_all"))

LEMMA ForkLoosens ==
  ASSUME IInv, NEW t \in Terminals, NEW found, NEW frame, NEW rest,
         Connect(t, found, frame, rest), tabs \subseteq tabs',
         status[t] = CONNECTED => Top("reconnect_all")
  PROVE  \A n \in loose' \ loose : InHand(n)
<1>1. child[t] = "runs" => t \in tabs
  BY InParts DEF Process, ShellHasPid
<1>2. \A n \in loose' \ loose : n = t /\ child[t] = "runs"
  BY DEF Connect, Displace
<1> QED BY <1>1, <1>2 DEF InHand

LEMMA UserStepInHand == IInv /\ UserStep => \A n \in loose' \ loose : InHand(n)
<1> SUFFICES ASSUME IInv, UserStep PROVE \A n \in loose' \ loose : InHand(n)
  OBVIOUS
<1>0. /\ \A n \in Terminals : status[n] = CONNECTED => n \in tabs /\ keyHandlers[n] = 0
      /\ current \in Terminals \cup {NoTerminal} /\ DISCONNECT # CONNECTED /\ CHILD_EXIT # CONNECTED
      /\ \A n \in Terminals : child[n] = "runs" => pid[n]
  BY InParts DEF CoreInv, OneReturnHandler, ClosedTabsAreQuiet, Shared, TabType, Process,
                 ShellHasPid, DISCONNECT, CONNECTED, CHILD_EXIT
<1>1. ASSUME NEW t \in Terminals, NEW u, NewTerminal(t, u)
      PROVE  \A n \in loose' \ loose : InHand(n)
  <2>1. t \notin tabs /\ tabs \subseteq tabs'
    BY <1>1 DEF NewTerminal, NewPage, NewPageWith
  <2> QED BY <1>0, <1>1, <2>1, ForkLoosens DEF NewTerminal
<1>2. ASSUME NEW t \in Terminals, Clone(t) PROVE \A n \in loose' \ loose : InHand(n)
  BY <1>1, <1>2 DEF Clone
<1>3. ASSUME NEW t \in Terminals, Close(t) PROVE \A n \in loose' \ loose : InHand(n)
  BY <1>0, <1>3 DEF Close
<1>4. ASSUME UNCHANGED loose PROVE \A n \in loose' \ loose : InHand(n)
  BY <1>4
<1>5. CASE PressReturn \/ Reconnect
  <2>1. /\ current \in Terminals /\ status[current] # CONNECTED /\ tabs' = tabs
        /\ \E found \in FoundChoices : Connect(current, found, Frame("notice", current), stack)
    BY <1>0, <1>5 DEF PressReturn, Reconnect, ConnectCurrent, tabVars
  <2> QED BY <2>1, ForkLoosens
<1>6. CASE \/ \E t \in Terminals : SelectTab(t) /\ UNCHANGED <<procVars, histVars>>
           \/ ReconnectAll \/ DisconnectCurrent \/ DisconnectAll
  <2>1. UNCHANGED loose
    BY <1>6 DEF procVars, ReconnectAll, DisconnectCurrent, DisconnectAll, Disconnect
  <2> QED BY <1>4, <2>1
<1> QED BY <1>1, <1>2, <1>3, <1>5, <1>6 DEF UserStep

LEMMA NextInHand == IInv /\ [Next]_vars => \A n \in loose' \ loose : InHand(n)
<1> SUFFICES ASSUME IInv, [Next]_vars PROVE \A n \in loose' \ loose : InHand(n)
  OBVIOUS
<1>1. CASE ReconnectNext
  <2>1. /\ Top("reconnect_all") /\ tabs' = tabs /\ Head(stack).todo \subseteq Terminals
        /\ \E t \in Head(stack).todo : \E found, frame, rest : Connect(t, found, frame, rest)
    <3>1. Top("reconnect_all") /\ tabs' = tabs
      BY <1>1 DEF ReconnectNext, tabVars
    <3>2. FrameTerminals(Head(stack)) \subseteq tabs /\ tabs \subseteq Terminals
      BY <3>1, InParts, FramesPop DEF Top, Shared, TabType
    <3> QED BY <1>1, <3>1, <3>2 DEF ReconnectNext, Top, FrameTerminals, Loops
  <2> QED BY <2>1, ForkLoosens
<1>2. CASE DialogStep \/ ChildStep \/ UNCHANGED vars
  <2>1. loose' \subseteq loose
    BY <1>2 DEF DialogStep, CloseNotice, CloseNewPage, ChildStep, Receive, Die, LooseDies,
                ChildExited, procVars, vars
  <2> QED BY <2>1
<1> QED BY <1>1, <1>2, UserStepInHand DEF Next

\* Closing a tab leaves no shell, and a session that is shown is displaced only by
\* Reconnect All.
THEOREM ShellsAreKeptInHand == Spec => ShellsStayInHand
<1>1. IInv /\ [Next]_vars =>
        [\A t \in loose' \ loose :
           t \in tabs' /\ (status[t] = CONNECTED => Top("reconnect_all"))]_vars
  BY NextInHand DEF InHand
<1> QED BY <1>1, ShellInvariant, PTL DEF Spec, ShellsStayInHand

-----------------------------------------------------------------------------
(* What ends a session.                                                    *)
(***************************************************************************)
\* Only the exit of a shell connects the Return handler.
LEMMA OthersOffer ==
  ASSUME IInv, [Next]_vars, \A t \in Terminals : ~ChildExited(t)
  PROVE  NothingOffered
<1>0. KeyType /\ current \in Terminals \cup {NoTerminal}
  BY InParts DEF Shared, TabType
<1>1. CASE UserStep
  <2>1. ASSUME NEW t \in Terminals, Close(t) PROVE NothingOffered
    BY <1>0, <2>1, DestroyOffers DEF Close
  <2>2. CASE ~\E t \in Terminals : Close(t)
    BY <1>1, <2>2, KeysOffer
    DEF UserStep, NewTerminal, Clone, NewPage, SelectTab, PressReturn, Reconnect, ConnectCurrent,
        ReconnectAll, DisconnectCurrent, DisconnectAll, Disconnect, coreVars
  <2> QED BY <2>1, <2>2
<1>2. CASE DialogStep \/ ReconnectNext \/ UNCHANGED vars
  BY <1>2, KeysOffer DEF DialogStep, CloseNotice, CloseNewPage, ReconnectNext, vars, coreVars
<1>3. ASSUME NEW t \in Terminals, Receive(t) PROVE NothingOffered
  BY <1>0, <1>3, KeysOffer, ConnectedOffers DEF Receive
<1>4. ASSUME NEW t \in Terminals, Die(t) \/ LooseDies(t) PROVE NothingOffered
  BY <1>4, KeysOffer DEF Die, LooseDies, coreVars
<1> QED BY <1>1, <1>2, <1>3, <1>4 DEF Next, ChildStep

LEMMA ExitsOffer ==
  IInv /\ [Next]_vars =>
    \A t \in Terminals : OffersReturn(t) <=> status[t] = CONNECTED /\ ChildExited(t)
<1> SUFFICES ASSUME IInv, [Next]_vars
             PROVE  \A t \in Terminals : OffersReturn(t) <=> status[t] = CONNECTED /\ ChildExited(t)
  OBVIOUS
<1>0. KeyType /\ TabsInv /\ child \in [Terminals -> Phases]
  BY InParts, CoreParts DEF Shared, Process
<1>1. ASSUME NEW n \in Terminals, ChildExited(n)
      PROVE  \A t \in Terminals : OffersReturn(t) <=> status[t] = CONNECTED /\ ChildExited(t)
  <2>1. \A t \in Terminals : ChildExited(t) => t = n
    <3>1. ASSUME NEW t \in Terminals, ChildExited(t), t # n PROVE FALSE
      <4>1. child'[t] = "none" /\ child[t] = "dead" /\ child' = [child EXCEPT ![n] = "none"]
        BY <1>0, <1>1, <3>1 DEF ChildExited
      <4> QED BY <1>0, <3>1, <4>1
    <3> QED BY <3>1
  <2>2. CASE status[n] = CONNECTED
    <3>1. ArmReturnKey(n)
      BY <1>1, <2>2 DEF ChildExited
    <3> QED BY <1>0, <1>1, <2>1, <2>2, <3>1, ArmOffers
  <2>3. CASE status[n] # CONNECTED
    <3>1. UNCHANGED keyVars
      BY <1>1, <2>3 DEF ChildExited
    <3> QED BY <2>1, <2>3, <3>1 DEF OffersReturn, keyVars
  <2> QED BY <2>2, <2>3
<1>2. CASE \A n \in Terminals : ~ChildExited(n)
  BY <1>2, OthersOffer DEF NothingOffered, OffersReturn
<1> QED BY <1>1, <1>2

\* Shell tabs implement TabSession, and a session ends by the exit of its shell.
THEOREM ShellImplementsTabSession == Spec => IsTabSession
<1>1. Init => SessionsOfTabs!TabSessionInit
  BY DEF Init, CoreInit, SessionsOfTabs!TabSessionInit, DISCONNECT, CONNECTED
<1>2. IInv /\ [Next]_vars => [SessionsOfTabs!TabSessionNext]_SessionsOfTabs!tabSessionVars
  BY ShellNext DEF Keeps, KeepsCore, TabStep
<1>3. IInv /\ [Next]_vars =>
        [\A t \in Terminals : OffersReturn(t) <=> status[t] = CONNECTED /\ ChildExited(t)]_vars
  BY ExitsOffer
<1> QED BY <1>1, <1>2, <1>3, ShellInvariant, PTL
        DEF Spec, IsTabSession, SessionsOfTabs!TabSessionSpec
=============================================================================

------------------------- MODULE TelnetSession_proofs -------------------------
(***************************************************************************)
(* Proofs about TelnetSession for any number of tabs, session records and  *)
(* dialogs up at once.                                                     *)
(***************************************************************************)
EXTENDS TelnetSession, TerminalCore_proofs, SequenceTheorems

(***************************************************************************)
(* The status word.                                                        *)
(***************************************************************************)
LEMMA StatusWords ==
  DISCONNECT \in TelnetStatus /\ CONNECTED \in TelnetStatus /\ CHILD_EXIT \in TelnetStatus
BY DEF DISCONNECT, CONNECTED, CHILD_EXIT, TelnetStatus

\* Or-ing a login bit in stays within the word, keeps the lowest bit, and never
\* makes the word CONNECTED.
LEMMA SetLoginBit ==
  ASSUME NEW w \in TelnetStatus, NEW bit \in {SEND_USERNAME, SEND_PASSWORD}
  PROVE  /\ SetBit(w, bit) \in TelnetStatus
         /\ HasBit(w, CONNECTED) => HasBit(SetBit(w, bit), CONNECTED)
         /\ SetBit(w, bit) = CONNECTED => w = CONNECTED
<1>1. CASE bit = SEND_USERNAME
  BY <1>1 DEF SetBit, HasBit, TelnetStatus, CONNECTED, SEND_USERNAME
<1>2. CASE bit = SEND_PASSWORD
  BY <1>2 DEF SetBit, HasBit, TelnetStatus, CONNECTED, SEND_PASSWORD
<1> QED BY <1>1, <1>2

LEMMA ConnectedHasBit == HasBit(CONNECTED, CONNECTED)
BY DEF HasBit, CONNECTED

LEMMA TwoPictures ==
  /\ \A s : s # CONNECTED => ButtonsFor(s) = ButtonsFor(DISCONNECT)
  /\ ButtonsFor(CONNECTED) = [reconnect |-> FALSE, disconnect |-> TRUE]
  /\ ButtonsFor(DISCONNECT) = [reconnect |-> TRUE, disconnect |-> FALSE]
<1>1. DISCONNECT # CONNECTED
  BY DEF DISCONNECT, CONNECTED
<1>2. \A s : s # CONNECTED => (s # CONNECTED) = TRUE /\ (s = CONNECTED) = FALSE
  BY Zenon
<1>3. (CONNECTED # CONNECTED) = FALSE /\ (CONNECTED = CONNECTED) = TRUE
  BY Zenon
<1>4. \A s : s # CONNECTED => ButtonsFor(s) = [reconnect |-> TRUE, disconnect |-> FALSE]
  BY <1>2, Zenon DEF ButtonsFor
<1>5. ButtonsFor(CONNECTED) = [reconnect |-> FALSE, disconnect |-> TRUE]
  BY <1>3, Zenon DEF ButtonsFor
<1> QED BY <1>1, <1>4, <1>5

-----------------------------------------------------------------------------
(* The stack of suspended handlers.                                        *)
(***************************************************************************)
LEMMA NoFramesFit == \A open, ch : StackFits(<<>>, open, ch)
BY DEF StackFits, AsksIn

\* A dialog goes up: nothing of its tab asks for a password below a login.
LEMMA FitsPush ==
  ASSUME NEW open, NEW ch, NEW s, StackFits(s, open, ch),
         NEW f \in Frames, f.term \in open,
         f.kind = "confirm_close" => s = <<>>,
         IsLogin(f) /\ f.at = "incorrect" => f.text \in {"incorrect", "incorrect_login"},
         IsLogin(f) => ~AsksIn(s, f.term),
         IsLogin(f) /\ f.at = "passwd" => ch[f.term] \in AtPrompt
  PROVE  StackFits(<<f>> \o s, open, ch)
<1> DEFINE r == <<f>> \o s
<1>1. <<f>> \in Seq(Frames) /\ Len(<<f>>) = 1 /\ <<f>>[1] = f /\ s \in Seq(Frames)
  BY DEF StackFits
<1>2. /\ r \in Seq(Frames) /\ Len(s) \in Nat /\ Len(r) = Len(s) + 1
      /\ \A i \in 1..Len(r) : r[i] = IF i = 1 THEN f ELSE s[i - 1]
  BY <1>1, ConcatProperties, LenProperties
<1> HIDE DEF r
<1>3. \A i \in 2..Len(r) : i - 1 \in 1..Len(s) /\ r[i] = s[i - 1]
  BY <1>2
<1>4. s = <<>> => Len(r) = 1
  BY <1>2
<1>5. ASSUME NEW i \in 1..Len(r)
      PROVE  /\ r[i].term \in open
             /\ r[i].kind = "confirm_close" => i = Len(r)
             /\ IsLogin(r[i]) /\ r[i].at = "incorrect"
                  => r[i].text \in {"incorrect", "incorrect_login"}
             /\ IsLogin(r[i]) => \A j \in 1..Len(r) : i < j => ~AsksPassword(r[j], r[i].term)
  <2>1. CASE i = 1
    <3>1. r[i] = f /\ (f.kind = "confirm_close" => i = Len(r))
      BY <1>2, <1>4, <2>1
    <3>2. ASSUME IsLogin(f), NEW j \in 1..Len(r), i < j PROVE ~AsksPassword(r[j], f.term)
      BY <1>2, <1>3, <2>1, <3>2 DEF AsksIn
    <3> QED BY <3>1, <3>2
  <2>2. CASE i # 1
    <3>1. i - 1 \in 1..Len(s) /\ r[i] = s[i - 1] /\ (i - 1 = Len(s) => i = Len(r))
      BY <1>2, <1>3, <2>2
    <3>2. \A j \in 1..Len(r) : i < j => j - 1 \in 1..Len(s) /\ r[j] = s[j - 1] /\ i - 1 < j - 1
      BY <1>2, <1>3, <2>2
    <3> QED BY <3>1, <3>2 DEF StackFits
  <2> QED BY <2>1, <2>2
<1>6. ASSUME NEW t \in Terminals, AsksIn(r, t) PROVE ch[t] \in AtPrompt
  <2>1. PICK i \in 1..Len(r) : AsksPassword(r[i], t)
    BY <1>6 DEF AsksIn
  <2>2. CASE i = 1
    BY <1>2, <2>1, <2>2 DEF AsksPassword
  <2>3. CASE i # 1
    BY <1>2, <1>3, <2>1, <2>3 DEF StackFits, AsksIn
  <2> QED BY <2>2, <2>3
<1>7. StackFits(r, open, ch)
  BY <1>2, <1>5, <1>6 DEF StackFits
<1> QED BY <1>7 DEF r

\* The innermost dialog goes.
LEMMA FitsPop ==
  ASSUME NEW open, NEW ch, NEW s, StackFits(s, open, ch), s # <<>>
  PROVE  LET f == Head(s) IN
         /\ f \in Frames /\ f.term \in open
         /\ f.kind = "confirm_close" => Tail(s) = <<>>
         /\ IsLogin(f) /\ f.at = "incorrect" => f.text \in {"incorrect", "incorrect_login"}
         /\ IsLogin(f) => ~AsksIn(Tail(s), f.term)
         /\ IsLogin(f) /\ f.at = "passwd" /\ f.term \in Terminals => ch[f.term] \in AtPrompt
         /\ StackFits(Tail(s), open, ch)
<1> DEFINE r == Tail(s)
           f == Head(s)
<1>1. s \in Seq(Frames) /\ Len(s) \in Nat /\ Len(s) # 0
  BY EmptySeq DEF StackFits
<1>2. /\ f \in Frames /\ f = s[1]
      /\ r \in Seq(Frames) /\ Len(r) = Len(s) - 1
      /\ \A i \in 1..Len(r) : r[i] = s[i + 1]
  BY <1>1, HeadTailProperties
<1> HIDE DEF r, f
<1>0. Len(r) = 0 => r = <<>>
  BY <1>2, EmptySeq
<1>3. 1 \in 1..Len(s) /\ \A i \in 1..Len(r) : i + 1 \in 1..Len(s) /\ 1 < i + 1
  BY <1>1, <1>2
<1>4. /\ f.term \in open
      /\ f.kind = "confirm_close" => r = <<>>
      /\ IsLogin(f) /\ f.at = "incorrect" => f.text \in {"incorrect", "incorrect_login"}
      /\ IsLogin(f) => ~AsksIn(r, f.term)
      /\ IsLogin(f) /\ f.at = "passwd" /\ f.term \in Terminals => ch[f.term] \in AtPrompt
  BY <1>0, <1>1, <1>2, <1>3 DEF StackFits, AsksIn, AsksPassword
<1>5. StackFits(r, open, ch)
  <2>1. ASSUME NEW i \in 1..Len(r)
        PROVE  /\ r[i].term \in open
               /\ r[i].kind = "confirm_close" => i = Len(r)
               /\ IsLogin(r[i]) /\ r[i].at = "incorrect"
                    => r[i].text \in {"incorrect", "incorrect_login"}
               /\ IsLogin(r[i]) => \A j \in 1..Len(r) : i < j => ~AsksPassword(r[j], r[i].term)
    <3>1. i + 1 \in 1..Len(s) /\ r[i] = s[i + 1] /\ (i + 1 = Len(s) => i = Len(r))
      BY <1>1, <1>2, <1>3
    <3>2. \A j \in 1..Len(r) : i < j => j + 1 \in 1..Len(s) /\ r[j] = s[j + 1] /\ i + 1 < j + 1
      BY <1>2, <1>3
    <3> QED BY <3>1, <3>2 DEF StackFits
  <2>2. \A t : AsksIn(r, t) => AsksIn(s, t)
    BY <1>2, <1>3 DEF AsksIn
  <2> QED BY <1>2, <2>1, <2>2 DEF StackFits
<1> QED BY <1>2, <1>4, <1>5 DEF r, f

\* A process moves on in tab t.
LEMMA FitsChild ==
  ASSUME NEW open, NEW ch, NEW s, StackFits(s, open, ch), NEW t, NEW new,
         \A n \in Terminals \ {t} : new[n] = ch[n],
         AsksIn(s, t) => new[t] \in AtPrompt
  PROVE  StackFits(s, open, new)
BY DEF StackFits

LEMMA FrameFits ==
  ASSUME NEW t \in Terminals
  PROVE  /\ Frame("notice", t) \in Frames /\ Frame("confirm_close", t) \in Frames
         /\ \A at \in {"incorrect", "login", "passwd"}, text \in Texts :
              LoginFrame(t, at, text) \in Frames
BY DEF Frame, LoginFrame, Frames

-----------------------------------------------------------------------------
(* The invariant in parts, and what leaves a part alone.                   *)
(***************************************************************************)
Shared == TabType /\ LinkType(TelnetStatus) /\ KeyType /\ SaveType
Data ==
  /\ named \in [Users -> BOOLEAN] /\ secret \in [Users -> BOOLEAN]
  /\ private \in [Terminals -> BOOLEAN] /\ pid \in [Terminals -> BOOLEAN]
  /\ child \in [Terminals -> Phases]
  /\ app \in {"up", "segv"}
Front == ToolbarForm /\ (current # NoTerminal => currentUser = user[current])

LEMMA InParts ==
  IInv <=> Shared /\ Data /\ TabsInv /\ Front /\ StackFits(stack, tabs, child)
BY DEF IInv, TypeOK, Shared, Data, TabsInv, Front, StackFits

LEMMA InPartsNext ==
  Shared' /\ Data' /\ TabsInv' /\ Front' /\ StackFits(stack', tabs', child') => IInv'
BY DEF IInv, TypeOK, Shared, Data, TabsInv, Front, StackFits

Keeps == IInv' /\ KeepsTabs

LEMMA KeepsFromParts ==
  Shared' /\ Data' /\ KeepsTabs /\ Front' /\ StackFits(stack', tabs', child') => Keeps
BY InPartsNext DEF Keeps, KeepsTabs

LEMMA CurrentIsTab ==
  ASSUME IInv
  PROVE  /\ tabs \in SUBSET Terminals /\ current \in tabs \cup {NoTerminal}
         /\ \A t \in tabs : user[t] \in Users /\ t \in Terminals
BY InParts DEF Shared, TabType

LEMMA FedType == \A p \in Phases : Fed(p) \in Phases
BY DEF Fed, Phases

LEMMA SwitchFront ==
  ASSUME NEW t \in Terminals, SwitchPage(t, status'[t])
  PROVE  Front'
<1>1. current' = t /\ currentUser' = user'[t] /\ toolbar' = ButtonsFor(status'[t])
  BY DEF SwitchPage
<1>2. t # NoTerminal
  BY CoreAssumption
<1>3. \/ toolbar' = ButtonsFor(CONNECTED) /\ HasBit(status'[t], CONNECTED)
      \/ toolbar' = ButtonsFor(DISCONNECT) /\ status'[t] # CONNECTED
  BY <1>1, TwoPictures, ConnectedHasBit
<1> QED BY <1>1, <1>2, <1>3 DEF Front, ToolbarForm

\* A step that leaves the notebook, the status words and the Return keys alone.
LEMMA QuietKeeps ==
  ASSUME IInv, UNCHANGED <<tabVars, linkVars, keyVars>>, SaveType', Data',
         StackFits(stack', tabs, child')
  PROVE  Keeps
<1>0. Shared /\ Front /\ TabsInv
  BY InParts
<1>1. UNCHANGED <<tabs, current, currentUser, user, status, toolbar>>
  BY DEF tabVars, linkVars
<1>2. Shared'
  BY <1>0, <1>1 DEF Shared, keyVars, TabType, LinkType, KeyType
<1>3. KeepsTabs
  BY <1>0, <1>1, TabsStutter
<1>4. Front'
  BY <1>0, <1>1 DEF Front, ToolbarForm
<1>5. StackFits(stack', tabs', child')
  BY <1>1
<1> QED BY <1>2, <1>3, <1>4, <1>5, KeepsFromParts

\* A step outside dialogs has no suspended handler to respect.
LEMMA IdleKeeps ==
  ASSUME IInv, stack = <<>>, UNCHANGED stack, Shared', Data', KeepsTabs, Front'
  PROVE  Keeps
BY NoFramesFit, KeepsFromParts

-----------------------------------------------------------------------------
(* The user's steps.                                                       *)
(***************************************************************************)
LEMMA ConnectData ==
  ASSUME Data, NEW t \in Terminals, Connect(t), UNCHANGED <<recVars, app>>
  PROVE  Data'
BY DEF Data, Connect, recVars, Phases

LEMMA NewTerminalKeeps ==
  ASSUME IInv, NEW t \in Terminals, NEW u \in Users, NewTerminal(t, u)
  PROVE  Keeps
<1>0. Shared /\ Data /\ TabsInv /\ stack = <<>> /\ UNCHANGED stack
  BY InParts DEF NewTerminal, Idle
<1>1. NewPage(t, u) /\ SwitchPage(t, DISCONNECT) /\ Connect(t) /\ UNCHANGED <<recVars, app>>
  BY DEF NewTerminal
<1>2. Shared'
  BY <1>0, <1>1, NewPageType, StatusWords DEF Shared
<1>3. KeepsTabs
  BY <1>0, <1>1, TabsNewPageWith DEF Shared, NewPage, SwitchPage
<1>4. status'[t] = DISCONNECT
  BY <1>0, <1>1 DEF NewPage, NewPageWith, Shared, LinkType
<1>5. Front'
  BY <1>1, <1>4, SwitchFront
<1> QED BY <1>0, <1>1, <1>2, <1>3, <1>5, ConnectData, IdleKeeps

LEMMA ConnectCurrentKeeps ==
  ASSUME IInv, stack = <<>>, current # NoTerminal, Connect(current),
         UNCHANGED <<tabVars, linkVars, keyVars, saveVars, stack, recVars, app>>
  PROVE  Keeps
<1>1. current \in Terminals /\ Data /\ SaveType
  BY CurrentIsTab, InParts DEF Shared
<1>2. Data'
  <2>1. ASSUME NEW t, t = current PROVE Data'
    BY <1>1, <2>1, ConnectData
  <2> QED BY <2>1
<1>3. SaveType'
  BY <1>1 DEF SaveType, saveVars
<1> QED BY <1>2, <1>3, NoFramesFit, QuietKeeps

LEMMA TypeLineKeeps == IInv /\ TypeLine => Keeps
<1> SUFFICES ASSUME IInv, TypeLine PROVE Keeps
  OBVIOUS
<1>1. current \in Terminals /\ Data /\ SaveType
  BY CurrentIsTab, InParts DEF Shared, TypeLine
<1>2. Data'
  BY <1>1, FedType DEF TypeLine, Data, recVars
<1>3. UNCHANGED <<tabVars, linkVars, keyVars, saveVars, stack>> /\ stack = <<>>
  BY DEF TypeLine, coreVars, Idle
<1>4. SaveType'
  BY <1>1, <1>3 DEF SaveType, saveVars
<1> QED BY <1>2, <1>3, <1>4, NoFramesFit, QuietKeeps

\* Steps that take connections down, of the open tabs in S.
LEMMA DownKeeps ==
  ASSUME IInv, stack = <<>>, NEW S \in SUBSET tabs,
         status' = [t \in Terminals |-> IF t \in S THEN DISCONNECT ELSE status[t]],
         toolbar' = IF current \in S THEN ButtonsFor(DISCONNECT) ELSE toolbar,
         Data', UNCHANGED <<tabVars, keyVars, saveVars, stack>>
  PROVE  Keeps
<1>0. Shared /\ TabsInv /\ Front /\ tabs \in SUBSET Terminals /\ current \in tabs \cup {NoTerminal}
  BY InParts, CurrentIsTab
<1>1. UNCHANGED <<tabs, current, currentUser, user>>
  BY DEF tabVars
<1>2. \A t \in Terminals : status'[t] = IF t \in S THEN DISCONNECT ELSE status[t]
  OBVIOUS
<1>3. Shared'
  <2>1. LinkType(TelnetStatus)'
    BY <1>0, StatusWords, ButtonsType DEF Shared, LinkType
  <2> QED BY <1>0, <1>1, <2>1
          DEF Shared, keyVars, saveVars, TabType, KeyType, SaveType
<1>4. KeepsTabs
  BY <1>0, <1>1, <1>2, TabsDrop DEF DISCONNECT, CONNECTED
<1>5. Front'
  <2>1. CASE current \in S
    <3>1. current \in Terminals /\ status'[current] = DISCONNECT /\ current # NoTerminal
      BY <1>0, <1>2, <2>1, CoreAssumption
    <3>2. DISCONNECT # CONNECTED
      BY DEF DISCONNECT, CONNECTED
    <3> QED BY <1>0, <1>1, <2>1, <3>1, <3>2 DEF Front, ToolbarForm
  <2>2. CASE current \notin S
    <3>1. current # NoTerminal => status'[current] = status[current]
      BY <1>0, <1>2, <2>2
    <3> QED BY <1>0, <1>1, <2>2, <3>1 DEF Front, ToolbarForm
  <2> QED BY <2>1, <2>2
<1> QED BY <1>3, <1>4, <1>5, IdleKeeps

LEMMA ReconnectAllKeeps == IInv /\ ReconnectAll => Keeps
<1> SUFFICES ASSUME IInv, ReconnectAll PROVE Keeps
  OBVIOUS
<1>1. stack = <<>> /\ Data /\ TabsInv /\ current \in tabs \cup {NoTerminal} /\ tabs # {}
  BY InParts, CurrentIsTab DEF ReconnectAll, Idle
<1>2. current \in tabs
  BY <1>1 DEF TabsInv, HasCurrent
<1>3. Data'
  BY <1>1 DEF ReconnectAll, Data, recVars, Phases
<1> QED BY <1>1, <1>2, <1>3, DownKeeps DEF ReconnectAll

LEMMA DisconnectAllKeeps == IInv /\ DisconnectAll => Keeps
<1> SUFFICES ASSUME IInv, DisconnectAll PROVE Keeps
  OBVIOUS
<1> DEFINE live == {t \in tabs : status[t] = CONNECTED}
<1>1. stack = <<>> /\ Data /\ live \in SUBSET tabs
  BY InParts DEF DisconnectAll, Idle
<1>2. /\ status' = [t \in Terminals |-> IF t \in live THEN DISCONNECT ELSE status[t]]
      /\ toolbar' = IF current \in live THEN ButtonsFor(DISCONNECT) ELSE toolbar
      /\ child' = [t \in Terminals |-> IF t \in live THEN Fed(child[t]) ELSE child[t]]
      /\ private' = [t \in Terminals |-> private[t] /\ t \notin live]
      /\ UNCHANGED <<tabVars, keyVars, saveVars, stack, recVars, pid, app>>
  BY DEF DisconnectAll
<1> HIDE DEF live
<1>3. Data'
  <2>1. private' \in [Terminals -> BOOLEAN]
    BY <1>2, Zenon
  <2>2. child' \in [Terminals -> Phases]
    BY <1>1, <1>2, FedType DEF Data
  <2> QED BY <1>1, <1>2, <2>1, <2>2 DEF Data, recVars
<1> QED BY <1>1, <1>2, <1>3, DownKeeps

LEMMA DisconnectCurrentKeeps == IInv /\ DisconnectCurrent => Keeps
<1> SUFFICES ASSUME IInv, DisconnectCurrent PROVE Keeps
  OBVIOUS
<1>1. stack = <<>> /\ Data /\ Shared /\ current \in tabs /\ current \in Terminals
  BY InParts, CurrentIsTab DEF DisconnectCurrent, Idle
<1>2. /\ status' = [t \in Terminals |-> IF t \in {current} THEN DISCONNECT ELSE status[t]]
      /\ toolbar' = IF current \in {current} THEN ButtonsFor(DISCONNECT) ELSE toolbar
  BY <1>1 DEF DisconnectCurrent, Disconnect, SetStatus, Shared, LinkType
<1>3. Data'
  BY <1>1, FedType DEF DisconnectCurrent, Disconnect, Data, recVars
<1>4. UNCHANGED <<tabVars, keyVars, saveVars, stack>>
  BY DEF DisconnectCurrent
<1> QED BY <1>1, <1>2, <1>3, <1>4, DownKeeps

\* A tab goes while nothing is left suspended.
LEMMA DestroyKeeps ==
  ASSUME IInv, NEW t \in tabs, Destroy(t), stack' = <<>>, UNCHANGED <<recVars, app>>
  PROVE  Keeps
<1>0. /\ Shared /\ TabsInv /\ Front /\ Data /\ t \in Terminals
      /\ tabs \in SUBSET Terminals /\ current \in tabs \cup {NoTerminal}
  BY InParts, CurrentIsTab
<1>1. DestroyPage(t)
  BY DEF Destroy
<1>2. Shared' /\ KeepsTabs
  BY <1>0, <1>1, DestroyPageType, TabsDestroy, StatusWords DEF Shared
<1>3. Data'
  BY <1>0 DEF Destroy, Data, recVars, Phases
<1>4. \A n \in Terminals \ {t} : status'[n] = status[n] /\ user'[n] = user[n]
  BY <1>0, <1>1 DEF DestroyPage, Shared, LinkType, TabType
<1>5. Front'
  <2>1. CASE t # current /\ UNCHANGED <<current, currentUser, toolbar>>
    <3>1. current # NoTerminal => status'[current] = status[current] /\ user'[current] = user[current]
      BY <1>0, <1>4, <2>1
    <3> QED BY <1>0, <2>1, <3>1 DEF Front, ToolbarForm
  <2>2. CASE \E n \in tabs \ {t} : SwitchPage(n, status[n])
    <3>1. PICK n \in tabs \ {t} : SwitchPage(n, status[n])
      BY <2>2
    <3>2. n \in Terminals /\ SwitchPage(n, status'[n])
      BY <1>0, <1>4, <3>1
    <3> QED BY <3>2, SwitchFront
  <2>3. CASE LastPageRemoved
    BY <2>3 DEF LastPageRemoved, Front, ToolbarForm
  <2> QED BY <1>1, <2>1, <2>2, <2>3 DEF DestroyPage
<1> QED BY <1>2, <1>3, <1>5, NoFramesFit, KeepsFromParts

LEMMA UnmovedKeeps ==
  ASSUME IInv, Unmoved, UNCHANGED <<recVars, app>>, StackFits(stack', tabs, child)
  PROVE  Keeps
<1>1. UNCHANGED <<tabVars, linkVars, keyVars, saveVars, procVars>> /\ SaveType /\ Data
  BY InParts DEF Unmoved, Shared
<1>2. SaveType' /\ Data' /\ child' = child
  BY <1>1 DEF SaveType, saveVars, Data, procVars, recVars
<1> QED BY <1>1, <1>2, QuietKeeps

LEMMA CloseKeeps ==
  ASSUME IInv, NEW t \in Terminals, Close(t)
  PROVE  Keeps
<1>1. stack = <<>> /\ t \in tabs /\ UNCHANGED <<recVars, app>>
  BY DEF Close, Idle
<1>2. CASE Destroy(t) /\ UNCHANGED stack
  BY <1>1, <1>2, DestroyKeeps
<1>3. CASE Push(Frame("confirm_close", t)) /\ Unmoved
  <2> DEFINE f == Frame("confirm_close", t)
  <2>1. f \in Frames /\ f.term = t /\ ~IsLogin(f)
    BY FrameFits DEF Frame, IsLogin
  <2>2. stack' = <<f>> \o stack /\ StackFits(stack, tabs, child)
    BY <1>3, InParts DEF Push
  <2> HIDE DEF f
  <2>3. StackFits(stack', tabs, child)
    BY <1>1, <2>1, <2>2, FitsPush
  <2> QED BY <1>1, <1>3, <2>3, UnmovedKeeps
<1> QED BY <1>2, <1>3 DEF Close

LEMMA SelectTabKeeps ==
  ASSUME IInv, NEW t \in Terminals, SelectTab(t), UNCHANGED <<recVars, procVars, app>>
  PROVE  Keeps
<1>0. Shared /\ Data /\ TabsInv
  BY InParts
<1>1. /\ t \in tabs /\ SwitchPage(t, status[t]) /\ stack = <<>>
      /\ UNCHANGED <<tabs, user, status, keyVars, saveVars, stack>>
  BY DEF SelectTab, Idle
<1>2. Shared'
  BY <1>0, <1>1, SwitchPageType DEF Shared, KeyType, SaveType, keyVars, saveVars
<1>3. KeepsTabs
  BY <1>0, <1>1, TabsSwitch DEF Shared
<1>4. Data'
  BY <1>0 DEF Data, recVars, procVars
<1>5. Front'
  BY <1>1, SwitchFront
<1> QED BY <1>1, <1>2, <1>3, <1>4, <1>5, IdleKeeps

LEMMA UserStepKeeps == IInv /\ UserStep => Keeps
<1> SUFFICES ASSUME IInv, UserStep PROVE Keeps
  OBVIOUS
<1>1. ASSUME NEW t \in Terminals, NEW u \in Users, NewTerminal(t, u) PROVE Keeps
  BY <1>1, NewTerminalKeeps
<1>2. ASSUME NEW t \in Terminals, Clone(t) PROVE Keeps
  <2>1. user[current] \in Users
    BY <1>2, CurrentIsTab DEF Clone
  <2> QED BY <1>2, <2>1, NewTerminalKeeps DEF Clone
<1>3. ASSUME NEW t \in Terminals, Close(t) PROVE Keeps
  BY <1>3, CloseKeeps
<1>4. ASSUME NEW t \in Terminals, SelectTab(t), UNCHANGED <<recVars, procVars, app>> PROVE Keeps
  BY <1>4, SelectTabKeeps
<1>5. CASE PressReturn \/ Reconnect
  BY <1>5, ConnectCurrentKeeps DEF PressReturn, Reconnect, Idle
<1> QED BY <1>1, <1>2, <1>3, <1>4, <1>5, TypeLineKeeps, ReconnectAllKeeps,
           DisconnectCurrentKeeps, DisconnectAllKeeps DEF UserStep

-----------------------------------------------------------------------------
(* lcrt_telnet_receive: "rest" is what stays suspended below this handler.  *)
(***************************************************************************)
\* What the host prints and what its process then waits for.
LEMMA OutputFacts ==
  ASSUME NEW o \in Output
  PROVE  /\ o[2] \in Texts /\ o[3] \in Phases
         /\ o[1] \in AtPrompt => o[2] = "closed" /\ o[3] \in AtPrompt
         /\ o[2] = "passwd" => o[3] = "passwd"
         /\ o[2] = "closed" => o[3] \in AtPrompt
BY DEF Output, Texts, Phases, AtPrompt

LEMMA ChildData ==
  ASSUME Data, NEW t \in Terminals, NEW p \in Phases, child' = [child EXCEPT ![t] = p],
         UNCHANGED <<recVars, private, pid>>, app' \in {"up", "segv"}
  PROVE  /\ Data' /\ child'[t] = p
         /\ \A n \in Terminals \ {t} : child'[n] = child[n]
BY DEF Data, recVars

LEMMA SendLineKeeps ==
  ASSUME IInv, NEW t \in tabs, NEW bit \in {SEND_USERNAME, SEND_PASSWORD}, NEW phase \in Phases,
         NEW rest, StackFits(rest, tabs, child), ~AsksIn(rest, t),
         SendLine(t, bit, phase, rest),
         UNCHANGED <<tabVars, recVars, private, pid>>, app' \in {"up", "segv"}
  PROVE  Keeps
<1>0. /\ Shared /\ TabsInv /\ Front /\ Data /\ t \in Terminals
      /\ tabs \in SUBSET Terminals /\ current \in tabs \cup {NoTerminal}
      /\ UNCHANGED <<tabs, current, currentUser, user, toolbar, keyVars, saveVars>>
  BY InParts, CurrentIsTab DEF tabVars, SendLine
<1> DEFINE w == status[t]
           new == SetBit(w, bit)
<1>1. /\ w \in TelnetStatus /\ status' = [status EXCEPT ![t] = new]
  BY <1>0 DEF SendLine, Sent, Shared, LinkType
<1>2. /\ new \in TelnetStatus
      /\ HasBit(w, CONNECTED) => HasBit(new, CONNECTED)
      /\ new = CONNECTED => w = CONNECTED
  BY <1>1, SetLoginBit
<1> HIDE DEF new
<1>3. \A n \in Terminals : status'[n] = IF n = t THEN new ELSE status[n]
  BY <1>0, <1>1 DEF Shared, LinkType
<1>4. Shared'
  <2>1. LinkType(TelnetStatus)'
    BY <1>0, <1>1, <1>2 DEF Shared, LinkType
  <2> QED BY <1>0, <2>1 DEF Shared, keyVars, saveVars, TabType, KeyType, SaveType
<1>5. KeepsTabs
  BY <1>0, <1>2, <1>3, TabsDrop
<1>6. Front'
  <2>1. CASE current = t
    BY <1>0, <1>2, <1>3, <2>1 DEF Front, ToolbarForm
  <2>2. CASE current # t
    <3>1. current # NoTerminal => status'[current] = status[current]
      BY <1>0, <1>3, <2>2
    <3> QED BY <1>0, <3>1 DEF Front, ToolbarForm
  <2> QED BY <2>1, <2>2
<1>7. Data' /\ \A n \in Terminals \ {t} : child'[n] = child[n]
  <2>1. Fed(phase) \in Phases /\ child' = [child EXCEPT ![t] = Fed(phase)]
    BY FedType DEF SendLine
  <2> QED BY <1>0, <2>1, ChildData
<1>8. stack' = rest /\ StackFits(rest, tabs, child')
  BY <1>7, FitsChild DEF SendLine
<1> QED BY <1>0, <1>4, <1>5, <1>6, <1>7, <1>8, KeepsFromParts

LEMMA OpenLoginKeeps ==
  ASSUME IInv, NEW t \in tabs, NEW at \in {"incorrect", "login", "passwd"}, NEW text \in Texts,
         NEW phase \in Phases, NEW rest, StackFits(rest, tabs, child), ~AsksIn(rest, t),
         at = "incorrect" => text \in {"incorrect", "incorrect_login"},
         at = "passwd" => phase \in AtPrompt,
         OpenLogin(t, at, text, phase, rest),
         UNCHANGED <<tabVars, recVars, private, pid>>, app' \in {"up", "segv"}
  PROVE  Keeps
<1>0. /\ Shared /\ Data /\ t \in Terminals /\ UNCHANGED <<linkVars, keyVars, saveVars>>
  BY InParts, CurrentIsTab DEF OpenLogin
<1>1. Data' /\ child'[t] = phase /\ \A n \in Terminals \ {t} : child'[n] = child[n]
  BY <1>0, ChildData DEF OpenLogin
<1>2. StackFits(rest, tabs, child')
  BY <1>1, FitsChild
<1> DEFINE f == LoginFrame(t, at, text)
<1>3. f \in Frames /\ f.term = t /\ f.kind = "login" /\ f.at = at /\ f.text = text
  BY <1>0, FrameFits DEF LoginFrame
<1>4. stack' = <<f>> \o rest
  BY DEF OpenLogin
<1> HIDE DEF f
<1>5. StackFits(<<f>> \o rest, tabs, child')
  BY <1>1, <1>2, <1>3, FitsPush
<1>6. SaveType'
  BY <1>0 DEF Shared, SaveType, saveVars
<1> QED BY <1>0, <1>1, <1>4, <1>5, <1>6, QuietKeeps

LEMMA LoginKeeps ==
  ASSUME IInv, NEW t \in tabs, NEW phase \in Phases,
         NEW rest, StackFits(rest, tabs, child), ~AsksIn(rest, t),
         child' = [child EXCEPT ![t] = phase], stack' = rest, SetConnectedStatus(t),
         UNCHANGED <<tabVars, recVars, private, pid>>, app' \in {"up", "segv"}
  PROVE  Keeps
<1>0. /\ Shared /\ TabsInv /\ Front /\ Data /\ t \in Terminals
      /\ tabs \in SUBSET Terminals /\ current \in tabs \cup {NoTerminal}
      /\ UNCHANGED <<tabs, current, currentUser, user>>
  BY InParts, CurrentIsTab DEF tabVars
<1>1. Data' /\ \A n \in Terminals \ {t} : child'[n] = child[n]
  BY <1>0, ChildData
<1>2. StackFits(stack', tabs', child')
  BY <1>0, <1>1, FitsChild
<1>3. Shared'
  <2>1. LinkType(TelnetStatus)' /\ KeyType' /\ SaveType'
    BY <1>0, SetConnectedType, StatusWords DEF Shared, TabType
  <2> QED BY <1>0, <2>1 DEF Shared, TabType
<1>4. KeepsTabs
  BY <1>0, TabsConnected DEF Shared
<1>5. /\ \A n \in Terminals : status'[n] = IF n = t THEN CONNECTED ELSE status[n]
      /\ toolbar' = IF t = current THEN ButtonsFor(CONNECTED) ELSE toolbar
  BY <1>0 DEF SetConnectedStatus, SetStatus, Shared, LinkType
<1>6. Front'
  <2>1. CASE current = t
    BY <1>0, <1>5, <2>1, ConnectedHasBit, CoreAssumption DEF Front, ToolbarForm
  <2>2. CASE current # t
    <3>1. current # NoTerminal => status'[current] = status[current]
      BY <1>0, <1>5, <2>2
    <3> QED BY <1>0, <1>5, <2>2, <3>1 DEF Front, ToolbarForm
  <2> QED BY <2>1, <2>2
<1> QED BY <1>1, <1>2, <1>3, <1>4, <1>6, KeepsFromParts

\* The process of a tab goes on, and nothing else but the stack below.
LEMMA ChildKeeps ==
  ASSUME IInv, NEW t \in tabs, NEW phase \in Phases,
         NEW rest, StackFits(rest, tabs, child), AsksIn(rest, t) => phase \in AtPrompt,
         child' = [child EXCEPT ![t] = phase], stack' = rest,
         UNCHANGED <<tabVars, linkVars, keyVars, saveVars, recVars, private, pid>>,
         app' \in {"up", "segv"}
  PROVE  Keeps
<1>0. Data /\ SaveType /\ t \in Terminals
  BY InParts, CurrentIsTab DEF Shared
<1>1. Data' /\ child'[t] = phase /\ \A n \in Terminals \ {t} : child'[n] = child[n]
  BY <1>0, ChildData
<1>2. StackFits(stack', tabs, child')
  BY <1>1, FitsChild
<1>3. SaveType'
  BY <1>0 DEF SaveType, saveVars
<1> QED BY <1>1, <1>2, <1>3, QuietKeeps

LEMMA AfterIncorrectKeeps ==
  ASSUME IInv, NEW t \in tabs, NEW text \in Texts, NEW phase \in Phases,
         text = "passwd" => phase \in AtPrompt,
         NEW rest, StackFits(rest, tabs, child), ~AsksIn(rest, t),
         AfterIncorrect(t, text, phase, rest),
         UNCHANGED <<tabVars, recVars, private, pid>>, app' \in {"up", "segv"}
  PROVE  Keeps
<1>1. CASE \/ SendLine(t, SEND_USERNAME, phase, rest)
           \/ SendLine(t, SEND_PASSWORD, phase, rest)
  BY <1>1, SendLineKeeps
<1>2. CASE OpenLogin(t, "login", text, phase, rest)
  BY <1>2, OpenLoginKeeps
<1>3. CASE text = "passwd" /\ OpenLogin(t, "passwd", text, phase, rest)
  BY <1>3, OpenLoginKeeps
<1>4. CASE /\ child' = [child EXCEPT ![t] = Commands(t, phase)] /\ stack' = rest
           /\ SetConnectedStatus(t)
  <2>1. Commands(t, phase) \in Phases
    BY DEF Commands, Fed, Phases
  <2> QED BY <1>4, <2>1, LoginKeeps
<1>5. CASE /\ child' = [child EXCEPT ![t] = phase] /\ stack' = rest
           /\ UNCHANGED <<linkVars, keyVars, saveVars>>
  BY <1>5, ChildKeeps
<1> QED BY <1>1, <1>2, <1>3, <1>4, <1>5 DEF AfterIncorrect

LEMMA ReceiveKeeps ==
  ASSUME IInv, app = "up", NEW t \in Terminals, Receive(t)
  PROVE  Keeps
<1>0. /\ t \in tabs /\ StackFits(stack, tabs, child)
      /\ UNCHANGED <<tabVars, recVars, private, pid>> /\ app' \in {"up", "segv"}
  BY InParts DEF Receive
<1>1. PICK o \in Output :
        /\ o[1] = child[t]
        /\ \/ /\ child' = [child EXCEPT ![t] = o[3]]
              /\ UNCHANGED <<linkVars, keyVars, saveVars, stack>>
           \/ ReceiveText(t, o[2], o[3])
  BY DEF Receive
<1> DEFINE text == o[2]
           phase == o[3]
<1>2. /\ text \in Texts /\ phase \in Phases
      /\ o[1] \in AtPrompt => text = "closed" /\ phase \in AtPrompt
      /\ text = "passwd" => phase = "passwd"
      /\ text = "closed" => phase \in AtPrompt
  BY OutputFacts
<1>3. AsksIn(stack, t) => phase \in AtPrompt /\ text = "closed"
  BY <1>0, <1>1, <1>2 DEF StackFits
<1> HIDE DEF text, phase
<1>4. CASE /\ child' = [child EXCEPT ![t] = phase]
           /\ UNCHANGED <<linkVars, keyVars, saveVars, stack>>
  BY <1>0, <1>2, <1>3, <1>4, ChildKeeps
<1>5. CASE ReceiveText(t, text, phase)
  <2>1. CASE text = "closed"
    <3>1. /\ child' = [child EXCEPT ![t] = phase]
          /\ UNCHANGED <<linkVars, keyVars, saveVars, stack>>
      BY <1>5, <2>1 DEF ReceiveText
    <3> QED BY <3>1, <1>4
  <2>2. CASE text = "refused"
    <3> DEFINE f == Frame("notice", t)
    <3>1. /\ child' = [child EXCEPT ![t] = phase] /\ stack' = <<f>> \o stack
          /\ UNCHANGED <<linkVars, keyVars, saveVars>>
      BY <1>5, <2>2 DEF ReceiveText, Push
    <3>2. Data' /\ SaveType' /\ child'[t] = phase /\ \A n \in Terminals \ {t} : child'[n] = child[n]
      BY <1>0, <1>2, <3>1, InParts, ChildData DEF Shared, SaveType, saveVars
    <3>3. StackFits(stack, tabs, child')
      BY <1>0, <1>3, <3>2, FitsChild
    <3>4. f \in Frames /\ f.term = t /\ f.kind = "notice" /\ ~IsLogin(f)
      BY FrameFits DEF Frame, IsLogin
    <3> HIDE DEF f
    <3>5. StackFits(<<f>> \o stack, tabs, child')
      BY <1>0, <3>3, <3>4, FitsPush
    <3> QED BY <1>0, <3>1, <3>2, <3>5, QuietKeeps
  <2>3. CASE text \in {"incorrect", "incorrect_login"}
    <3>1. OpenLogin(t, "incorrect", text, phase, stack)
      BY <1>5, <2>3 DEF ReceiveText, AfterIncorrect
    <3>2. ~AsksIn(stack, t)
      BY <1>3, <2>3
    <3> QED BY <1>0, <1>2, <2>3, <3>1, <3>2, OpenLoginKeeps
  <2>4. CASE text \notin {"closed", "refused", "incorrect", "incorrect_login"}
    <3>1. AfterIncorrect(t, text, phase, stack)
      BY <1>5, <2>4 DEF ReceiveText
    <3>2. ~AsksIn(stack, t) /\ (text = "passwd" => phase \in AtPrompt)
      BY <1>2, <1>3, <2>4 DEF AtPrompt
    <3> QED BY <1>0, <1>2, <3>1, <3>2, AfterIncorrectKeeps
  <2> QED BY <2>1, <2>2, <2>3, <2>4
<1> QED BY <1>1, <1>4, <1>5 DEF text, phase

LEMMA ChildStepKeeps == IInv /\ app = "up" /\ ChildStep => Keeps
<1> SUFFICES ASSUME IInv, app = "up", NEW t \in Terminals, Receive(t) \/ Die(t) \/ ChildExited(t)
             PROVE  Keeps
  BY DEF ChildStep
<1>0. /\ StackFits(stack, tabs, child) /\ Shared /\ Data /\ TabsInv /\ Front
      /\ tabs \in SUBSET Terminals /\ current \in tabs \cup {NoTerminal}
  BY InParts, CurrentIsTab
<1>1. CASE Die(t)
  <2>1. /\ t \in tabs /\ child' = [child EXCEPT ![t] = "dead"] /\ stack' = stack
        /\ UNCHANGED <<tabVars, linkVars, keyVars, saveVars, recVars, private, pid>> /\ app' = app
    BY <1>1 DEF Die, coreVars
  <2> QED BY <1>0, <2>1, ChildKeeps DEF Phases, AtPrompt
<1>2. CASE ChildExited(t)
  <2>0. /\ t \in tabs /\ child' = [child EXCEPT ![t] = "none"] /\ stack' = stack
        /\ UNCHANGED <<tabVars, saveVars, recVars, private>> /\ app' = app
    BY <1>2 DEF ChildExited
  <2>1. CASE UNCHANGED <<pid, linkVars, keyVars>>
    BY <1>0, <2>0, <2>1, ChildKeeps DEF Phases, AtPrompt
  <2>2. CASE status[t] = CONNECTED /\ pid' = [pid EXCEPT ![t] = FALSE] /\ ArmReturnKey(t)
    <3>1. UNCHANGED <<tabs, current, currentUser, user>>
      BY <2>0 DEF tabVars
    <3>2. Shared'
      <4>1. LinkType(TelnetStatus)' /\ KeyType'
        BY <1>0, <2>0, <2>2, ArmReturnKeyType, StatusWords DEF Shared
      <4> QED BY <1>0, <2>0, <3>1, <4>1 DEF Shared, TabType, SaveType, saveVars
    <3>3. KeepsTabs
      BY <1>0, <2>0, <2>2, TabsArm DEF Shared
    <3>4. Data' /\ child'[t] = "none" /\ \A n \in Terminals \ {t} : child'[n] = child[n]
      BY <1>0, <2>0, <2>2 DEF Data, recVars, Phases
    <3>5. StackFits(stack', tabs', child')
      BY <1>0, <2>0, <3>1, <3>4, FitsChild DEF AtPrompt
    <3>6. /\ \A n \in Terminals : status'[n] = IF n = t THEN CHILD_EXIT ELSE status[n]
          /\ toolbar' = IF t = current THEN ButtonsFor(CHILD_EXIT) ELSE toolbar
          /\ CHILD_EXIT # CONNECTED
      BY <1>0, <2>2 DEF ArmReturnKey, SetStatus, Shared, LinkType, CHILD_EXIT, CONNECTED
    <3>7. Front'
      <4>1. CASE current = t
        BY <1>0, <2>0, <3>1, <3>6, <4>1, TwoPictures, CoreAssumption DEF Front, ToolbarForm
      <4>2. CASE current # t
        <5>1. current # NoTerminal => status'[current] = status[current]
          BY <1>0, <3>6, <4>2
        <5> QED BY <1>0, <3>1, <3>6, <4>2, <5>1 DEF Front, ToolbarForm
      <4> QED BY <4>1, <4>2
    <3> QED BY <3>2, <3>3, <3>4, <3>5, <3>7, KeepsFromParts
  <2> QED BY <1>2, <2>1, <2>2 DEF ChildExited
<1> QED BY <1>1, <1>2, ReceiveKeeps

-----------------------------------------------------------------------------
(* The dialogs, and the handler that goes on when its login dialog closes.  *)
(***************************************************************************)
LEMMA DialogStepKeeps == IInv /\ DialogStep => Keeps
<1> SUFFICES ASSUME IInv, DialogStep PROVE Keeps
  OBVIOUS
<1> DEFINE f == Head(stack)
           rest == Tail(stack)
<1>0. StackFits(stack, tabs, child) /\ Data /\ Shared /\ tabs \in SUBSET Terminals /\ stack # <<>>
  BY InParts, CurrentIsTab DEF DialogStep, AnswerClose, CloseNotice, AnswerLogin, Top
<1>1. /\ f \in Frames /\ f.term \in tabs
      /\ f.kind = "confirm_close" => rest = <<>>
      /\ IsLogin(f) /\ f.at = "incorrect" => f.text \in {"incorrect", "incorrect_login"}
      /\ IsLogin(f) => ~AsksIn(rest, f.term)
      /\ IsLogin(f) /\ f.at = "passwd" => child[f.term] \in AtPrompt
      /\ StackFits(rest, tabs, child)
  BY <1>0, FitsPop
<1>2. ASSUME NEW ok \in BOOLEAN, AnswerClose(ok) PROVE Keeps
  <2>1. /\ f.kind = "confirm_close" /\ stack' = rest /\ UNCHANGED <<recVars, app>>
        /\ Destroy(f.term) \/ Unmoved
    BY <1>2 DEF AnswerClose, Top, Pop
  <2> HIDE DEF f, rest
  <2>2. CASE Destroy(f.term)
    BY <1>1, <2>1, <2>2, DestroyKeeps
  <2>3. CASE Unmoved
    BY <1>1, <2>1, <2>3, UnmovedKeeps
  <2> QED BY <2>1, <2>2, <2>3
<1>3. CASE CloseNotice
  BY <1>1, <1>3, UnmovedKeeps DEF CloseNotice, Pop
<1>4. ASSUME NEW ok \in BOOLEAN, NEW hasName \in BOOLEAN, NEW hasSecret \in BOOLEAN,
             NEW keep \in RememberChoices, AnswerLogin(ok, hasName, hasSecret, keep)
      PROVE  Keeps
  <2> DEFINE g == [f EXCEPT !.kind = "resume"]
             t == f.term
  <2>1. /\ f.kind = "login" /\ stack' = <<g>> \o rest
        /\ remember' = [remember EXCEPT ![t] = keep]
        /\ UNCHANGED <<tabVars, linkVars, keyVars, stored, procVars, app>>
    BY <1>4 DEF AnswerLogin, Top
  <2>2. /\ t \in tabs /\ t \in Terminals /\ user[t] \in Users
    BY <1>0, <1>1, CurrentIsTab
  <2>3. /\ g \in Frames /\ g.term = f.term /\ g.at = f.at /\ g.text = f.text /\ g.kind = "resume"
        /\ IsLogin(f)
    BY <1>1, <2>1 DEF Frames, IsLogin
  <2>4. SaveType'
    BY <1>0, <2>1, <2>2, TelnetAssumption DEF Shared, SaveType
  <2>5. named' \in [Users -> BOOLEAN] /\ secret' \in [Users -> BOOLEAN]
    <3>1. CASE UNCHANGED recVars
      BY <1>0, <3>1 DEF Data, recVars
    <3>2. CASE /\ named' = [named EXCEPT ![user[t]] = hasName]
               /\ secret' = [secret EXCEPT ![user[t]] = hasSecret]
      BY <1>0, <2>2, <3>2 DEF Data
    <3> QED BY <1>4, <3>1, <3>2 DEF AnswerLogin
  <2>6. Data' /\ child' = child
    BY <1>0, <2>1, <2>5 DEF Data, procVars
  <2> HIDE DEF f, g, rest
  <2>7. StackFits(<<g>> \o rest, tabs, child)
    BY <1>1, <2>2, <2>3, FitsPush
  <2> QED BY <2>1, <2>4, <2>6, <2>7, QuietKeeps
<1> QED BY <1>2, <1>3, <1>4 DEF DialogStep

LEMMA ResumeKeeps == IInv /\ app = "up" /\ ResumeReceive => Keeps
<1> SUFFICES ASSUME IInv, app = "up", ResumeReceive PROVE Keeps
  OBVIOUS
<1> DEFINE f == Head(stack)
           rest == Tail(stack)
<1>0. /\ StackFits(stack, tabs, child) /\ Data /\ Shared /\ tabs \in SUBSET Terminals
      /\ stack # <<>> /\ f.kind = "resume" /\ UNCHANGED <<tabVars, recVars, private, pid>>
  BY InParts, CurrentIsTab DEF ResumeReceive, Top
<1>1. /\ f \in Frames /\ f.term \in tabs /\ IsLogin(f)
      /\ f.at = "incorrect" => f.text \in {"incorrect", "incorrect_login"}
      /\ ~AsksIn(rest, f.term)
      /\ StackFits(rest, tabs, child)
  BY <1>0, FitsPop DEF IsLogin
<1>2. f.at \in {"incorrect", "login", "passwd"} /\ child[f.term] \in Phases
  BY <1>0, <1>1 DEF Frames, Data
<1>3. CASE app' = "segv" /\ UNCHANGED <<linkVars, keyVars, saveVars, stack, child>>
  <2>1. Data' /\ SaveType' /\ StackFits(stack', tabs, child')
    BY <1>0, <1>3 DEF Data, recVars, Shared, SaveType, saveVars
  <2> QED BY <1>0, <1>3, <2>1, QuietKeeps
<1>4. CASE /\ CASE f.at = "incorrect" -> AfterIncorrect(f.term, f.text, child[f.term], rest)
                [] f.at = "login" -> SendLine(f.term, SEND_USERNAME, child[f.term], rest)
                [] f.at = "passwd" -> SendLine(f.term, SEND_PASSWORD, child[f.term], rest)
           /\ UNCHANGED app
  <2> HIDE DEF f, rest
  <2>1. CASE f.at = "incorrect"
    <3>1. AfterIncorrect(f.term, f.text, child[f.term], rest)
      BY <1>4, <2>1
    <3>2. f.text \in Texts /\ f.text # "passwd"
      BY <1>1, <2>1 DEF Texts
    <3> QED BY <1>0, <1>1, <1>2, <1>4, <3>1, <3>2, AfterIncorrectKeeps
  <2>2. CASE f.at = "login"
    <3>1. SendLine(f.term, SEND_USERNAME, child[f.term], rest)
      BY <1>4, <2>2
    <3> QED BY <1>0, <1>1, <1>2, <1>4, <3>1, SendLineKeeps
  <2>3. CASE f.at = "passwd"
    <3>1. SendLine(f.term, SEND_PASSWORD, child[f.term], rest)
      BY <1>4, <2>3
    <3> QED BY <1>0, <1>1, <1>2, <1>4, <3>1, SendLineKeeps
  <2> QED BY <1>2, <2>1, <2>2, <2>3
<1> QED BY <1>3, <1>4 DEF ResumeReceive

-----------------------------------------------------------------------------
LEMMA TelnetInit == Init => IInv
<1> SUFFICES ASSUME Init PROVE IInv
  OBVIOUS
<1> USE DEF Init, CoreInit
<1>1. Shared
  <2>1. TabType
    BY DEF TabType
  <2>2. LinkType(TelnetStatus)
    BY StatusWords, ButtonsType DEF LinkType
  <2>3. KeyType /\ SaveType
    BY DEF KeyType, SaveType
  <2> QED BY <2>1, <2>2, <2>3 DEF Shared
<1>2. TabsInv
  BY DEF TabsInv, OneReturnHandler, HasCurrent, ClosedTabsAreQuiet, DISCONNECT, CONNECTED
<1>3. Front
  BY DEF Front, ToolbarForm
<1>4. Data
  <2>1. private \in [Terminals -> BOOLEAN] /\ pid \in [Terminals -> BOOLEAN]
    BY Zenon
  <2>2. child \in [Terminals -> Phases]
    BY DEF Phases
  <2> QED BY <2>1, <2>2 DEF Data
<1> QED BY <1>1, <1>2, <1>3, <1>4, NoFramesFit, InParts

LEMMA TelnetNext == IInv /\ [Next]_vars => Keeps
<1>1. ASSUME IInv, UNCHANGED vars PROVE Keeps
  <2>1. UNCHANGED <<coreVars, recVars, procVars, app>>
    BY <1>1 DEF vars
  <2> QED BY <1>1, <2>1, UnmovedKeeps, InParts DEF Unmoved, coreVars
<1> QED BY <1>1, UserStepKeeps, DialogStepKeeps, ResumeKeeps, ChildStepKeeps DEF Next, Down

\* The inductive invariant, whatever the number of tabs, records and dialogs.
THEOREM TelnetInvariant == Spec => []IInv
<1>1. IInv /\ [Next]_vars => IInv'
  BY TelnetNext DEF Keeps
<1> QED BY <1>1, TelnetInit, PTL DEF Spec

\* Whatever the bits of the status word do, telnet tabs keep what all tabs share:
\* one Return handler, buttons within their bounds, a current terminal that is
\* open, and no receive handler suspended on a freed terminal.
THEOREM TelnetTabsKeepShape == Spec => []TabInv
<1>1. ASSUME IInv PROVE TabInv
  <2>0. TypeOK /\ OneReturnHandler /\ HasCurrent /\ ToolbarForm /\ StackFits(stack, tabs, child)
    BY <1>1 DEF IInv
  <2>1. ToolbarBounds
    <3>1. CASE current = NoTerminal
      BY <2>0, <3>1 DEF ToolbarForm, ToolbarBounds
    <3>2. CASE /\ toolbar = [reconnect |-> FALSE, disconnect |-> TRUE]
               /\ current # NoTerminal /\ HasBit(status[current], CONNECTED)
      <4>1. toolbar.reconnect = FALSE /\ toolbar.disconnect = TRUE
        BY <3>2
      <4> QED BY <3>2, <4>1, Zenon DEF ToolbarBounds
    <3>3. CASE /\ toolbar = [reconnect |-> TRUE, disconnect |-> FALSE]
               /\ current # NoTerminal /\ status[current] # CONNECTED
      <4>1. toolbar.reconnect = TRUE /\ toolbar.disconnect = FALSE
        BY <3>3
      <4> QED BY <3>3, <4>1, Zenon DEF ToolbarBounds
    <3> QED BY <2>0, <3>1, <3>2, <3>3, TwoPictures DEF ToolbarForm
  <2>2. CurrentIsOpen
    BY <1>1 DEF IInv, CurrentIsOpen
  <2>3. SuspendedOnOpenTabs
    <3>1. ASSUME NEW i \in 1..Len(stack) PROVE FrameTerminals(stack[i]) \subseteq tabs
      <4>1. stack[i] \in Frames /\ stack[i].term \in tabs
        BY <2>0 DEF StackFits
      <4> QED BY <4>1 DEF Frames, FrameTerminals, Loops
    <3> QED BY <3>1 DEF SuspendedOnOpenTabs
  <2> QED BY <2>0, <2>1, <2>2, <2>3 DEF TabInv
<1> QED BY <1>1, TelnetInvariant, PTL

\* While a password dialog is up its process stays at the prompt that asked, or
\* is dead: the password that is sent when the dialog closes answers that prompt.
THEOREM PasswordsAnswerTheirPrompt == Spec => []PasswordToItsPrompt
<1>1. ASSUME IInv PROVE PasswordToItsPrompt
  <2>1. ASSUME NEW i \in 1..Len(stack), IsLogin(stack[i]), stack[i].at = "passwd"
        PROVE  child[stack[i].term] \in AtPrompt
    <3>1. StackFits(stack, tabs, child) /\ stack[i].term \in Terminals
      BY <1>1, CurrentIsTab DEF IInv, StackFits
    <3> QED BY <2>1, <3>1 DEF StackFits, AsksIn, AsksPassword
  <2> QED BY <2>1 DEF PasswordToItsPrompt, IsLogin, AtPrompt
<1> QED BY <1>1, TelnetInvariant, PTL

-----------------------------------------------------------------------------
(* What ends a session.                                                    *)
(***************************************************************************)
LEMMA AfterIncorrectOffers ==
  ASSUME KeyType, NEW t \in Terminals, NEW text, NEW phase, NEW rest,
         AfterIncorrect(t, text, phase, rest)
  PROVE  NothingOffered
BY KeysOffer, ConnectedOffers DEF AfterIncorrect, SendLine, OpenLogin

\* Only the exit of a process connects the Return handler.
LEMMA OthersOffer ==
  ASSUME IInv, [Next]_vars, \A t \in Terminals : ~ChildExited(t)
  PROVE  NothingOffered
<1>0. KeyType /\ \A t \in tabs : t \in Terminals
  BY InParts, CurrentIsTab DEF Shared
<1>1. CASE UserStep
  <2>1. ASSUME NEW t \in Terminals, Close(t) PROVE NothingOffered
    BY <1>0, <2>1, DestroyOffers, KeysOffer DEF Close, Destroy, Unmoved
  <2>2. CASE ~\E t \in Terminals : Close(t)
    BY <1>1, <2>2, KeysOffer
    DEF UserStep, NewTerminal, Clone, NewPage, SelectTab, PressReturn, TypeLine, Reconnect,
        ReconnectAll, DisconnectCurrent, DisconnectAll, coreVars
  <2> QED BY <2>1, <2>2
<1>2. CASE DialogStep
  <2>1. ASSUME NEW ok \in BOOLEAN, AnswerClose(ok) PROVE NothingOffered
    <3>1. stack # <<>> /\ StackFits(stack, tabs, child)
      BY <2>1, InParts DEF AnswerClose, Top
    <3>2. Head(stack).term \in Terminals
      BY <1>0, <3>1, FitsPop
    <3> QED BY <1>0, <2>1, <3>2, DestroyOffers, KeysOffer DEF AnswerClose, Destroy, Unmoved
  <2>2. CASE CloseNotice \/ ~\E ok \in BOOLEAN : AnswerClose(ok)
    BY <1>2, <2>2, KeysOffer DEF DialogStep, CloseNotice, Unmoved, AnswerLogin
  <2> QED BY <2>1, <2>2
<1>3. CASE ResumeReceive
  <2>1. stack # <<>> /\ StackFits(stack, tabs, child)
    BY <1>3, InParts DEF ResumeReceive, Top
  <2>2. Head(stack) \in Frames /\ Head(stack).kind = "resume" /\ Head(stack).term \in Terminals
    BY <1>0, <1>3, <2>1, FitsPop DEF ResumeReceive, Top
  <2>3. Head(stack).at \in {"incorrect", "login", "passwd"}
    BY <2>2 DEF Frames
  <2> DEFINE f == Head(stack)
  <2>4. \/ UNCHANGED keyVars
        \/ AfterIncorrect(f.term, f.text, child[f.term], Tail(stack))
    BY <1>3, <2>3 DEF ResumeReceive, SendLine
  <2> QED BY <1>0, <2>2, <2>4, AfterIncorrectOffers, KeysOffer
<1>4. ASSUME NEW t \in Terminals, Receive(t) PROVE NothingOffered
  <2>1. \/ UNCHANGED keyVars
        \/ \E text, phase : ReceiveText(t, text, phase)
    BY <1>4 DEF Receive
  <2>2. ASSUME NEW text, NEW phase, ReceiveText(t, text, phase) PROVE NothingOffered
    BY <1>0, <2>2, AfterIncorrectOffers, KeysOffer DEF ReceiveText, OpenLogin
  <2> QED BY <2>1, <2>2, KeysOffer
<1>5. ASSUME NEW t \in Terminals, Die(t) PROVE NothingOffered
  BY <1>5, KeysOffer DEF Die, coreVars
<1>6. CASE UNCHANGED vars
  BY <1>6, KeysOffer DEF vars, coreVars
<1> QED BY <1>1, <1>2, <1>3, <1>4, <1>5, <1>6 DEF Next, ChildStep, Down

LEMMA ExitsOffer ==
  IInv /\ [Next]_vars =>
    \A t \in Terminals : OffersReturn(t) <=> status[t] = CONNECTED /\ ChildExited(t)
<1> SUFFICES ASSUME IInv, [Next]_vars
             PROVE  \A t \in Terminals : OffersReturn(t) <=> status[t] = CONNECTED /\ ChildExited(t)
  OBVIOUS
<1>0. KeyType /\ TabsInv /\ child \in [Terminals -> Phases]
  BY InParts DEF Shared, Data
<1>1. ASSUME NEW n \in Terminals, ChildExited(n)
      PROVE  \A t \in Terminals : OffersReturn(t) <=> status[t] = CONNECTED /\ ChildExited(t)
  <2>1. \A t \in Terminals : ChildExited(t) => t = n
    <3>1. ASSUME NEW t \in Terminals, ChildExited(t), t # n PROVE FALSE
      <4>1. child'[t] = "none" /\ child[t] = "dead" /\ child' = [child EXCEPT ![n] = "none"]
        BY <1>0, <1>1, <3>1 DEF ChildExited
      <4> QED BY <1>0, <3>1, <4>1
    <3> QED BY <3>1
  <2>2. CASE status[n] = CONNECTED
    <3>1. ArmReturnKey(n)
      BY <1>1, <2>2 DEF ChildExited
    <3> QED BY <1>0, <1>1, <2>1, <2>2, <3>1, ArmOffers
  <2>3. CASE status[n] # CONNECTED
    <3>1. UNCHANGED keyVars
      BY <1>1, <2>3 DEF ChildExited
    <3> QED BY <2>1, <2>3, <3>1 DEF OffersReturn, keyVars
  <2> QED BY <2>2, <2>3
<1>2. CASE \A n \in Terminals : ~ChildExited(n)
  BY <1>2, OthersOffer DEF NothingOffered, OffersReturn
<1> QED BY <1>1, <1>2

\* Telnet tabs implement TabSession, although the status word that says so also
\* counts the lines sent; a session ends by the exit of its process.
THEOREM TelnetImplementsTabSession == Spec => IsTabSession
<1>1. Init => SessionsOfTabs!TabSessionInit
  BY DEF Init, CoreInit, SessionsOfTabs!TabSessionInit, DISCONNECT, CONNECTED
<1>2. IInv /\ [Next]_vars => [SessionsOfTabs!TabSessionNext]_SessionsOfTabs!tabSessionVars
  BY TelnetNext DEF Keeps, KeepsTabs, TabStep
<1>3. IInv /\ [Next]_vars =>
        [\A t \in Terminals : OffersReturn(t) <=> status[t] = CONNECTED /\ ChildExited(t)]_vars
  BY ExitsOffer
<1> QED BY <1>1, <1>2, <1>3, TelnetInvariant, PTL
        DEF Spec, IsTabSession, SessionsOfTabs!TabSessionSpec
=============================================================================

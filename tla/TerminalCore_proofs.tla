------------------------- MODULE TerminalCore_proofs -------------------------
(***************************************************************************)
(* What the operations that every protocol shares do to the types of the   *)
(* shared variables.                                                       *)
(***************************************************************************)
EXTENDS TerminalCore, TLAPS

LEMMA ButtonsType ==
  NoButtons \in Button /\ \A s : ButtonsFor(s) \in Button
BY DEF NoButtons, ButtonsFor, Button

\* lcrt_terminal_set_status keeps the types.
LEMMA SetStatusType ==
  ASSUME NEW S, LinkType(S), NEW t \in Terminals, NEW s \in S, SetStatus(t, s)
  PROVE  LinkType(S)'
BY ButtonsType DEF LinkType, SetStatus

\* A successful login keeps the types.
LEMMA SetConnectedType ==
  ASSUME NEW S, LinkType(S), KeyType, SaveType, CONNECTED \in S, NEW t \in Terminals,
         currentUser \in Users \cup {NoUser}, SetConnectedStatus(t)
  PROVE  LinkType(S)' /\ KeyType' /\ SaveType'
<1>1. LinkType(S)'
  BY SetStatusType DEF SetConnectedStatus
<1> QED BY <1>1 DEF SetConnectedStatus, KeyType, SaveType

\* The end of a session keeps the types.
LEMMA ArmReturnKeyType ==
  ASSUME NEW S, LinkType(S), KeyType, CHILD_EXIT \in S, NEW t \in Terminals, ArmReturnKey(t)
  PROVE  LinkType(S)' /\ KeyType'
<1>1. LinkType(S)'
  BY SetStatusType DEF ArmReturnKey
<1> QED BY <1>1 DEF ArmReturnKey, KeyType

\* A new page, whether or not it becomes current at once, keeps the types.
LEMMA NewPageWithType ==
  ASSUME NEW S, TabType, LinkType(S), KeyType, SaveType, NEW s \in S,
         NEW t \in Terminals, NEW u \in Users, NewPageWith(t, u, s), UNCHANGED keyVars,
         \/ SwitchPage(t, s)
         \/ current' = current /\ currentUser' = u /\ UNCHANGED toolbar
  PROVE  TabType' /\ LinkType(S)' /\ KeyType' /\ SaveType'
<1>1. TabType'
  BY DEF TabType, NewPageWith, SwitchPage
<1>2. LinkType(S)'
  BY ButtonsType DEF LinkType, NewPageWith, SwitchPage
<1> QED BY <1>1, <1>2 DEF NewPageWith, KeyType, SaveType, keyVars

LEMMA NewPageType ==
  ASSUME NEW S, TabType, LinkType(S), KeyType, SaveType, DISCONNECT \in S,
         NEW t \in Terminals, NEW u \in Users, NewPage(t, u),
         \/ SwitchPage(t, DISCONNECT)
         \/ current' = current /\ currentUser' = u /\ UNCHANGED toolbar
  PROVE  TabType' /\ LinkType(S)' /\ KeyType' /\ SaveType'
BY NewPageWithType DEF NewPage

\* Switching to an open page keeps the types.
LEMMA SwitchPageType ==
  ASSUME NEW S, TabType, LinkType(S), NEW t \in tabs, UNCHANGED <<tabs, user, status>>,
         NEW s, SwitchPage(t, s)
  PROVE  TabType' /\ LinkType(S)'
BY ButtonsType DEF TabType, LinkType, SwitchPage

\* Freeing a terminal keeps the types; the current terminal is an open one.
LEMMA DestroyPageType ==
  ASSUME NEW S, TabType, LinkType(S), KeyType, SaveType, DISCONNECT \in S,
         NEW t \in Terminals, DestroyPage(t)
  PROVE  TabType' /\ LinkType(S)' /\ KeyType' /\ SaveType'
<1>1. LinkType(S)'
  BY ButtonsType DEF LinkType, DestroyPage, SwitchPage, LastPageRemoved
<1>2. KeyType' /\ SaveType'
  BY DEF DestroyPage, KeyType, SaveType
<1>3. /\ tabs' = tabs \ {t} /\ tabs' \subseteq Terminals
      /\ user' \in [Terminals -> Users \cup {NoUser}]
      /\ \A n \in tabs' : user'[n] = user[n] /\ user'[n] \in Users
  BY DEF TabType, DestroyPage
<1>4. current' \in tabs' \cup {NoTerminal} /\ currentUser' \in Users \cup {NoUser}
  <2>1. CASE t # current /\ UNCHANGED <<current, currentUser>>
    BY <1>3, <2>1 DEF TabType
  <2>2. CASE \E n \in tabs \ {t} : SwitchPage(n, status[n])
    BY <1>3, <2>2 DEF SwitchPage
  <2>3. CASE LastPageRemoved
    BY <2>3 DEF TabType, LastPageRemoved
  <2> QED BY <2>1, <2>2, <2>3 DEF DestroyPage
<1> QED BY <1>1, <1>2, <1>3, <1>4 DEF TabType

-----------------------------------------------------------------------------
(* The invariant of the tabs and the steps that TabSession allows.  TabsInv *)
(* is CoreInv without the toolbar, which telnet does not keep in step.      *)
(***************************************************************************)
TabsInv == OneReturnHandler /\ HasCurrent /\ ClosedTabsAreQuiet
TabStep == SessionsOfTabs!TabSessionNext \/ UNCHANGED SessionsOfTabs!tabSessionVars
KeepsTabs == TabsInv' /\ TabStep
KeepsCore == CoreInv' /\ TabStep

LEMMA CoreParts ==
  /\ CoreInv <=> TabsInv /\ ToolbarFollowsStatus
  /\ KeepsCore <=> KeepsTabs /\ ToolbarFollowsStatus'
BY DEF CoreInv, TabsInv, KeepsCore, KeepsTabs

LEMMA TabsStutter ==
  ASSUME TabsInv, UNCHANGED <<tabs, current, status, keyVars>>
  PROVE  KeepsTabs
<1>1. TabsInv'
  BY DEF TabsInv, OneReturnHandler, HasCurrent, ClosedTabsAreQuiet, keyVars
<1>2. UNCHANGED SessionsOfTabs!tabSessionVars
  BY DEF SessionsOfTabs!tabSessionVars, keyVars
<1> QED BY <1>1, <1>2 DEF KeepsTabs, TabStep

\* lcrt takes connections down, or changes the status of a tab without one.
LEMMA TabsDrop ==
  ASSUME TabsInv, UNCHANGED <<tabs, current, keyVars>>,
         \A n \in Terminals : status'[n] = CONNECTED => status[n] = CONNECTED
  PROVE  KeepsTabs
<1>1. TabsInv'
  BY DEF TabsInv, OneReturnHandler, HasCurrent, ClosedTabsAreQuiet, keyVars
<1>2. TabStep
  <2> DEFINE live == {n \in Terminals : status[n] = CONNECTED}
             dropped == {n \in Terminals : status[n] = CONNECTED /\ status'[n] # CONNECTED}
  <2>1. dropped \in SUBSET live /\ live' = live \ dropped
    OBVIOUS
  <2>2. UNCHANGED <<tabs, {n \in Terminals : keyHandlers[n] # 0}>>
    BY DEF keyVars
  <2> HIDE DEF dropped
  <2> QED BY <2>1, <2>2 DEF TabStep, SessionsOfTabs!TabSessionNext, SessionsOfTabs!Drop
<1> QED BY <1>1, <1>2 DEF KeepsTabs

\* A login removes the Return handler, if there is one.
LEMMA TabsConnected ==
  ASSUME NEW S, TabType, LinkType(S), KeyType, TabsInv, UNCHANGED tabVars,
         NEW t \in tabs, SetConnectedStatus(t)
  PROVE  KeepsTabs
<1>1. t \in Terminals /\ UNCHANGED <<tabs, current>>
  BY DEF TabType, tabVars
<1>2. /\ status'[t] = CONNECTED /\ keyHandlers'[t] = 0 /\ ~signalConnected'[t]
      /\ \A n \in Terminals \ {t} :
           /\ status'[n] = status[n] /\ keyHandlers'[n] = keyHandlers[n]
           /\ signalConnected'[n] = signalConnected[n]
  <2>1. CASE signalConnected[t]
    BY <1>1, <2>1 DEF SetConnectedStatus, SetStatus, LinkType, KeyType
  <2>2. CASE ~signalConnected[t]
    <3>1. keyHandlers[t] = 0
      BY <1>1, <2>2 DEF TabsInv, OneReturnHandler
    <3> QED BY <1>1, <2>2, <3>1 DEF SetConnectedStatus, SetStatus, LinkType, KeyType
  <2> QED BY <2>1, <2>2
<1>4. TabsInv'
  BY <1>1, <1>2 DEF TabsInv, OneReturnHandler, HasCurrent, ClosedTabsAreQuiet
<1> DEFINE live == {n \in Terminals : status[n] = CONNECTED}
           armed == {n \in Terminals : keyHandlers[n] # 0}
<1>5. live' = live \cup {t} /\ armed' = armed \ {t}
  <2>1. \A n \in Terminals : /\ status'[n] = CONNECTED <=> n = t \/ status[n] = CONNECTED
                             /\ keyHandlers'[n] # 0 <=> n # t /\ keyHandlers[n] # 0
    BY <1>2
  <2> QED BY <1>1, <2>1
<1>6. CASE t \in live
  <2>1. t \notin armed
    BY <1>6 DEF TabsInv, OneReturnHandler
  <2> QED BY <1>1, <1>4, <1>5, <1>6, <2>1 DEF KeepsTabs, TabStep, SessionsOfTabs!tabSessionVars
<1>7. CASE t \notin live
  <2>1. SessionsOfTabs!Login(t)
    BY <1>1, <1>5, <1>7 DEF SessionsOfTabs!Login
  <2> QED BY <1>1, <1>4, <2>1 DEF KeepsTabs, TabStep, SessionsOfTabs!TabSessionNext
<1> QED BY <1>6, <1>7

\* A session that ends by itself arms the Return key, whatever status that
\* leaves.
LEMMA TabsArmWith ==
  ASSUME NEW S, TabType, LinkType(S), KeyType, TabsInv, UNCHANGED tabVars,
         NEW t \in tabs, status[t] = CONNECTED, NEW s, s # CONNECTED, SetStatus(t, s),
         keyHandlers' = [keyHandlers EXCEPT ![t] = @ + 1],
         signalConnected' = [signalConnected EXCEPT ![t] = TRUE]
  PROVE  KeepsTabs
<1>1. t \in Terminals /\ UNCHANGED <<tabs, current>>
  BY DEF TabType, tabVars
<1>2. /\ status'[t] = s /\ keyHandlers'[t] = 1 /\ signalConnected'[t]
      /\ \A n \in Terminals \ {t} :
           /\ status'[n] = status[n] /\ keyHandlers'[n] = keyHandlers[n]
           /\ signalConnected'[n] = signalConnected[n]
  BY <1>1 DEF SetStatus, LinkType, KeyType, TabsInv, OneReturnHandler
<1>4. TabsInv'
  <2>1. OneReturnHandler'
    BY <1>1, <1>2 DEF TabsInv, OneReturnHandler
  <2>2. ClosedTabsAreQuiet' /\ HasCurrent'
    BY <1>1, <1>2 DEF TabsInv, ClosedTabsAreQuiet, HasCurrent
  <2> QED BY <2>1, <2>2 DEF TabsInv
<1> DEFINE live == {n \in Terminals : status[n] = CONNECTED}
           armed == {n \in Terminals : keyHandlers[n] # 0}
<1>5. live' = live \ {t} /\ armed' = armed \cup {t} /\ t \in live
  <2>1. \A n \in Terminals : /\ status'[n] = CONNECTED <=> n # t /\ status[n] = CONNECTED
                             /\ keyHandlers'[n] # 0 <=> n = t \/ keyHandlers[n] # 0
    BY <1>2
  <2> QED BY <1>1, <2>1
<1>6. SessionsOfTabs!End(t)
  BY <1>1, <1>5 DEF SessionsOfTabs!End
<1> QED BY <1>1, <1>4, <1>6 DEF KeepsTabs, TabStep, SessionsOfTabs!TabSessionNext

LEMMA TabsArm ==
  ASSUME NEW S, TabType, LinkType(S), KeyType, TabsInv, UNCHANGED tabVars,
         NEW t \in tabs, status[t] = CONNECTED, ArmReturnKey(t)
  PROVE  KeepsTabs
<1>1. CHILD_EXIT # CONNECTED
  BY DEF CHILD_EXIT, CONNECTED
<1>2. /\ SetStatus(t, CHILD_EXIT)
      /\ keyHandlers' = [keyHandlers EXCEPT ![t] = @ + 1]
      /\ signalConnected' = [signalConnected EXCEPT ![t] = TRUE]
  BY DEF ArmReturnKey
<1> QED BY <1>1, <1>2, TabsArmWith

\* The user switches to another page.
LEMMA TabsSwitch ==
  ASSUME TabType, TabsInv, UNCHANGED <<tabs, status, keyVars>>,
         NEW t \in tabs, NEW s, SwitchPage(t, s)
  PROVE  KeepsTabs
<1>1. TabsInv'
  BY CoreAssumption
  DEF TabsInv, OneReturnHandler, HasCurrent, ClosedTabsAreQuiet, TabType, keyVars, SwitchPage
<1>2. UNCHANGED SessionsOfTabs!tabSessionVars
  BY DEF SessionsOfTabs!tabSessionVars, keyVars
<1> QED BY <1>1, <1>2 DEF KeepsTabs, TabStep

\* A page is added, its session up at once or not; with other pages there it
\* need not become current.
LEMMA TabsNewPageWith ==
  ASSUME NEW S, TabType, LinkType(S), TabsInv, NEW t \in Terminals, NEW u,
         NEW s, NewPageWith(t, u, s), UNCHANGED keyVars,
         \/ current' = t
         \/ tabs # {} /\ current' = current
  PROVE  KeepsTabs
<1>1. /\ t \notin tabs /\ tabs' = tabs \cup {t} /\ UNCHANGED keyVars
      /\ \A n \in Terminals : status'[n] = IF n = t THEN s ELSE status[n]
  BY DEF NewPageWith, LinkType
<1>2. status[t] # CONNECTED /\ keyHandlers[t] = 0
  BY <1>1 DEF TabsInv, ClosedTabsAreQuiet
<1>3. current \in tabs \cup {NoTerminal} /\ tabs \subseteq Terminals
  BY DEF TabType
<1>4. HasCurrent'
  <2>1. CASE current' = t
    BY <1>1, <2>1, CoreAssumption DEF HasCurrent
  <2>2. CASE tabs # {} /\ current' = current
    BY <1>1, <2>2 DEF TabsInv, HasCurrent
  <2> QED BY <2>1, <2>2
<1>5. TabsInv'
  BY <1>1, <1>2, <1>4 DEF TabsInv, OneReturnHandler, ClosedTabsAreQuiet, keyVars
<1> DEFINE live == {n \in Terminals : status[n] = CONNECTED}
           armed == {n \in Terminals : keyHandlers[n] # 0}
<1>6. live' \in {live, live \cup {t}} /\ armed' = armed
  <2>1. CASE s = CONNECTED
    BY <1>1, <1>2, <2>1 DEF keyVars
  <2>2. CASE s # CONNECTED
    BY <1>1, <1>2, <2>2 DEF keyVars
  <2> QED BY <2>1, <2>2
<1>7. SessionsOfTabs!Open(t)
  BY <1>1, <1>6 DEF SessionsOfTabs!Open
<1> QED BY <1>5, <1>7 DEF KeepsTabs, TabStep, SessionsOfTabs!TabSessionNext

\* A terminal is freed.
LEMMA TabsDestroy ==
  ASSUME NEW S, TabType, LinkType(S), KeyType, TabsInv, NEW t \in tabs, DestroyPage(t)
  PROVE  KeepsTabs
<1>1. /\ t \in Terminals /\ tabs' = tabs \ {t}
      /\ current \in tabs \cup {NoTerminal} /\ tabs \subseteq Terminals
  BY DEF DestroyPage, TabType
<1>2. /\ status'[t] = DISCONNECT /\ keyHandlers'[t] = 0 /\ ~signalConnected'[t]
      /\ \A n \in Terminals \ {t} :
           /\ status'[n] = status[n] /\ keyHandlers'[n] = keyHandlers[n]
           /\ signalConnected'[n] = signalConnected[n]
  BY <1>1 DEF DestroyPage, LinkType, KeyType
<1>3. HasCurrent'
  <2>1. CASE t # current /\ UNCHANGED <<current, toolbar>>
    BY <1>1, <1>2, <2>1, CoreAssumption DEF TabsInv, HasCurrent
  <2>2. CASE \E n \in tabs \ {t} : SwitchPage(n, status[n])
    BY <1>1, <1>2, <2>2, CoreAssumption DEF SwitchPage, HasCurrent
  <2>3. CASE tabs = {t} /\ LastPageRemoved
    BY <1>1, <2>3 DEF LastPageRemoved, HasCurrent
  <2> QED BY <2>1, <2>2, <2>3 DEF DestroyPage
<1>4. TabsInv'
  <2>1. OneReturnHandler'
    BY <1>1, <1>2 DEF TabsInv, OneReturnHandler, DISCONNECT, CONNECTED
  <2>2. ClosedTabsAreQuiet'
    BY <1>1, <1>2 DEF TabsInv, ClosedTabsAreQuiet, DISCONNECT, CONNECTED
  <2> QED BY <1>3, <2>1, <2>2 DEF TabsInv
<1> DEFINE live == {n \in Terminals : status[n] = CONNECTED}
           armed == {n \in Terminals : keyHandlers[n] # 0}
<1>5. live' = live \ {t} /\ armed' = armed \ {t}
  <2>1. \A n \in Terminals : /\ status'[n] = CONNECTED <=> n # t /\ status[n] = CONNECTED
                             /\ keyHandlers'[n] # 0 <=> n # t /\ keyHandlers[n] # 0
    BY <1>2 DEF DISCONNECT, CONNECTED
  <2> QED BY <1>1, <2>1
<1>6. SessionsOfTabs!Close(t)
  BY <1>1, <1>5 DEF SessionsOfTabs!Close
<1> QED BY <1>1, <1>4, <1>6 DEF KeepsTabs, TabStep, SessionsOfTabs!TabSessionNext

\* Nobody connects the Return handler.
NothingOffered == \A n \in Terminals : keyHandlers[n] = 0 => keyHandlers'[n] = 0

LEMMA KeysOffer == UNCHANGED keyVars => NothingOffered
BY DEF keyVars, NothingOffered

LEMMA ConnectedOffers ==
  ASSUME KeyType, NEW t \in Terminals, SetConnectedStatus(t)
  PROVE  NothingOffered
BY DEF KeyType, SetConnectedStatus, NothingOffered

LEMMA DestroyOffers ==
  ASSUME KeyType, NEW t \in Terminals, DestroyPage(t)
  PROVE  NothingOffered
BY DEF KeyType, DestroyPage, NothingOffered

\* An exit that arms the Return handler of a connected tab offers it there only.
LEMMA ArmOffers ==
  ASSUME KeyType, TabsInv, NEW t \in Terminals, status[t] = CONNECTED, ArmReturnKey(t)
  PROVE  \A n \in Terminals : OffersReturn(n) <=> n = t
<1>1. keyHandlers[t] = 0
  BY DEF TabsInv, OneReturnHandler
<1>2. keyHandlers'[t] = 1 /\ \A n \in Terminals \ {t} : keyHandlers'[n] = keyHandlers[n]
  BY <1>1 DEF KeyType, ArmReturnKey
<1> QED BY <1>1, <1>2 DEF OffersReturn

-----------------------------------------------------------------------------
(* The same with the toolbar, for the protocols whose status word is not a *)
(* set of bits.                                                            *)
(***************************************************************************)
LEMMA CoreStutter ==
  ASSUME CoreInv, UNCHANGED <<tabs, current, status, toolbar, keyVars>>
  PROVE  KeepsCore
<1>1. ToolbarFollowsStatus'
  BY DEF CoreInv, ToolbarFollowsStatus
<1> QED BY <1>1, CoreParts, TabsStutter

LEMMA CoreDrop ==
  ASSUME CoreInv, UNCHANGED <<tabs, current, keyVars>>,
         \A n \in Terminals : status'[n] = CONNECTED => status[n] = CONNECTED,
         ToolbarFollowsStatus'
  PROVE  KeepsCore
BY CoreParts, TabsDrop

LEMMA ToolbarSetStatus ==
  ASSUME NEW S, TabType, LinkType(S), ToolbarFollowsStatus, UNCHANGED current,
         NEW t \in tabs, NEW s, SetStatus(t, s)
  PROVE  ToolbarFollowsStatus'
<1>1. t \in Terminals /\ current \in Terminals \cup {NoTerminal}
  BY DEF TabType
<1>2. \A n \in Terminals : status'[n] = IF n = t THEN s ELSE status[n]
  BY DEF SetStatus, LinkType
<1> QED BY <1>1, <1>2, CoreAssumption DEF ToolbarFollowsStatus, SetStatus

LEMMA CoreSetStatus ==
  ASSUME NEW S, TabType, LinkType(S), CoreInv, UNCHANGED <<tabs, current, keyVars>>,
         NEW t \in tabs, NEW s \in S, s # CONNECTED, SetStatus(t, s)
  PROVE  KeepsCore
<1>1. \A n \in Terminals : status'[n] = IF n = t THEN s ELSE status[n]
  BY DEF SetStatus, LinkType
<1>2. ToolbarFollowsStatus'
  BY CoreParts, ToolbarSetStatus
<1> QED BY <1>1, <1>2, CoreDrop

LEMMA CoreConnected ==
  ASSUME NEW S, TabType, LinkType(S), KeyType, CoreInv, UNCHANGED tabVars,
         NEW t \in tabs, SetConnectedStatus(t)
  PROVE  KeepsCore
<1>1. ToolbarFollowsStatus'
  BY CoreParts, ToolbarSetStatus DEF SetConnectedStatus, tabVars
<1> QED BY <1>1, CoreParts, TabsConnected

LEMMA CoreArmWith ==
  ASSUME NEW S, TabType, LinkType(S), KeyType, CoreInv, UNCHANGED tabVars,
         NEW t \in tabs, status[t] = CONNECTED, NEW s, s # CONNECTED, SetStatus(t, s),
         keyHandlers' = [keyHandlers EXCEPT ![t] = @ + 1],
         signalConnected' = [signalConnected EXCEPT ![t] = TRUE]
  PROVE  KeepsCore
<1>1. ToolbarFollowsStatus'
  BY CoreParts, ToolbarSetStatus DEF tabVars
<1> QED BY <1>1, CoreParts, TabsArmWith

LEMMA CoreArm ==
  ASSUME NEW S, TabType, LinkType(S), KeyType, CoreInv, UNCHANGED tabVars,
         NEW t \in tabs, status[t] = CONNECTED, ArmReturnKey(t)
  PROVE  KeepsCore
<1>1. ToolbarFollowsStatus'
  BY CoreParts, ToolbarSetStatus DEF ArmReturnKey, tabVars
<1> QED BY <1>1, CoreParts, TabsArm

LEMMA CoreSwitch ==
  ASSUME TabType, CoreInv, UNCHANGED <<tabs, status, keyVars>>,
         NEW t \in tabs, SwitchPage(t, status[t])
  PROVE  KeepsCore
<1>1. ToolbarFollowsStatus'
  BY CoreAssumption DEF ToolbarFollowsStatus, SwitchPage, TabType
<1> QED BY <1>1, CoreParts, TabsSwitch

LEMMA CoreNewPageWith ==
  ASSUME NEW S, TabType, LinkType(S), CoreInv, NEW t \in Terminals, NEW u,
         NEW s, NewPageWith(t, u, s), UNCHANGED keyVars,
         \/ SwitchPage(t, s)
         \/ tabs # {} /\ current' = current /\ UNCHANGED toolbar
  PROVE  KeepsCore
<1>1. /\ t \notin tabs
      /\ \A n \in Terminals : status'[n] = IF n = t THEN s ELSE status[n]
  BY DEF NewPageWith, LinkType
<1>2. current \in tabs \cup {NoTerminal} /\ tabs \subseteq Terminals
  BY DEF TabType
<1>3. ToolbarFollowsStatus'
  <2>1. CASE SwitchPage(t, s)
    BY <1>1, <2>1, CoreAssumption DEF SwitchPage, ToolbarFollowsStatus
  <2>2. CASE tabs # {} /\ current' = current /\ UNCHANGED toolbar
    BY <1>1, <1>2, <2>2 DEF CoreInv, ToolbarFollowsStatus
  <2> QED BY <2>1, <2>2
<1>4. \/ current' = t
      \/ tabs # {} /\ current' = current
  BY DEF SwitchPage
<1> QED BY <1>3, <1>4, CoreParts, TabsNewPageWith

LEMMA CoreNewPage ==
  ASSUME NEW S, TabType, LinkType(S), CoreInv, NEW t \in Terminals, NEW u, NewPage(t, u),
         \/ SwitchPage(t, DISCONNECT)
         \/ tabs # {} /\ current' = current /\ UNCHANGED toolbar
  PROVE  KeepsCore
BY CoreNewPageWith DEF NewPage

LEMMA CoreDestroy ==
  ASSUME NEW S, TabType, LinkType(S), KeyType, CoreInv, NEW t \in tabs, DestroyPage(t)
  PROVE  KeepsCore
<1>1. /\ t \in Terminals /\ tabs' = tabs \ {t}
      /\ current \in tabs \cup {NoTerminal} /\ tabs \subseteq Terminals
      /\ \A n \in Terminals \ {t} : status'[n] = status[n]
  BY DEF DestroyPage, TabType, LinkType
<1>2. ToolbarFollowsStatus'
  <2>1. CASE t # current /\ UNCHANGED <<current, toolbar>>
    BY <1>1, <2>1, CoreAssumption DEF CoreInv, ToolbarFollowsStatus
  <2>2. CASE \E n \in tabs \ {t} : SwitchPage(n, status[n])
    BY <1>1, <2>2, CoreAssumption DEF SwitchPage, ToolbarFollowsStatus
  <2>3. CASE tabs = {t} /\ LastPageRemoved
    BY <1>1, <2>3 DEF LastPageRemoved, ToolbarFollowsStatus
  <2> QED BY <2>1, <2>2, <2>3 DEF DestroyPage
<1> QED BY <1>2, CoreParts, TabsDestroy

(***************************************************************************)
(* What the promise of a tab implies.  Every protocol shown to implement   *)
(* TabSession inherits it.                                                 *)
(***************************************************************************)
\* Return never offers to connect where a session is up, and nothing runs and
\* nothing is offered in a tab that was closed.
THEOREM OfferedOnlyWhereNothingRuns ==
  SessionsOfTabs!TabSessionSpec => []SessionsOfTabs!OfferedWhereNothingRuns
<1> DEFINE live == {n \in Terminals : status[n] = CONNECTED}
           armed == {n \in Terminals : keyHandlers[n] # 0}
           Offered == tabs \subseteq Terminals /\ live \subseteq tabs /\ armed \subseteq tabs \ live
<1>0. SessionsOfTabs!OfferedWhereNothingRuns <=> Offered
  BY DEF SessionsOfTabs!OfferedWhereNothingRuns
<1>1. SessionsOfTabs!TabSessionInit => Offered
  BY DEF SessionsOfTabs!TabSessionInit
<1>2. ASSUME Offered, [SessionsOfTabs!TabSessionNext]_SessionsOfTabs!tabSessionVars
      PROVE  Offered'
  <2>1. ASSUME NEW t \in Terminals, SessionsOfTabs!Open(t) PROVE Offered'
    BY <1>2, <2>1 DEF SessionsOfTabs!Open
  <2>2. ASSUME NEW t \in Terminals, SessionsOfTabs!Login(t) PROVE Offered'
    BY <1>2, <2>2 DEF SessionsOfTabs!Login
  <2>3. ASSUME NEW t \in Terminals, SessionsOfTabs!End(t) PROVE Offered'
    BY <1>2, <2>3 DEF SessionsOfTabs!End
  <2>4. ASSUME NEW t \in Terminals, SessionsOfTabs!Close(t) PROVE Offered'
    BY <1>2, <2>4 DEF SessionsOfTabs!Close
  <2>5. ASSUME NEW S \in SUBSET live, SessionsOfTabs!Drop(S) PROVE Offered'
    BY <1>2, <2>5 DEF SessionsOfTabs!Drop
  <2>6. CASE UNCHANGED SessionsOfTabs!tabSessionVars
    BY <1>2, <2>6 DEF SessionsOfTabs!tabSessionVars
  <2> QED BY <1>2, <2>1, <2>2, <2>3, <2>4, <2>5, <2>6 DEF SessionsOfTabs!TabSessionNext
<1> HIDE DEF Offered
<1> QED BY <1>0, <1>1, <1>2, PTL DEF SessionsOfTabs!TabSessionSpec
=============================================================================

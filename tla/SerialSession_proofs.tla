------------------------- MODULE SerialSession_proofs -------------------------
(***************************************************************************)
(* Proofs about SerialSession for any number of tabs, session records and  *)
(* descriptors.                                                            *)
(***************************************************************************)
EXTENDS SerialSession, TerminalCore_proofs, SequenceTheorems, WellFoundedInduction

SerialStatus == {DISCONNECT, CONNECTED}

LEMMA StatusIn == DISCONNECT \in SerialStatus /\ CONNECTED \in SerialStatus /\ DISCONNECT # CONNECTED
BY DEF SerialStatus, DISCONNECT, CONNECTED

LEMMA LowestNumber ==
  ASSUME NEW S \in SUBSET Nat, S # {}
  PROVE  \E f \in S : \A g \in S : f <= g
<1> DEFINE R == OpToRel(<, Nat)
<1>1. IsWellFoundedOn(R, Nat)
  BY NatLessThanWellFounded
<1>2. \A x, y \in Nat : x < y => <<x, y>> \in R
  BY DEF OpToRel
<1> HIDE DEF R
<1>3. PICK f \in S : \A g \in S : ~(<<g, f>> \in R)
  BY <1>1, WFMin
<1>4. \A g \in S : f <= g
  <2>1. ASSUME NEW g \in S PROVE ~(g < f)
    BY <1>2, <1>3
  <2> QED BY <2>1
<1> QED BY <1>4

\* open returns a descriptor that is free.
LEMMA NextFdIsFree ==
  ASSUME opened \subseteq Fds, opened # Fds
  PROVE  NextFd \in Fds \ opened
<1>1. Fds \ opened \in SUBSET Nat /\ Fds \ opened # {}
  <2>1. Fds \in SUBSET Nat
    BY SerialAssumption DEF Fds
  <2> QED BY <2>1
<1>2. \E f \in Fds \ opened : \A g \in Fds \ opened : f <= g
  BY <1>1, LowestNumber
<1> QED BY <1>2 DEF NextFd

LEMMA ZeroIsNoFd == 0 \notin Fds
BY DEF Fds

-----------------------------------------------------------------------------
(* The stack of suspended handlers.                                        *)
(***************************************************************************)
LEMMA NoFramesFit == \A open : StackFits(<<>>, open)
BY DEF StackFits

LEMMA FitsPush ==
  ASSUME NEW open, NEW s, StackFits(s, open), NEW f \in Frames, FrameTerminals(f) \subseteq open,
         f.kind = "confirm_close" => s = <<>>
  PROVE  StackFits(<<f>> \o s, open) /\ \A page : PageWaits(s, page) => PageWaits(<<f>> \o s, page)
<1> DEFINE r == <<f>> \o s
<1>1. <<f>> \in Seq(Frames) /\ Len(<<f>>) = 1 /\ <<f>>[1] = f /\ s \in Seq(Frames)
  BY DEF StackFits
<1>2. /\ r \in Seq(Frames) /\ Len(s) \in Nat /\ Len(r) = Len(s) + 1
      /\ \A i \in 1..Len(r) : r[i] = IF i = 1 THEN f ELSE s[i - 1]
  BY <1>1, ConcatProperties, LenProperties
<1> HIDE DEF r
<1>3. s = <<>> => Len(r) = 1
  BY <1>2
<1>4. ASSUME NEW i \in 1..Len(r)
      PROVE  FrameTerminals(r[i]) \subseteq open /\ (r[i].kind = "confirm_close" => i = Len(r))
  <2>1. CASE i = 1
    BY <1>2, <1>3, <2>1
  <2>2. CASE i # 1
    <3>1. i - 1 \in 1..Len(s) /\ r[i] = s[i - 1] /\ (i - 1 = Len(s) => i = Len(r))
      BY <1>2, <2>2
    <3> QED BY <3>1 DEF StackFits
  <2> QED BY <2>1, <2>2
<1>5. StackFits(r, open)
  BY <1>2, <1>4 DEF StackFits
<1>6. ASSUME NEW page, PageWaits(s, page) PROVE PageWaits(r, page)
  <2>1. PICK i \in 1..Len(s) : s[i].kind = "new_page" /\ s[i].term # page
    BY <1>6 DEF PageWaits
  <2>2. i + 1 \in 1..Len(r) /\ r[i + 1] = s[i]
    BY <1>2
  <2> QED BY <2>1, <2>2 DEF PageWaits
<1> QED BY <1>5, <1>6 DEF r

LEMMA FitsPop ==
  ASSUME NEW open, NEW s, StackFits(s, open), s # <<>>
  PROVE  /\ Head(s) \in Frames /\ FrameTerminals(Head(s)) \subseteq open
         /\ Head(s).kind = "confirm_close" => Tail(s) = <<>>
         /\ StackFits(Tail(s), open)
         /\ \A page : PageWaits(s, page) =>
              \/ Head(s).kind = "new_page" /\ Head(s).term # page
              \/ PageWaits(Tail(s), page)
<1> DEFINE r == Tail(s)
           f == Head(s)
<1>1. s \in Seq(Frames) /\ Len(s) \in Nat /\ Len(s) # 0
  BY EmptySeq DEF StackFits
<1>2. /\ f \in Frames /\ f = s[1]
      /\ r \in Seq(Frames) /\ Len(r) = Len(s) - 1
      /\ \A i \in 1..Len(r) : r[i] = s[i + 1]
  BY <1>1, HeadTailProperties
<1> HIDE DEF r, f
<1>0. Len(r) = 0 => r = <<>>
  BY <1>2, EmptySeq
<1>3. FrameTerminals(f) \subseteq open /\ (f.kind = "confirm_close" => r = <<>>)
  BY <1>0, <1>1, <1>2 DEF StackFits
<1>4. StackFits(r, open)
  <2>1. ASSUME NEW i \in 1..Len(r)
        PROVE  FrameTerminals(r[i]) \subseteq open /\ (r[i].kind = "confirm_close" => i = Len(r))
    <3>1. i + 1 \in 1..Len(s) /\ r[i] = s[i + 1] /\ (i + 1 = Len(s) => i = Len(r))
      BY <1>1, <1>2
    <3> QED BY <3>1 DEF StackFits
  <2> QED BY <1>2, <2>1 DEF StackFits
<1>5. ASSUME NEW page, PageWaits(s, page)
      PROVE  (f.kind = "new_page" /\ f.term # page) \/ PageWaits(r, page)
  <2>1. PICK i \in 1..Len(s) : s[i].kind = "new_page" /\ s[i].term # page
    BY <1>5 DEF PageWaits
  <2>2. CASE i = 1
    BY <1>2, <2>1, <2>2
  <2>3. CASE i # 1
    <3>1. i - 1 \in 1..Len(r) /\ r[i - 1] = s[i]
      BY <1>1, <1>2, <2>3
    <3> QED BY <2>1, <3>1 DEF PageWaits
  <2> QED BY <2>2, <2>3
<1> QED BY <1>2, <1>3, <1>4, <1>5 DEF r, f

LEMMA FrameFits ==
  ASSUME NEW open \in SUBSET Terminals, NEW t \in open,
         NEW kind \in {"notice", "notice_key", "new_page", "confirm_close"}
  PROVE  /\ Frame(kind, t) \in Frames /\ FrameTerminals(Frame(kind, t)) \subseteq open
         /\ Frame(kind, t).kind = kind /\ Frame(kind, t).term = t
BY DEF Frame, Frames, FrameTerminals, Loops

LEMMA LoopFits ==
  ASSUME NEW open \in SUBSET Terminals, NEW todo \in SUBSET open, NEW kind \in Loops
  PROVE  LET f == [kind |-> kind, todo |-> todo]
         IN  f \in Frames /\ FrameTerminals(f) \subseteq open /\ f.kind \in Loops
BY DEF Frames, FrameTerminals, Loops

-----------------------------------------------------------------------------
(* The invariant in parts.                                                 *)
(***************************************************************************)
Shared == TabType /\ LinkType(SerialStatus) /\ KeyType /\ SaveType
Devices ==
  /\ plugged \in [Users -> BOOLEAN] /\ unread \in [Users -> BOOLEAN]
  /\ drawn \in [Terminals -> BOOLEAN] /\ app \in {"up", "segv", "freed"}
Front == current # NoTerminal /\ ~PageWaits(stack, current) => currentUser = user[current]

LEMMA InParts ==
  IInv <=> Shared /\ Devices /\ CoreInv /\ Front /\ StackFits(stack, tabs) /\ PortsFit
BY DEF IInv, TypeOK, Shared, Devices, Front, StackFits, PortsFit, SerialStatus

LEMMA InPartsNext ==
  Shared' /\ Devices' /\ CoreInv' /\ Front' /\ StackFits(stack', tabs') /\ PortsFit' => IInv'
BY DEF IInv, TypeOK, Shared, Devices, Front, StackFits, PortsFit, SerialStatus

Keeps == IInv' /\ KeepsCore

LEMMA KeepsFromParts ==
  Shared' /\ Devices' /\ KeepsCore /\ Front' /\ StackFits(stack', tabs') /\ PortsFit' => Keeps
BY InPartsNext DEF Keeps, KeepsCore

LEMMA CurrentIsTab ==
  ASSUME IInv
  PROVE  /\ tabs \in SUBSET Terminals /\ current \in tabs \cup {NoTerminal}
         /\ \A t \in tabs : user[t] \in Users /\ t \in Terminals
BY InParts DEF Shared, TabType

LEMMA SameShared ==
  ASSUME Shared, UNCHANGED <<tabVars, linkVars, keyVars, saveVars>>
  PROVE  Shared'
BY DEF Shared, tabVars, linkVars, keyVars, saveVars, TabType, LinkType, KeyType, SaveType

-----------------------------------------------------------------------------
(* The descriptors.                                                        *)
(***************************************************************************)
\* A tab that is not there has no port.
LEMMA ClosedHasNoPort ==
  ASSUME PortsFit, tabs \subseteq Terminals, NEW t \in Terminals, t \notin tabs
  PROVE  private[t] = 0
BY CoreAssumption DEF PortsFit, PortIsItsOwn

LEMMA PortsSame ==
  ASSUME PortsFit, UNCHANGED <<opened, hung, device, holder, orphans, ready, private>>,
         tabs \subseteq tabs', \A t \in tabs : user'[t] = user[t], tabs \subseteq Terminals
  PROVE  PortsFit'
<1>1. PortIsItsOwn'
  BY CoreAssumption DEF PortsFit, PortIsItsOwn
<1> QED BY <1>1 DEF PortsFit

\* lcrt_serial_connect opens the device.
LEMMA PortsOpen ==
  ASSUME PortsFit, tabs \subseteq Terminals, NEW t \in Terminals, NEW u \in Users, OpenPort(t, u),
         t \in tabs', tabs \subseteq tabs', user'[t] = u, \A n \in tabs \ {t} : user'[n] = user[n]
  PROVE  PortsFit'
<1> DEFINE fd == NextFd
<1>1. fd \in Fds \ opened
  BY NextFdIsFree DEF OpenPort, PortsFit
<1>2. /\ opened' = opened \cup {fd} /\ device' = [device EXCEPT ![fd] = u]
      /\ holder' = [holder EXCEPT ![fd] = t] /\ private' = [private EXCEPT ![t] = fd]
      /\ UNCHANGED <<hung, orphans, ready>>
  BY DEF OpenPort
<1> HIDE DEF fd
<1>3. /\ device' \in [Fds -> Users \cup {NoUser}] /\ holder' \in [Fds -> tabs' \cup {NoTerminal}]
      /\ private' \in [Terminals -> Fds \cup {0}]
  BY <1>1, <1>2 DEF PortsFit
<1>4. /\ device'[fd] = u /\ holder'[fd] = t /\ private'[t] = fd
      /\ \A f \in Fds \ {fd} : device'[f] = device[f] /\ holder'[f] = holder[f]
      /\ \A n \in Terminals \ {t} : private'[n] = private[n]
  BY <1>1, <1>2 DEF PortsFit
<1>5. \A f \in Fds : holder'[f] # NoTerminal => f \in opened' \ orphans'
  BY <1>1, <1>2, <1>4 DEF PortsFit
<1>6. ready' \subseteq {f \in opened' : holder'[f] # NoTerminal \/ f \in orphans'}
  BY <1>1, <1>2, <1>4 DEF PortsFit
<1>7. PortIsItsOwn'
  <2>1. ASSUME NEW n \in Terminals, private'[n] # 0
        PROVE  /\ private'[n] \in opened' /\ holder'[private'[n]] = n
               /\ device'[private'[n]] = user'[n]
    <3>1. CASE n = t
      BY <1>2, <1>4, <3>1
    <3>2. CASE n # t
      <4>1. private'[n] = private[n]
        BY <1>4, <3>2
      <4>2. /\ private[n] \in opened /\ holder[private[n]] = n /\ device[private[n]] = user[n]
            /\ n \in tabs
        BY <2>1, <4>1, CoreAssumption DEF PortsFit, PortIsItsOwn
      <4>3. private[n] \in Fds \ {fd}
        BY <1>1, <4>2 DEF PortsFit
      <4> QED BY <1>2, <1>4, <3>2, <4>1, <4>2, <4>3
    <3> QED BY <3>1, <3>2
  <2> QED BY <2>1 DEF PortIsItsOwn
<1> QED BY <1>1, <1>2, <1>3, <1>5, <1>6, <1>7 DEF PortsFit

\* lcrt_serial_disconnect of tab t, when "gone" are the tab's watches that go with
\* it and those in "lost" go on without their terminal.
LEMMA PortsClose ==
  ASSUME PortsFit, tabs \subseteq Terminals, NEW t \in tabs, tabs' \subseteq tabs,
         tabs \ {t} \subseteq tabs', \A n \in tabs \ {t} : user'[n] = user[n],
         opened' = opened \/ opened' = opened \ {private[t]}, DropClosed,
         NEW gone, private[t] \in gone \/ private[t] = 0,
         \A f \in gone : f \in Fds => holder[f] = t,
         holder' = [f \in Fds |-> IF f \in gone THEN NoTerminal ELSE holder[f]],
         t \in tabs' \/ \A f \in Fds : holder[f] = t => f \in gone,
         orphans' = orphans \cup {f \in gone : f \in Fds /\ f # private[t] /\ t \notin tabs'},
         ready' \subseteq ready \ {private[t]},
         t \in tabs' => gone \subseteq {private[t]},
         private' = [private EXCEPT ![t] = 0]
  PROVE  PortsFit'
<1>1. /\ t \in Terminals /\ t # NoTerminal /\ private[t] \in Fds \cup {0} /\ 0 \notin Fds
      /\ orphans \subseteq opened /\ hung \subseteq opened /\ ready \subseteq opened /\ opened \subseteq Fds
  BY ZeroIsNoFd, CoreAssumption DEF PortsFit
<1>2. /\ device' = [f \in Fds |-> IF f \in opened' THEN device[f] ELSE NoUser]
      /\ hung' \subseteq opened' /\ opened' \subseteq Fds
  BY <1>1 DEF DropClosed
<1>3. private[t] \notin orphans
  BY <1>1 DEF PortsFit, PortIsItsOwn
<1>4. orphans' \subseteq opened'
  <2>1. ASSUME NEW f \in orphans' PROVE f \in opened'
    <3>1. f \in opened /\ f # private[t]
      BY <1>1, <1>3, <2>1 DEF PortsFit
    <3> QED BY <3>1
  <2> QED BY <2>1
<1>5. device' \in [Fds -> Users \cup {NoUser}] /\ private' \in [Terminals -> Fds \cup {0}]
  BY <1>1, <1>2 DEF PortsFit
<1>6. holder' \in [Fds -> tabs' \cup {NoTerminal}]
  <2>1. ASSUME NEW f \in Fds PROVE (IF f \in gone THEN NoTerminal ELSE holder[f]) \in tabs' \cup {NoTerminal}
    <3>1. holder[f] \in tabs \cup {NoTerminal}
      BY DEF PortsFit
    <3> QED BY <3>1
  <2> QED BY <2>1
<1>7. ASSUME NEW f \in Fds, holder'[f] # NoTerminal PROVE f \in opened' \ orphans'
  <2>1. f \notin gone /\ holder[f] # NoTerminal
    BY <1>7
  <2>2. f \in opened \ orphans /\ f # private[t]
    BY <1>1, <2>1 DEF PortsFit
  <2> QED BY <2>1, <2>2
<1>8. ASSUME NEW f \in ready' PROVE f \in opened' /\ (holder'[f] # NoTerminal \/ f \in orphans')
  <2>1. f \in ready /\ f # private[t] /\ f \in opened /\ f \in Fds
    BY <1>1, <1>8
  <2>2. holder[f] # NoTerminal \/ f \in orphans
    BY <2>1 DEF PortsFit
  <2>3. CASE f \in gone
    BY <2>1, <2>3
  <2>4. CASE f \notin gone
    BY <2>1, <2>2, <2>4
  <2> QED BY <2>1, <2>3, <2>4
<1>9. PortIsItsOwn'
  <2>1. ASSUME NEW n \in Terminals, private'[n] # 0
        PROVE  /\ private'[n] \in opened' /\ holder'[private'[n]] = n
               /\ device'[private'[n]] = user'[n]
    <3>1. n # t /\ private'[n] = private[n]
      BY <1>1, <2>1 DEF PortsFit
    <3>2. /\ private[n] \in opened /\ holder[private[n]] = n /\ device[private[n]] = user[n]
          /\ private[n] \in Fds /\ n \in tabs
      BY <1>1, <2>1, <3>1, CoreAssumption DEF PortsFit, PortIsItsOwn
    <3>3. private[n] \notin gone /\ private[n] # private[t]
      BY <1>1, <2>1, <3>1, <3>2
    <3>4. private[n] \in opened'
      BY <3>2, <3>3
    <3> QED BY <1>2, <3>1, <3>2, <3>3, <3>4
  <2> QED BY <2>1 DEF PortIsItsOwn
<1> QED BY <1>2, <1>4, <1>5, <1>6, <1>7, <1>8, <1>9 DEF PortsFit

-----------------------------------------------------------------------------
(* What the steps have in common.                                          *)
(***************************************************************************)
LEMMA NoPageWaits == \A page : ~PageWaits(<<>>, page)
BY DEF PageWaits

LEMMA SameFront ==
  ASSUME Front, UNCHANGED tabVars, PageWaits(stack, current) => PageWaits(stack', current)
  PROVE  Front'
<1>1. UNCHANGED <<tabs, current, currentUser, user>>
  BY DEF tabVars
<1> QED BY <1>1 DEF Front

\* A step that leaves the notebook, the status words and the Return keys alone.
LEMMA QuietKeeps ==
  ASSUME IInv, UNCHANGED <<tabVars, linkVars, keyVars, saveVars>>, Devices', PortsFit',
         StackFits(stack', tabs), PageWaits(stack, current) => PageWaits(stack', current)
  PROVE  Keeps
<1>0. Shared /\ Front /\ CoreInv
  BY InParts
<1>1. UNCHANGED <<tabs, current, status, toolbar>>
  BY DEF tabVars, linkVars
<1>2. Shared' /\ Front'
  BY <1>0, SameShared, SameFront
<1>3. KeepsCore
  BY <1>0, <1>1, CoreStutter
<1>4. StackFits(stack', tabs')
  BY <1>1
<1> QED BY <1>2, <1>3, <1>4, KeepsFromParts

\* The same, and no descriptor changes.
LEMMA UnmovedKeeps ==
  ASSUME IInv, Unmoved, app' \in {"up", "segv", "freed"},
         StackFits(stack', tabs), PageWaits(stack, current) => PageWaits(stack', current)
  PROVE  Keeps
<1>0. Devices /\ PortsFit /\ tabs \subseteq Terminals
  BY InParts, CurrentIsTab
<1>1. /\ UNCHANGED <<tabVars, linkVars, keyVars, saveVars, tabs, user, plugged, unread, drawn>>
      /\ UNCHANGED <<opened, hung, device, holder, orphans, ready, private>>
  BY DEF Unmoved, tabVars, deviceVars, fdVars
<1>2. Devices' /\ PortsFit'
  BY <1>0, <1>1, PortsSame DEF Devices
<1> QED BY <1>1, <1>2, QuietKeeps

\* The status and the Return key when a port goes.
LEMMA DownCore ==
  ASSUME Shared, CoreInv, UNCHANGED <<tabVars, saveVars>>, NEW t \in tabs, Down(t)
  PROVE  Shared' /\ KeepsCore
<1>0. t \in Terminals /\ UNCHANGED <<tabs, current, currentUser, user>>
  BY DEF Shared, TabType, tabVars
<1>1. CASE status[t] = CONNECTED
  <2>1. /\ keyHandlers' = [keyHandlers EXCEPT ![t] = @ + 1]
        /\ signalConnected' = [signalConnected EXCEPT ![t] = TRUE]
        /\ SetStatus(t, DISCONNECT)
    BY <1>1 DEF Down
  <2>2. LinkType(SerialStatus)'
    BY <1>0, <2>1, StatusIn, SetStatusType DEF Shared
  <2>3. TabType' /\ KeyType' /\ SaveType'
    BY <1>0, <2>1 DEF Shared, TabType, KeyType, SaveType, saveVars
  <2>4. KeepsCore
    BY <1>0, <1>1, <2>1, StatusIn, CoreArmWith DEF Shared
  <2> QED BY <2>2, <2>3, <2>4 DEF Shared
<1>2. CASE status[t] # CONNECTED
  <2>1. UNCHANGED <<linkVars, keyVars>>
    BY <1>2 DEF Down
  <2> QED BY <1>0, <2>1, SameShared, CoreStutter DEF linkVars
<1> QED BY <1>1, <1>2

\* lcrt_serial_disconnect of an open tab, and what stays suspended.
LEMMA DisconnectKeeps ==
  ASSUME IInv, NEW t \in tabs, Down(t),
         opened' = IF status[t] = CONNECTED THEN opened \ {private[t]} ELSE opened,
         holder' = [f \in Fds |-> IF f = private[t] THEN NoTerminal ELSE holder[f]],
         DropClosed, ready' \subseteq ready \ {private[t]},
         private' = [private EXCEPT ![t] = 0],
         UNCHANGED <<tabVars, saveVars, deviceVars, orphans, drawn, app>>,
         StackFits(stack', tabs), PageWaits(stack, current) => PageWaits(stack', current)
  PROVE  Keeps
<1>0. Shared /\ Front /\ CoreInv /\ PortsFit /\ Devices /\ tabs \in SUBSET Terminals
  BY InParts, CurrentIsTab
<1>1. UNCHANGED <<tabs, user, plugged, unread>>
  BY DEF tabVars, deviceVars
<1>2. Shared' /\ KeepsCore
  BY <1>0, DownCore
<1>3. PortsFit'
  <2> DEFINE gone == {private[t]}
  <2>1. \A f \in gone : f \in Fds => holder[f] = t
    BY <1>0, ZeroIsNoFd DEF PortsFit, PortIsItsOwn
  <2>2. holder' = [f \in Fds |-> IF f \in gone THEN NoTerminal ELSE holder[f]]
    OBVIOUS
  <2>3. orphans' = orphans \cup {f \in gone : f \in Fds /\ f # private[t] /\ t \notin tabs'}
    BY <1>1
  <2>4. private[t] \in gone /\ gone \subseteq {private[t]}
    OBVIOUS
  <2>5. opened' = opened \/ opened' = opened \ {private[t]}
    OBVIOUS
  <2> HIDE DEF gone
  <2> QED BY <1>0, <1>1, <2>1, <2>2, <2>3, <2>4, <2>5, PortsClose
<1>4. Devices' /\ Front' /\ StackFits(stack', tabs')
  BY <1>0, <1>1, SameFront DEF Devices
<1> QED BY <1>2, <1>3, <1>4, KeepsFromParts

\* lcrt_serial_connect of a page that exists.
LEMMA ConnectKeeps ==
  ASSUME IInv, NEW t \in tabs, NEW kind \in {"notice", "notice_key"}, NEW rest,
         \/ Connect(t, Frame(kind, t), rest, UNCHANGED linkVars)
         \/ Connect(t, Frame(kind, t), rest, SetStatus(t, DISCONNECT)),
         UNCHANGED tabVars, StackFits(rest, tabs),
         PageWaits(stack, current) => PageWaits(rest, current)
  PROVE  Keeps
<1>0. /\ Shared /\ Front /\ CoreInv /\ PortsFit /\ Devices
      /\ tabs \in SUBSET Terminals /\ t \in Terminals /\ user[t] \in Users
      /\ UNCHANGED <<tabs, current, currentUser, user>>
  BY InParts, CurrentIsTab DEF tabVars
<1>1. CASE OpenPort(t, user[t]) /\ SetConnectedStatus(t) /\ stack' = rest
  <2>1. LinkType(SerialStatus)' /\ KeyType' /\ SaveType'
    BY <1>0, <1>1, SetConnectedType, StatusIn DEF Shared, TabType
  <2>2. Shared'
    BY <1>0, <2>1 DEF Shared, TabType
  <2>3. KeepsCore
    BY <1>0, <1>1, CoreConnected DEF Shared
  <2>4. PortsFit'
    BY <1>0, <1>1, PortsOpen
  <2>5. Devices'
    BY <1>0, <1>1 DEF OpenPort, Devices
  <2>6. Front' /\ StackFits(stack', tabs')
    BY <1>0, <1>1, SameFront
  <2> QED BY <2>2, <2>3, <2>4, <2>5, <2>6, KeepsFromParts
<1>2. CASE /\ NoPort(t, user[t], Frame(kind, t), rest) /\ UNCHANGED <<keyVars, saveVars>>
           /\ UNCHANGED linkVars \/ SetStatus(t, DISCONNECT)
  <2> DEFINE f == Frame(kind, t)
  <2>1. f \in Frames /\ FrameTerminals(f) \subseteq tabs /\ f.kind # "confirm_close"
    BY <1>0, FrameFits
  <2>2. stack' = <<f>> \o rest /\ UNCHANGED <<deviceVars, fdVars, drawn, app>>
    BY <1>2 DEF NoPort
  <2> HIDE DEF f
  <2>3. StackFits(stack', tabs') /\ Front'
    BY <1>0, <2>1, <2>2, FitsPush, SameFront
  <2>4. Devices' /\ PortsFit'
    <3>1. UNCHANGED <<plugged, unread, opened, hung, device, holder, orphans, ready, private>>
      BY <2>2 DEF deviceVars, fdVars
    <3> QED BY <1>0, <2>2, <3>1, PortsSame DEF Devices
  <2>5. CASE UNCHANGED linkVars
    <3>1. Shared' /\ KeepsCore
      BY <1>0, <1>2, <2>5, SameShared, CoreStutter DEF linkVars
    <3> QED BY <2>3, <2>4, <3>1, KeepsFromParts
  <2>6. CASE SetStatus(t, DISCONNECT)
    <3>1. LinkType(SerialStatus)'
      BY <1>0, <2>6, SetStatusType, StatusIn DEF Shared
    <3>2. Shared'
      BY <1>0, <1>2, <3>1 DEF Shared, TabType, KeyType, SaveType, keyVars, saveVars
    <3>3. KeepsCore
      BY <1>0, <1>2, <2>6, StatusIn, CoreSetStatus DEF Shared
    <3> QED BY <2>3, <2>4, <3>2, <3>3, KeepsFromParts
  <2> QED BY <1>2, <2>5, <2>6
<1> QED BY <1>1, <1>2 DEF Connect

\* What is left of a loop over the terminals.
LEMMA RestFits ==
  ASSUME StackFits(stack, tabs), stack # <<>>, Head(stack).kind \in Loops, NEW t
  PROVE  /\ StackFits(RestOfLoop(t), tabs)
         /\ \A page : PageWaits(stack, page) => PageWaits(RestOfLoop(t), page)
<1> DEFINE f == Head(stack)
           rest == Tail(stack)
           left == f.todo \ {t}
           g == [f EXCEPT !.todo = left]
<1>1. /\ f \in Frames /\ FrameTerminals(f) \subseteq tabs /\ StackFits(rest, tabs)
      /\ \A page : PageWaits(stack, page) =>
           (f.kind = "new_page" /\ f.term # page) \/ PageWaits(rest, page)
  BY FitsPop
<1>2. f.kind \in Loops /\ f.kind # "new_page" /\ f.kind # "confirm_close"
  BY DEF Loops
<1>3. f \in [kind : Loops, todo : SUBSET Terminals] /\ f.todo \subseteq tabs
  BY <1>1, <1>2 DEF Frames, FrameTerminals, Loops
<1>4. /\ g \in [kind : Loops, todo : SUBSET Terminals]
      /\ g.kind = f.kind /\ g.todo = left
  <2>1. ASSUME NEW h \in [kind : Loops, todo : SUBSET Terminals], NEW new \in SUBSET Terminals
        PROVE  /\ [h EXCEPT !.todo = new] \in [kind : Loops, todo : SUBSET Terminals]
               /\ [h EXCEPT !.todo = new].kind = h.kind
               /\ [h EXCEPT !.todo = new].todo = new
    OBVIOUS
  <2>2. left \in SUBSET Terminals
    BY <1>3
  <2> QED BY <1>3, <2>1, <2>2
<1>5. g \in Frames /\ FrameTerminals(g) \subseteq tabs
  <2>1. g.todo \subseteq tabs /\ g.kind \in Loops
    BY <1>2, <1>3, <1>4
  <2> HIDE DEF g
  <2> QED BY <1>4, <2>1 DEF Frames, FrameTerminals
<1>6. RestOfLoop(t) = IF left = {} THEN rest ELSE <<g>> \o rest
  BY DEF RestOfLoop
<1> HIDE DEF f, g, rest
<1>7. /\ StackFits(<<g>> \o rest, tabs)
      /\ \A page : PageWaits(rest, page) => PageWaits(<<g>> \o rest, page)
  BY <1>1, <1>2, <1>4, <1>5, FitsPush
<1> QED BY <1>1, <1>2, <1>6, <1>7

-----------------------------------------------------------------------------
(* The user's steps.                                                       *)
(***************************************************************************)
LEMMA NewTerminalKeeps ==
  ASSUME IInv, NEW t \in Terminals, NEW u \in Users, NewTerminal(t, u)
  PROVE  Keeps
<1>0. /\ Shared /\ Front /\ CoreInv /\ PortsFit /\ Devices /\ stack = <<>>
      /\ tabs \in SUBSET Terminals /\ current \in tabs \cup {NoTerminal}
      /\ UNCHANGED keyVars
  BY InParts, CurrentIsTab DEF NewTerminal, Idle
<1>1. ASSUME NEW s, NewPageWith(t, u, s)
      PROVE  /\ t \notin tabs /\ tabs' = tabs \cup {t} /\ user'[t] = u
             /\ \A n \in tabs : user'[n] = user[n]
  BY <1>0, <1>1 DEF NewPageWith, Shared, TabType
<1>2. CASE /\ OpenPort(t, u) /\ NewPageWith(t, u, CONNECTED) /\ SwitchPage(t, CONNECTED)
           /\ UNCHANGED stack
  <2>1. Shared'
    BY <1>0, <1>2, NewPageWithType, StatusIn DEF Shared
  <2>2. KeepsCore
    BY <1>0, <1>2, CoreNewPageWith DEF Shared
  <2>3. PortsFit'
    BY <1>0, <1>1, <1>2, PortsOpen
  <2>4. Devices'
    BY <1>0, <1>2 DEF OpenPort, Devices
  <2>5. Front' /\ StackFits(stack', tabs')
    BY <1>0, <1>2, NoFramesFit DEF SwitchPage, Front
  <2> QED BY <2>1, <2>2, <2>3, <2>4, <2>5, KeepsFromParts
<1>3. CASE /\ NoPort(t, u, Frame("new_page", t), stack) /\ NewPageWith(t, u, DISCONNECT)
           /\ IF tabs = {} THEN SwitchPage(t, DISCONNECT)
              ELSE current' = current /\ currentUser' = u /\ UNCHANGED toolbar
  <2> DEFINE f == Frame("new_page", t)
  <2>0. t \notin tabs /\ tabs' = tabs \cup {t} /\ \A n \in tabs : user'[n] = user[n]
    BY <1>1, <1>3
  <2>1. Shared'
    BY <1>0, <1>3, NewPageWithType, StatusIn DEF Shared
  <2>2. KeepsCore
    BY <1>0, <1>3, CoreNewPageWith DEF Shared
  <2>3. PortsFit' /\ Devices'
    <3>1. UNCHANGED <<plugged, unread, opened, hung, device, holder, orphans, ready, private, drawn, app>>
      BY <1>3 DEF NoPort, deviceVars, fdVars
    <3> QED BY <1>0, <2>0, <3>1, PortsSame DEF Devices
  <2>4. /\ f \in Frames /\ FrameTerminals(f) \subseteq tabs'
        /\ f.kind = "new_page" /\ f.term = t
    <3>1. tabs \cup {t} \in SUBSET Terminals /\ t \in tabs \cup {t}
      BY <1>0
    <3>2. ASSUME NEW open, open = tabs \cup {t}
          PROVE  f \in Frames /\ FrameTerminals(f) \subseteq open /\ f.kind = "new_page" /\ f.term = t
      BY <3>1, <3>2, FrameFits
    <3> QED BY <2>0, <3>2
  <2>5. stack' = <<f>> \o <<>>
    BY <1>0, <1>3 DEF NoPort
  <2> HIDE DEF f
  <2>6. StackFits(stack', tabs')
    <3>1. ASSUME NEW open, FrameTerminals(f) \subseteq open PROVE StackFits(<<f>> \o <<>>, open)
      BY <2>4, <3>1, NoFramesFit, FitsPush
    <3> QED BY <2>4, <2>5, <3>1
  <2>7. Front'
    <3>1. CASE tabs = {}
      BY <1>3, <3>1 DEF SwitchPage, Front
    <3>2. CASE tabs # {}
      <4>1. current' = current /\ current # t
        BY <1>0, <1>3, <2>0, <3>2, CoreAssumption
      <4>2. stack' = <<f>>
        BY <2>5
      <4>3. Len(stack') = 1 /\ stack'[1] = f
        BY <4>2
      <4>4. PageWaits(stack', current)
        BY <2>4, <4>1, <4>3 DEF PageWaits
      <4> QED BY <4>1, <4>4 DEF Front
    <3> QED BY <3>1, <3>2
  <2> QED BY <2>1, <2>2, <2>3, <2>6, <2>7, KeepsFromParts
<1> QED BY <1>2, <1>3 DEF NewTerminal

\* A tab goes while nothing is left suspended.
LEMMA DestroyKeeps ==
  ASSUME IInv, NEW t \in tabs, Destroy(t), stack' = <<>>, UNCHANGED app,
         ~PageWaits(stack, current)
  PROVE  Keeps
<1>0. /\ Shared /\ Front /\ CoreInv /\ PortsFit /\ Devices /\ t \in Terminals
      /\ tabs \in SUBSET Terminals /\ current \in tabs \cup {NoTerminal}
  BY InParts, CurrentIsTab
<1>1. DestroyPage(t) /\ UNCHANGED <<plugged, unread>>
  BY DEF Destroy, deviceVars
<1>2. Shared' /\ KeepsCore
  BY <1>0, <1>1, DestroyPageType, CoreDestroy, StatusIn DEF Shared
<1>3. tabs' = tabs \ {t} /\ \A n \in Terminals \ {t} : user'[n] = user[n]
  BY <1>0, <1>1 DEF DestroyPage, Shared, TabType
<1>4. Devices'
  BY <1>0, <1>1 DEF Destroy, Devices
<1>5. PortsFit'
  <2> DEFINE gone == Watches(t)
  <2>1. \A f \in gone : f \in Fds /\ holder[f] = t
    BY DEF Watches
  <2>2. \A f \in Fds : holder[f] = t => f \in gone
    BY DEF Watches
  <2>3. private[t] \in gone \/ private[t] = 0
    BY <1>0 DEF PortsFit, PortIsItsOwn, Watches
  <2>4. orphans' = orphans \cup {f \in gone : f \in Fds /\ f # private[t] /\ t \notin tabs'}
    BY <1>3, <2>1 DEF Destroy, Forgotten
  <2>5. holder' = [f \in Fds |-> IF f \in gone THEN NoTerminal ELSE holder[f]]
    BY <2>1, <2>2 DEF Destroy
  <2> HIDE DEF gone
  <2>6. /\ opened' = opened \/ opened' = opened \ {private[t]}
        /\ DropClosed /\ ready' \subseteq ready \ {private[t]}
        /\ private' = [private EXCEPT ![t] = 0]
    BY DEF Destroy
  <2>7. t \notin tabs' /\ tabs' \subseteq tabs /\ tabs \ {t} \subseteq tabs'
    BY <1>3
  <2>8. \A n \in tabs \ {t} : user'[n] = user[n]
    BY <1>0, <1>3
  <2> QED BY <1>0, <2>1, <2>2, <2>3, <2>4, <2>5, <2>6, <2>7, <2>8, PortsClose
<1>6. Front'
  <2>1. CASE t # current /\ UNCHANGED <<current, currentUser, toolbar>>
    <3>1. current # NoTerminal => currentUser = user[current]
      BY <1>0 DEF Front
    <3>2. current # NoTerminal => user'[current] = user[current]
      BY <1>0, <1>3, <2>1
    <3> QED BY <2>1, <3>1, <3>2 DEF Front
  <2>2. CASE \E n \in tabs \ {t} : SwitchPage(n, status[n])
    BY <2>2 DEF SwitchPage, Front
  <2>3. CASE LastPageRemoved
    BY <2>3 DEF LastPageRemoved, Front
  <2> QED BY <1>1, <2>1, <2>2, <2>3 DEF DestroyPage
<1> QED BY <1>2, <1>4, <1>5, <1>6, NoFramesFit, KeepsFromParts

LEMMA CloseKeeps ==
  ASSUME IInv, NEW t \in Terminals, Close(t)
  PROVE  Keeps
<1>1. stack = <<>> /\ t \in tabs /\ app' = app /\ ~PageWaits(stack, current)
  BY NoPageWaits DEF Close, Idle
<1>2. CASE Destroy(t) /\ UNCHANGED stack
  BY <1>1, <1>2, DestroyKeeps
<1>3. CASE Push(Frame("confirm_close", t)) /\ Unmoved
  <2> DEFINE f == Frame("confirm_close", t)
  <2>1. f \in Frames /\ FrameTerminals(f) \subseteq tabs
    BY <1>1, FrameFits, CurrentIsTab
  <2>2. stack' = <<f>> \o stack /\ StackFits(stack, tabs)
    BY <1>3, InParts DEF Push
  <2> HIDE DEF f
  <2>3. StackFits(stack', tabs)
    BY <1>1, <2>1, <2>2, FitsPush
  <2>4. app' \in {"up", "segv", "freed"}
    BY <1>1, InParts DEF Devices
  <2> QED BY <1>1, <1>3, <2>3, <2>4, UnmovedKeeps
<1> QED BY <1>2, <1>3 DEF Close

LEMMA SelectTabKeeps ==
  ASSUME IInv, NEW t \in Terminals, SelectTab(t), UNCHANGED <<deviceVars, fdVars, drawn, app>>
  PROVE  Keeps
<1>0. Shared /\ Front /\ CoreInv /\ PortsFit /\ Devices /\ tabs \in SUBSET Terminals
  BY InParts, CurrentIsTab
<1>1. /\ t \in tabs /\ SwitchPage(t, status[t]) /\ stack = <<>>
      /\ UNCHANGED <<tabs, user, status, keyVars, saveVars, stack>>
  BY DEF SelectTab, Idle
<1>2. Shared'
  BY <1>0, <1>1, SwitchPageType DEF Shared, KeyType, SaveType, keyVars, saveVars
<1>3. KeepsCore
  BY <1>0, <1>1, CoreSwitch DEF Shared
<1>4. Devices' /\ PortsFit'
  BY <1>0, <1>1, PortsSame DEF Devices, deviceVars, fdVars
<1>5. Front' /\ StackFits(stack', tabs')
  BY <1>1, NoFramesFit DEF SwitchPage, Front
<1> QED BY <1>2, <1>3, <1>4, <1>5, KeepsFromParts

LEMMA LoopKeeps ==
  ASSUME IInv, NEW kind \in Loops, NEW todo \in SUBSET tabs, Loop(kind, todo)
  PROVE  Keeps
<1> DEFINE f == [kind |-> kind, todo |-> todo]
<1>1. f \in Frames /\ FrameTerminals(f) \subseteq tabs /\ f.kind \in Loops
  BY LoopFits, CurrentIsTab
<1>2. stack' = <<f>> \o stack /\ stack = <<>> /\ UNCHANGED app /\ Unmoved
  BY DEF Loop, Push, Idle
<1> HIDE DEF f
<1>3. StackFits(stack', tabs) /\ ~PageWaits(stack, current)
  BY <1>1, <1>2, NoFramesFit, FitsPush, NoPageWaits
<1> QED BY <1>2, <1>3, UnmovedKeeps, InParts DEF Devices

LEMMA UserStepKeeps == IInv /\ UserStep => Keeps
<1> SUFFICES ASSUME IInv, UserStep PROVE Keeps
  OBVIOUS
<1>0. /\ StackFits(stack, tabs) /\ Devices /\ current \in tabs \cup {NoTerminal}
      /\ (Idle => stack = <<>>)
  BY InParts, CurrentIsTab DEF Idle
<1>1. ASSUME NEW t \in Terminals, NEW u \in Users, NewTerminal(t, u) PROVE Keeps
  BY <1>1, NewTerminalKeeps
<1>2. ASSUME NEW t \in Terminals, Clone(t) PROVE Keeps
  <2>1. user[current] \in Users
    BY <1>2, CurrentIsTab DEF Clone
  <2> QED BY <1>2, <2>1, NewTerminalKeeps DEF Clone
<1>3. ASSUME NEW t \in Terminals, Close(t) PROVE Keeps
  BY <1>3, CloseKeeps
<1>4. ASSUME NEW t \in Terminals, SelectTab(t), UNCHANGED <<deviceVars, fdVars, drawn, app>> PROVE Keeps
  BY <1>4, SelectTabKeeps
<1>5. CASE PressReturn
  <2>1. /\ current \in tabs /\ UNCHANGED tabVars
        /\ Connect(current, Frame("notice_key", current), stack, UNCHANGED linkVars)
    BY <1>0, <1>5 DEF PressReturn
  <2> QED BY <1>0, <2>1, ConnectKeeps
<1>6. CASE Reconnect
  <2>1. /\ current \in tabs /\ UNCHANGED tabVars
        /\ Connect(current, Frame("notice", current), stack, UNCHANGED linkVars)
    BY <1>0, <1>6 DEF Reconnect
  <2> QED BY <1>0, <2>1, ConnectKeeps
<1>7. CASE TypeKey
  BY <1>0, <1>7, UnmovedKeeps DEF TypeKey
<1>8. CASE DisconnectCurrent
  <2>1. current \in tabs /\ Down(current) /\ Release(current) /\ UNCHANGED <<deviceVars, orphans, drawn>>
    BY <1>0, <1>8 DEF DisconnectCurrent, Disconnect
  <2> QED BY <1>0, <1>8, <2>1, DisconnectKeeps DEF DisconnectCurrent, Release
<1>9. CASE Loop("reconnect_all", tabs)
  BY <1>9, LoopKeeps DEF Loops
<1>10. CASE Loop("disconnect_all", {t \in tabs : status[t] = CONNECTED})
  <2>1. {t \in tabs : status[t] = CONNECTED} \in SUBSET tabs
    OBVIOUS
  <2> QED BY <1>10, <2>1, LoopKeeps DEF Loops
<1> QED BY <1>1, <1>2, <1>3, <1>4, <1>5, <1>6, <1>7, <1>8, <1>9, <1>10 DEF UserStep

-----------------------------------------------------------------------------
(* Loops over the terminals, and dialogs.                                  *)
(***************************************************************************)
LEMMA HandlerStepKeeps == IInv /\ HandlerStep => Keeps
<1> SUFFICES ASSUME IInv, HandlerStep PROVE Keeps
  OBVIOUS
<1>0. StackFits(stack, tabs) /\ stack # <<>> /\ Head(stack).kind \in Loops
  BY InParts DEF HandlerStep, ReconnectNext, DisconnectNext, Top, Loops
<1>1. Head(stack).todo \subseteq tabs
  BY <1>0, FitsPop DEF FrameTerminals
<1>2. \A t : /\ StackFits(RestOfLoop(t), tabs)
             /\ PageWaits(stack, current) => PageWaits(RestOfLoop(t), current)
  BY <1>0, RestFits
<1>3. CASE ReconnectNext
  <2>1. PICK t \in Head(stack).todo :
          Connect(t, Frame("notice", t), RestOfLoop(t), SetStatus(t, DISCONNECT))
    BY <1>3 DEF ReconnectNext
  <2>2. UNCHANGED tabVars
    BY <1>3 DEF ReconnectNext
  <2> QED BY <1>1, <1>2, <2>1, <2>2, ConnectKeeps
<1>4. CASE DisconnectNext
  <2>1. PICK t \in Head(stack).todo : stack' = RestOfLoop(t) /\ Disconnect(t)
    BY <1>4 DEF DisconnectNext
  <2>2. UNCHANGED <<tabVars, saveVars, app>>
    BY <1>4 DEF DisconnectNext
  <2>3. t \in tabs /\ Release(t) /\ Down(t) /\ UNCHANGED <<deviceVars, orphans, drawn>>
    BY <1>1, <2>1 DEF Disconnect
  <2> QED BY <1>2, <2>1, <2>2, <2>3, DisconnectKeeps DEF Release
<1> QED BY <1>3, <1>4 DEF HandlerStep

LEMMA DialogStepKeeps == IInv /\ DialogStep => Keeps
<1> SUFFICES ASSUME IInv, DialogStep PROVE Keeps
  OBVIOUS
<1> DEFINE f == Head(stack)
           rest == Tail(stack)
<1>0. /\ Shared /\ Front /\ CoreInv /\ PortsFit /\ Devices /\ tabs \in SUBSET Terminals
      /\ StackFits(stack, tabs) /\ stack # <<>> /\ stack' = rest
  BY InParts, CurrentIsTab DEF DialogStep, CloseNotice, CloseNewPage, AnswerClose, Top, Pop
<1>1. /\ f \in Frames /\ FrameTerminals(f) \subseteq tabs
      /\ f.kind = "confirm_close" => rest = <<>>
      /\ StackFits(rest, tabs)
      /\ \A page : PageWaits(stack, page) =>
           (f.kind = "new_page" /\ f.term # page) \/ PageWaits(rest, page)
  BY <1>0, FitsPop
<1>2. f.kind \notin Loops => f.term \in tabs
  BY <1>1 DEF FrameTerminals
<1>3. CASE CloseNotice
  <2>1. f.kind # "new_page" /\ app' \in {"up", "segv", "freed"} /\ Unmoved
    BY <1>0, <1>3 DEF CloseNotice, Top, Devices
  <2> HIDE DEF f, rest
  <2> QED BY <1>0, <1>1, <2>1, UnmovedKeeps
<1>4. CASE CloseNewPage
  <2>1. /\ f.kind = "new_page" /\ f.term \in tabs
        /\ UNCHANGED <<tabs, user, status, keyVars, saveVars, deviceVars, fdVars, drawn, app>>
    BY <1>2, <1>4 DEF CloseNewPage, Top, Loops
  <2>2. CASE f.term = current /\ UNCHANGED <<current, currentUser, toolbar>>
    <3> HIDE DEF f, rest
    <3>1. Unmoved
      BY <2>1, <2>2 DEF Unmoved, tabVars, linkVars
    <3>2. PageWaits(stack, current) => PageWaits(stack', current)
      BY <1>0, <1>1, <2>2
    <3> QED BY <1>0, <1>1, <2>1, <3>1, <3>2, UnmovedKeeps DEF Devices
  <2>3. CASE SwitchPage(f.term, status[f.term])
    <3> HIDE DEF f, rest
    <3>1. Shared'
      BY <1>0, <2>1, <2>3, SwitchPageType DEF Shared, KeyType, SaveType, keyVars, saveVars
    <3>2. KeepsCore
      BY <1>0, <2>1, <2>3, CoreSwitch DEF Shared
    <3>3. Devices' /\ PortsFit'
      BY <1>0, <2>1, PortsSame DEF Devices, deviceVars, fdVars
    <3>4. Front' /\ StackFits(stack', tabs')
      BY <1>0, <1>1, <2>1, <2>3 DEF SwitchPage, Front
    <3> QED BY <3>1, <3>2, <3>3, <3>4, KeepsFromParts
  <2> QED BY <1>4, <2>2, <2>3 DEF CloseNewPage
<1>5. ASSUME NEW ok \in BOOLEAN, AnswerClose(ok) PROVE Keeps
  <2>1. f.kind = "confirm_close" /\ app' = app /\ (Destroy(f.term) \/ Unmoved) /\ f.term \in tabs
    BY <1>2, <1>5 DEF AnswerClose, Top, Loops
  <2> HIDE DEF f, rest
  <2>2. rest = <<>> /\ ~PageWaits(stack, current)
    BY <1>1, <2>1, NoPageWaits
  <2>3. CASE Destroy(f.term)
    BY <1>0, <2>1, <2>2, <2>3, DestroyKeeps
  <2>4. CASE Unmoved
    BY <1>0, <1>1, <2>1, <2>2, <2>4, UnmovedKeeps DEF Devices
  <2> QED BY <2>1, <2>3, <2>4
<1> QED BY <1>3, <1>4, <1>5 DEF DialogStep

-----------------------------------------------------------------------------
(* Watches and devices.                                                    *)
(***************************************************************************)
LEMMA WatchStepKeeps == IInv /\ WatchStep => Keeps
<1> SUFFICES ASSUME IInv, WatchStep PROVE Keeps
  OBVIOUS
<1>0. PortsFit /\ Devices /\ StackFits(stack, tabs) /\ tabs \in SUBSET Terminals
  BY InParts, CurrentIsTab
<1>1. ASSUME NEW f \in Fds, ReadFreed(f) PROVE Keeps
  BY <1>0, <1>1, UnmovedKeeps DEF ReadFreed
<1>2. ASSUME NEW f \in Fds, ReadInput(f) PROVE Keeps
  <2>1. /\ UNCHANGED <<tabVars, linkVars, keyVars, saveVars, stack, plugged, opened, hung, device,
                       holder, orphans, private, app>>
        /\ unread' = [unread EXCEPT ![device[f]] = FALSE] /\ ready' = ready \ {f}
        /\ drawn' = [drawn EXCEPT ![holder[f]] = TRUE]
    BY <1>2 DEF ReadInput, coreVars
  <2>2. Devices'
    BY <1>0, <2>1 DEF Devices
  <2>3. PortsFit'
    <3>1. UNCHANGED <<tabs, user>>
      BY <2>1 DEF tabVars
    <3> QED BY <1>0, <2>1, <3>1 DEF PortsFit, PortIsItsOwn
  <2> QED BY <1>0, <2>1, <2>2, <2>3, QuietKeeps
<1>3. ASSUME NEW f \in Fds, ReadNothing(f) PROVE Keeps
  <2> DEFINE t == holder[f]
  <2>1. t \in tabs
    BY <1>0, <1>3 DEF ReadNothing, FindsNothing, PortsFit
  <2>2. /\ Down(t) /\ DropClosed /\ ready' = ready \ {f, private[t]}
        /\ opened' = IF status[t] = CONNECTED THEN opened \ {private[t]} ELSE opened
        /\ holder' = [g \in Fds |-> IF g = private[t] THEN NoTerminal ELSE holder[g]]
        /\ private' = [private EXCEPT ![t] = 0]
        /\ UNCHANGED <<tabVars, saveVars, stack, deviceVars, orphans, drawn, app>>
    BY <1>3 DEF ReadNothing
  <2> HIDE DEF t
  <2>3. ready' \subseteq ready \ {private[t]}
    BY <2>2
  <2> QED BY <1>0, <2>1, <2>2, <2>3, DisconnectKeeps
<1>4. ASSUME NEW f \in Fds, NEW eagain \in BOOLEAN, ReadHungUp(f, eagain) PROVE Keeps
  <2>1. holder[f] \in tabs /\ UNCHANGED <<tabVars, saveVars, stack, app>>
    BY <1>0, <1>4 DEF ReadHungUp, PortsFit
  <2>2. CASE Disconnect(holder[f])
    BY <1>0, <2>1, <2>2, DisconnectKeeps DEF Disconnect, Release
  <2>3. CASE UNCHANGED <<linkVars, keyVars, deviceVars, fdVars, drawn>>
    BY <1>0, <2>1, <2>3, UnmovedKeeps DEF Unmoved, Devices
  <2> QED BY <1>4, <2>2, <2>3 DEF ReadHungUp
<1> QED BY <1>1, <1>2, <1>3, <1>4 DEF WatchStep

LEMMA DeviceStepKeeps == IInv /\ DeviceStep => Keeps
<1> SUFFICES ASSUME IInv, NEW u \in Users, Plug(u) \/ Pull(u) \/ Arrive(u) PROVE Keeps
  BY DEF DeviceStep
<1>0. PortsFit /\ Devices /\ StackFits(stack, tabs) /\ tabs \in SUBSET Terminals
  BY InParts, CurrentIsTab
<1>1. /\ UNCHANGED <<tabVars, linkVars, keyVars, saveVars, stack, opened, device, holder, orphans,
                     private, drawn, app>>
      /\ plugged' \in [Users -> BOOLEAN] /\ unread' \in [Users -> BOOLEAN]
      /\ hung' \subseteq opened
      /\ ready' \subseteq {f \in opened : holder[f] # NoTerminal \/ f \in orphans}
  BY <1>0 DEF Plug, Pull, Arrive, coreVars, fdVars, Devices, PortsFit
<1>2. Devices'
  BY <1>0, <1>1 DEF Devices
<1>3. PortsFit'
  <2>1. UNCHANGED <<tabs, user>>
    BY <1>1 DEF tabVars
  <2> QED BY <1>0, <1>1, <2>1 DEF PortsFit, PortIsItsOwn
<1> QED BY <1>0, <1>1, <1>2, <1>3, QuietKeeps

\* Text on the screen counts as a connection.
LEMMA ReceiveKeeps ==
  ASSUME IInv, NEW t \in Terminals, Receive(t)
  PROVE  Keeps
<1>0. /\ Shared /\ Front /\ CoreInv /\ PortsFit /\ Devices /\ tabs \in SUBSET Terminals
      /\ StackFits(stack, tabs)
  BY InParts, CurrentIsTab
<1>1. /\ t \in tabs /\ drawn' = [drawn EXCEPT ![t] = FALSE]
      /\ UNCHANGED <<tabVars, tabs, current, currentUser, user, stack, plugged, unread>>
      /\ UNCHANGED <<opened, hung, device, holder, orphans, ready, private>>
      /\ app' = "segv" \/ app' = app
  BY DEF Receive, Attached, tabVars, deviceVars, fdVars
<1>2. Devices' /\ PortsFit'
  BY <1>0, <1>1, PortsSame DEF Devices
<1>3. CASE UNCHANGED <<linkVars, keyVars, saveVars>>
  BY <1>0, <1>1, <1>2, <1>3, QuietKeeps
<1>4. CASE SetConnectedStatus(t)
  <2>1. LinkType(SerialStatus)' /\ KeyType' /\ SaveType'
    BY <1>0, <1>1, <1>4, SetConnectedType, StatusIn DEF Shared, TabType
  <2>2. Shared'
    BY <1>0, <1>1, <2>1 DEF Shared, TabType
  <2>3. KeepsCore
    BY <1>0, <1>1, <1>4, CoreConnected DEF Shared
  <2>4. Front' /\ StackFits(stack', tabs')
    BY <1>0, <1>1, SameFront
  <2> QED BY <1>2, <2>2, <2>3, <2>4, KeepsFromParts
<1> QED BY <1>3, <1>4 DEF Receive

-----------------------------------------------------------------------------
LEMMA SerialInit == Init => IInv
<1> SUFFICES ASSUME Init PROVE IInv
  OBVIOUS
<1> USE DEF Init, CoreInit
<1>1. Shared
  <2>1. TabType
    BY DEF TabType
  <2>2. LinkType(SerialStatus)
    BY StatusIn, ButtonsType DEF LinkType
  <2>3. KeyType /\ SaveType
    BY DEF KeyType, SaveType
  <2> QED BY <2>1, <2>2, <2>3 DEF Shared
<1>2. CoreInv
  BY DEF CoreInv, OneReturnHandler, ToolbarFollowsStatus, HasCurrent, ClosedTabsAreQuiet,
         DISCONNECT, CONNECTED
<1>3. Front
  BY DEF Front
<1>4. Devices
  BY DEF Devices
<1>5. PortsFit
  BY DEF PortsFit, PortIsItsOwn
<1> QED BY <1>1, <1>2, <1>3, <1>4, <1>5, NoFramesFit, InParts

LEMMA SerialNext == IInv /\ [Next]_vars => Keeps
<1>1. ASSUME IInv, UNCHANGED vars PROVE Keeps
  <2>1. UNCHANGED <<coreVars, deviceVars, fdVars, drawn, app>>
    BY <1>1 DEF vars
  <2> QED BY <1>1, <2>1, UnmovedKeeps, InParts DEF Unmoved, coreVars, Devices
<1> QED BY <1>1, UserStepKeeps, DialogStepKeeps, HandlerStepKeeps, WatchStepKeeps,
           DeviceStepKeeps, ReceiveKeeps DEF Next

\* The inductive invariant, whatever the number of tabs, records and descriptors.
THEOREM SerialInvariant == Spec => []IInv
<1>1. IInv /\ [Next]_vars => IInv'
  BY SerialNext DEF Keeps
<1> QED BY <1>1, SerialInit, PTL DEF Spec

\* Serial tabs keep what all tabs share: one Return handler, the buttons of the
\* current tab's status, a current terminal that is open with its session as the
\* window's, and no handler or loop on a freed terminal.
THEOREM SerialTabsKeepShape == Spec => []TabInv
<1>1. ASSUME IInv PROVE TabInv
  <2>1. TypeOK /\ CoreInv /\ StackFits(stack, tabs) /\ Front
    BY <1>1 DEF IInv, Front
  <2>2. CurrentIsOpen
    BY <2>1, NoPageWaits DEF CurrentIsOpen, CoreInv, Idle, Front
  <2>3. SuspendedOnOpenTabs
    BY <2>1 DEF SuspendedOnOpenTabs, StackFits
  <2> QED BY <2>1, <2>2, <2>3 DEF TabInv, CoreInv
<1> QED BY <1>1, SerialInvariant, PTL

\* A tab writes to a descriptor that is open, for its own session and watched by
\* itself, however often numbers are reused and other watches take the tab down.
THEOREM PortsAreTheirOwn == Spec => []PortIsItsOwn
<1>1. IInv => PortIsItsOwn
  BY DEF IInv, PortsFit
<1> QED BY <1>1, SerialInvariant, PTL

-----------------------------------------------------------------------------
(* What ends a session.                                                    *)
(***************************************************************************)
Ties == \A t \in Terminals : GoesDown(t) => (OffersReturn(t) <=> ~Top("reconnect_all"))

LEMMA NobodyGoesDown ==
  ASSUME \A t \in Terminals : status[t] = CONNECTED /\ t \in tabs' => status'[t] = CONNECTED
  PROVE  Ties
BY DEF Ties, GoesDown

LEMMA StatusStays == UNCHANGED status => Ties
BY NobodyGoesDown

LEMMA ConnectedTies ==
  ASSUME Shared, NEW n, SetConnectedStatus(n)
  PROVE  Ties
<1>1. \A t \in Terminals : status[t] = CONNECTED => status'[t] = CONNECTED
  BY DEF Shared, LinkType, SetConnectedStatus, SetStatus
<1> QED BY <1>1, NobodyGoesDown

\* A connection that somebody took down offers Return.
LEMMA DownTies ==
  ASSUME Shared, CoreInv, NEW n \in Terminals, Down(n), ~Top("reconnect_all")
  PROVE  Ties
<1>1. CASE status[n] = CONNECTED
  <2>1. /\ \A t \in Terminals \ {n} : status'[t] = status[t]
        /\ keyHandlers[n] = 0 /\ keyHandlers' = [keyHandlers EXCEPT ![n] = @ + 1]
    BY <1>1 DEF Shared, LinkType, CoreInv, OneReturnHandler, Down, SetStatus
  <2>2. keyHandlers'[n] = 1
    BY <2>1 DEF Shared, KeyType
  <2> QED BY <2>1, <2>2 DEF Ties, GoesDown, OffersReturn
<1>2. CASE status[n] # CONNECTED
  BY <1>2, StatusStays DEF Down, linkVars
<1> QED BY <1>1, <1>2

LEMMA EndsTie == IInv /\ [Next]_vars => Ties
<1> SUFFICES ASSUME IInv, [Next]_vars PROVE Ties
  OBVIOUS
<1>0. /\ Shared /\ CoreInv /\ PortsFit /\ tabs \in SUBSET Terminals
      /\ current \in Terminals \cup {NoTerminal}
      /\ \A t \in Terminals \ tabs : status[t] # CONNECTED
      /\ status \in [Terminals -> SerialStatus]
  BY InParts, CurrentIsTab DEF Shared, LinkType, CoreInv, ClosedTabsAreQuiet
<1>1. Idle \/ Polling \/ Top("disconnect_all") => ~Top("reconnect_all")
  BY DEF Idle, Polling, Top, Running, Loops
<1>2. ASSUME NEW t, Destroy(t) \/ Unmoved PROVE Ties
  <2>1. CASE Destroy(t)
    <3>1. tabs' = tabs \ {t} /\ status' = [status EXCEPT ![t] = DISCONNECT]
      BY <2>1 DEF Destroy, DestroyPage
    <3> QED BY <1>0, <3>1, NobodyGoesDown
  <2>2. CASE Unmoved
    BY <2>2, StatusStays DEF Unmoved, linkVars
  <2> QED BY <1>2, <2>1, <2>2
<1>3. CASE UserStep
  <2>1. ASSUME NEW t \in Terminals, NEW u, NewTerminal(t, u) PROVE Ties
    <3>1. t \notin tabs /\ \E s : status' = [status EXCEPT ![t] = s]
      BY <2>1 DEF NewTerminal, NewPageWith
    <3> QED BY <1>0, <3>1, NobodyGoesDown
  <2>2. ASSUME NEW t \in Terminals, Clone(t) PROVE Ties
    BY <2>1, <2>2 DEF Clone
  <2>3. ASSUME NEW t \in Terminals, Close(t) PROVE Ties
    BY <1>2, <2>3 DEF Close
  <2>4. ASSUME NEW t \in Terminals, SelectTab(t) PROVE Ties
    BY <2>4, StatusStays DEF SelectTab
  <2>5. CASE PressReturn \/ Reconnect
    BY <1>0, <2>5, ConnectedTies, StatusStays DEF PressReturn, Reconnect, Connect, linkVars
  <2>6. CASE DisconnectCurrent
    BY <1>0, <1>1, <2>6, DownTies DEF DisconnectCurrent, Disconnect
  <2>7. CASE TypeKey \/ (\E kind, todo : Loop(kind, todo))
    BY <1>2, <2>7 DEF TypeKey, Loop
  <2> QED BY <1>3, <2>1, <2>2, <2>3, <2>4, <2>5, <2>6, <2>7 DEF UserStep
<1>4. CASE DialogStep
  BY <1>2, <1>4, StatusStays DEF DialogStep, CloseNotice, CloseNewPage, AnswerClose
<1>5. CASE ReconnectNext
  <2>1. Top("reconnect_all")
    BY <1>5 DEF ReconnectNext
  <2>2. \A t \in Terminals : ~OffersReturn(t)
    BY <1>0, <1>5 DEF ReconnectNext, Connect, SetConnectedStatus, OffersReturn, keyVars,
                      Shared, KeyType
  <2> QED BY <2>1, <2>2 DEF Ties
<1>6. CASE DisconnectNext
  <2>1. Top("disconnect_all") /\ stack # <<>> /\ Head(stack).kind \in Loops
        /\ StackFits(stack, tabs)
    BY <1>6, InParts DEF DisconnectNext, Top, Loops
  <2>2. Head(stack).todo \subseteq Terminals
    BY <1>0, <2>1, FitsPop DEF FrameTerminals
  <2> QED BY <1>0, <1>1, <1>6, <2>1, <2>2, DownTies DEF DisconnectNext, Disconnect
<1>7. ASSUME NEW f \in Fds,
             ReadFreed(f) \/ ReadInput(f) \/ ReadNothing(f)
               \/ \E eagain \in BOOLEAN : ReadHungUp(f, eagain)
      PROVE  Ties
  <2>1. CASE ReadNothing(f)
    <3>1. holder[f] \in Terminals /\ Down(holder[f]) /\ Polling
      BY <1>0, <2>1 DEF ReadNothing, FindsNothing, PortsFit
    <3> QED BY <1>0, <1>1, <3>1, DownTies
  <2>2. ASSUME NEW eagain \in BOOLEAN, ReadHungUp(f, eagain) PROVE Ties
    <3>1. holder[f] \in Terminals /\ Polling /\ (Disconnect(holder[f]) \/ UNCHANGED linkVars)
      BY <1>0, <2>2 DEF ReadHungUp, PortsFit
    <3> QED BY <1>0, <1>1, <3>1, DownTies, StatusStays DEF Disconnect, linkVars
  <2>3. CASE ReadFreed(f) \/ ReadInput(f)
    BY <2>3, StatusStays DEF ReadFreed, Unmoved, ReadInput, linkVars, coreVars
  <2> QED BY <1>7, <2>1, <2>2, <2>3
<1>8. CASE DeviceStep \/ UNCHANGED vars
  BY <1>8, StatusStays DEF DeviceStep, Plug, Pull, Arrive, vars, coreVars, linkVars
<1>9. ASSUME NEW t \in Terminals, Receive(t) PROVE Ties
  BY <1>0, <1>9, ConnectedTies, StatusStays DEF Receive, linkVars
<1> QED BY <1>3, <1>4, <1>5, <1>6, <1>7, <1>8, <1>9 DEF Next, HandlerStep, WatchStep

\* Serial tabs implement TabSession, and only Reconnect All drops a session without
\* an offer to connect again.
THEOREM SerialImplementsTabSession == Spec => IsTabSession
<1>1. Init => SessionsOfTabs!TabSessionInit
  BY DEF Init, CoreInit, SessionsOfTabs!TabSessionInit, DISCONNECT, CONNECTED
<1>2. IInv /\ [Next]_vars => [SessionsOfTabs!TabSessionNext]_SessionsOfTabs!tabSessionVars
  BY SerialNext DEF Keeps, KeepsCore, TabStep
<1>3. IInv /\ [Next]_vars =>
        [\A t \in Terminals : GoesDown(t) => (OffersReturn(t) <=> ~Top("reconnect_all"))]_vars
  BY EndsTie DEF Ties
<1> QED BY <1>1, <1>2, <1>3, SerialInvariant, PTL
        DEF Spec, IsTabSession, SessionsOfTabs!TabSessionSpec
=============================================================================

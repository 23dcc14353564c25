-------------------------- MODULE SshSession_proofs --------------------------
(***************************************************************************)
(* Proofs about SshSession for any number of tabs, session records and     *)
(* login names.                                                            *)
(***************************************************************************)
EXTENDS SshSession, TerminalCore_proofs, SequenceTheorems

(***************************************************************************)
(* The stack of suspended handlers.                                        *)
(***************************************************************************)
\* A handler is suspended above a stack: an outermost one only above none.
LEMMA StackPush ==
  ASSUME NEW open, NEW s \in Seq(Frames), StackOK(s, open),
         NEW f \in Frames, FrameOK(f, open),
         f.kind \in Outermost => s = <<>>
  PROVE  /\ <<f>> \o s \in Seq(Frames)
         /\ StackOK(<<f>> \o s, open)
<1> DEFINE r == <<f>> \o s
<1>1. <<f>> \in Seq(Frames) /\ Len(<<f>>) = 1 /\ <<f>>[1] = f
  OBVIOUS
<1>2. /\ r \in Seq(Frames) /\ Len(s) \in Nat /\ Len(r) = Len(s) + 1
      /\ \A i \in 1..Len(r) : r[i] = IF i = 1 THEN f ELSE s[i - 1]
  BY <1>1, ConcatProperties, LenProperties
<1>3. ASSUME NEW i \in 1..Len(r)
      PROVE  FrameOK(r[i], open) /\ (r[i].kind \in Outermost => i = Len(r))
  <2>1. CASE i = 1
    BY <1>2, <2>1, EmptySeq
  <2>2. CASE i # 1
    <3>1. i - 1 \in 1..Len(s) /\ r[i] = s[i - 1]
      BY <1>2, <2>2
    <3> QED BY <1>2, <3>1 DEF StackOK
  <2> QED BY <2>1, <2>2
<1> QED BY <1>2, <1>3 DEF StackOK

\* A handler that returns leaves the others as they were.
LEMMA StackPop ==
  ASSUME NEW open, NEW s \in Seq(Frames), StackOK(s, open), s # <<>>
  PROVE  /\ Head(s) \in Frames /\ FrameOK(Head(s), open)
         /\ Tail(s) \in Seq(Frames) /\ StackOK(Tail(s), open)
         /\ Head(s).kind \in Outermost => Tail(s) = <<>>
<1> DEFINE r == Tail(s)
           f == Head(s)
<1>1. Len(s) \in Nat /\ Len(s) # 0
  BY EmptySeq
<1>2. /\ f \in Frames /\ f = s[1]
      /\ r \in Seq(Frames) /\ Len(r) = Len(s) - 1
      /\ \A i \in 1..Len(r) : r[i] = s[i + 1]
  BY <1>1, HeadTailProperties
<1> HIDE DEF r, f
<1>3. StackOK(r, open)
  BY <1>1, <1>2 DEF StackOK
<1>4. FrameOK(f, open) /\ (f.kind \in Outermost => Len(s) = 1)
  BY <1>1, <1>2 DEF StackOK
<1>5. Len(s) = 1 => r = <<>>
  BY <1>1, <1>2, EmptySeq
<1> QED BY <1>2, <1>3, <1>4, <1>5 DEF r, f

\* Opening a tab disturbs no suspended handler.
LEMMA StackGrow ==
  ASSUME NEW open, NEW more, open \subseteq more, NEW s, StackOK(s, open)
  PROVE  StackOK(s, more)
BY DEF StackOK, FrameOK

LEMMA StackEmpty ==
  ASSUME NEW open
  PROVE  <<>> \in Seq(Frames) /\ StackOK(<<>>, open)
BY DEF StackOK

-----------------------------------------------------------------------------
(* Types.                                                                  *)
(***************************************************************************)
\* What a step of lcrt_ssh_receive leaves behind: it touches neither the tabs
\* nor the session records.
HandlerTyped(open) ==
  /\ LinkType(SshStatus)' /\ KeyType' /\ SaveType' /\ SshType' /\ ProcType'
  /\ stack' \in Seq(Frames) /\ StackOK(stack', open)
  /\ app' \in {"up", "segv", "group_killed"}

LEMMA StatusIn ==
  /\ DISCONNECT \in SshStatus /\ CONNECTED \in SshStatus /\ CONNECTING \in SshStatus
  /\ WAIT_RETURN \in SshStatus /\ CHILD_EXIT \in SshStatus
BY DEF SshStatus

LEMMA PhaseIn ==
  /\ \A p \in Phases : Fed(p) \in Phases /\ Killed(p) \in Phases /\ \A t : Commands(t, p) \in Phases
  /\ \A o \in Output : o[1] \in Phases /\ o[2] \in Texts /\ o[3] \in Phases
<1>1. \A p \in Phases : Fed(p) \in Phases /\ Killed(p) \in Phases
  BY DEF Phases, Fed, Killed
<1>2. \A o \in Output : o[1] \in Phases /\ o[2] \in Texts /\ o[3] \in Phases
  BY DEF Phases, Output, Texts
<1> QED BY <1>1, <1>2 DEF Commands

LEMMA FrameIn ==
  ASSUME NEW open \in SUBSET Terminals, NEW t \in open
  PROVE  /\ \A kind \in {"notice", "new_page", "confirm_close"} :
              Frame(kind, t) \in Frames /\ FrameOK(Frame(kind, t), open)
                /\ Frame(kind, t).kind = kind
         /\ FailedFrame(t) \in Frames /\ FrameOK(FailedFrame(t), open)
         /\ FailedFrame(t).kind = "failed"
         /\ \A at \in {"denied", "prompt"}, text \in Texts, own \in BOOLEAN :
              /\ LoginFrame(t, at, text, own) \in Frames
              /\ LoginFrame(t, at, text, own).kind = "login"
              /\ (at = "denied" => text \in {"denied", "denied_prompt"})
                   /\ (at = "prompt" => text \in {"prompt", "denied_prompt"})
                   => FrameOK(LoginFrame(t, at, text, own), open)
<1>1. \A kind \in {"notice", "new_page", "confirm_close"} :
        Frame(kind, t) \in Frames /\ FrameOK(Frame(kind, t), open) /\ Frame(kind, t).kind = kind
  BY DEF Frame, Frames, FrameOK, FrameTerminals, Loops, LoginKinds
<1>2. /\ FailedFrame(t) \in Frames /\ FrameOK(FailedFrame(t), open)
      /\ FailedFrame(t).kind = "failed"
  BY DEF FailedFrame, Frames, FrameOK, FrameTerminals, Loops, LoginKinds
<1>3. ASSUME NEW at \in {"denied", "prompt"}, NEW text \in Texts, NEW own \in BOOLEAN
      PROVE  /\ LoginFrame(t, at, text, own) \in Frames
             /\ LoginFrame(t, at, text, own).kind = "login"
             /\ (at = "denied" => text \in {"denied", "denied_prompt"})
                  /\ (at = "prompt" => text \in {"prompt", "denied_prompt"})
                  => FrameOK(LoginFrame(t, at, text, own), open)
  BY DEF LoginFrame, Frames, FrameOK, FrameTerminals, Loops, LoginKinds
<1> QED BY <1>1, <1>2, <1>3

\* A connection leaves the handlers of its terminal as they were, but for the private
\* data that they hold.
SameHandler(g, f) ==
  /\ g.kind = f.kind
  /\ f.kind \in LoginKinds => g.at = f.at /\ g.text = f.text
  /\ f.kind \in Loops => g.todo = f.todo
  /\ f.kind \notin Loops => g.term = f.term

LEMMA DisownFrames ==
  ASSUME NEW s \in Seq(Frames), NEW t
  PROVE  /\ Disown(t, s) \in Seq(Frames) /\ Len(Disown(t, s)) = Len(s)
         /\ \A i \in 1..Len(s) :
              /\ SameHandler(Disown(t, s)[i], s[i])
              /\ ~Asks(s[i], t) => Disown(t, s)[i] = s[i]
              /\ Asks(s[i], t) => Disown(t, s)[i].own = FALSE
<1> DEFINE r == Disown(t, s)
<1>1. Len(s) \in Nat /\ DOMAIN s = 1..Len(s) /\ \A i \in 1..Len(s) : s[i] \in Frames
  BY LenProperties
<1>2. r = [i \in 1..Len(s) |-> IF Asks(s[i], t) THEN [s[i] EXCEPT !.own = FALSE] ELSE s[i]]
  BY <1>1 DEF Disown
<1>3. ASSUME NEW f \in Frames, Asks(f, t)
      PROVE  LET g == [f EXCEPT !.own = FALSE] IN
               g \in Frames /\ SameHandler(g, f) /\ g.own = FALSE
  <2>1. CASE f.kind \in LoginKinds
    BY <1>3, <2>1 DEF Frames, LoginKinds, Loops, SameHandler
  <2>2. CASE f.kind = "failed"
    BY <1>3, <2>2 DEF Frames, LoginKinds, Loops, SameHandler
  <2> QED BY <1>3, <2>1, <2>2 DEF Asks, AskingKinds
<1>4. ASSUME NEW i \in 1..Len(s)
      PROVE  /\ r[i] \in Frames /\ SameHandler(r[i], s[i])
             /\ ~Asks(s[i], t) => r[i] = s[i]
             /\ Asks(s[i], t) => r[i].own = FALSE
  <2>1. CASE Asks(s[i], t)
    BY <1>1, <1>2, <1>3, <2>1
  <2>2. CASE ~Asks(s[i], t)
    BY <1>1, <1>2, <2>2 DEF SameHandler
  <2> QED BY <2>1, <2>2
<1> HIDE DEF r
<1>5. r \in [1..Len(s) -> Frames]
  BY <1>2, <1>4
<1>6. r \in Seq(Frames) /\ Len(r) = Len(s)
  BY <1>1, <1>5, SeqDef, LenProperties
<1> QED BY <1>4, <1>6 DEF r

LEMMA DisownStack ==
  ASSUME NEW open, NEW s \in Seq(Frames), StackOK(s, open), NEW t
  PROVE  Disown(t, s) \in Seq(Frames) /\ StackOK(Disown(t, s), open)
<1> DEFINE r == Disown(t, s)
<1>1. /\ r \in Seq(Frames) /\ Len(r) = Len(s)
      /\ \A i \in 1..Len(s) : SameHandler(r[i], s[i])
  BY DisownFrames
<1> HIDE DEF r
<1>2. ASSUME NEW i \in 1..Len(s) PROVE FrameOK(r[i], open) /\ (r[i].kind \in Outermost => i = Len(r))
  <2>1. FrameOK(s[i], open) /\ (s[i].kind \in Outermost => i = Len(s))
    BY DEF StackOK
  <2> QED BY <1>1, <2>1 DEF FrameOK, FrameTerminals, SameHandler
<1> QED BY <1>1, <1>2 DEF StackOK, r

\* lcrt_ssh_connect keeps the types.
LEMMA ConnectType ==
  ASSUME SshType, ProcType, RecType, NEW t \in Terminals, NEW u \in Users,
         NEW found \in BOOLEAN, NEW oldPid \in BOOLEAN, NEW oldChild \in Phases,
         Connect(t, u, found, oldPid, oldChild)
  PROVE  SshType' /\ ProcType'
<1>1. SshType'
  BY DEF Connect, SshType
<1>2. pid' \in [Terminals -> BOOLEAN]
  BY DEF Connect, ProcType
<1>3. child' \in [Terminals -> Phases] /\ loginName' \in [Terminals -> LoginName]
  BY DEF Connect, ProcType, RecType, Phases
<1> QED BY <1>1, <1>2, <1>3 DEF ProcType

\* Its dialog opens above the handlers that are suspended.
LEMMA AfterConnectStack ==
  ASSUME NEW open \in SUBSET Terminals, NEW t \in open, NEW found \in BOOLEAN,
         NEW rest \in Seq(Frames), StackOK(rest, open), AfterConnect(t, found, rest)
  PROVE  stack' \in Seq(Frames) /\ StackOK(stack', open)
<1>1. CASE found
  BY <1>1 DEF AfterConnect
<1>2. CASE ~found
  BY <1>2, FrameIn, StackPush DEF AfterConnect, Outermost
<1> QED BY <1>1, <1>2

\* The login dialog opens above the handlers that are suspended.
LEMMA OpenLoginType ==
  ASSUME TypeOK, NEW t \in tabs, NEW at \in {"denied", "prompt"}, NEW text \in Texts,
         at = "denied" => text \in {"denied", "denied_prompt"},
         at = "prompt" => text \in {"prompt", "denied_prompt"}, NEW own \in BOOLEAN,
         NEW rest \in Seq(Frames), StackOK(rest, tabs), OpenLogin(t, at, text, own, rest)
  PROVE  /\ stack' \in Seq(Frames) /\ StackOK(stack', tabs)
         /\ changed' \in [Terminals -> BOOLEAN]
<1>1. stack' \in Seq(Frames) /\ StackOK(stack', tabs)
  <2> DEFINE f == LoginFrame(t, at, text, own)
  <2>1. f \in Frames /\ FrameOK(f, tabs) /\ f.kind \notin Outermost
    BY FrameIn DEF TypeOK, TabType, Outermost
  <2>2. stack' = <<f>> \o rest
    BY DEF OpenLogin
  <2> HIDE DEF f
  <2> QED BY <2>1, <2>2, StackPush
<1>2. changed' \in [Terminals -> BOOLEAN]
  BY DEF OpenLogin, NoteTyping, TypeOK, SshType
<1> QED BY <1>1, <1>2

\* The stored password is sent: types are kept.
LEMMA SubmitPasswordType ==
  ASSUME TypeOK, NEW t \in tabs, NEW phase \in Phases,
         NEW rest \in Seq(Frames), StackOK(rest, tabs), SubmitPassword(t, phase, rest)
  PROVE  HandlerTyped(tabs)
<1>1. LinkType(SshStatus)'
  BY StatusIn, SetStatusType DEF SubmitPassword, TypeOK, TabType
<1>2. child' \in [Terminals -> Phases]
  BY PhaseIn DEF SubmitPassword, TypeOK, ProcType
<1> QED BY <1>1, <1>2
        DEF SubmitPassword, HandlerTyped, TypeOK, keyVars, saveVars, sshVars,
            KeyType, SaveType, SshType, ProcType

\* The connection is killed and made anew: types are kept.
LEMMA RestartType ==
  ASSUME TypeOK, NEW t \in tabs,
         NEW rest \in Seq(Frames), StackOK(rest, tabs), Restart(t, rest)
  PROVE  HandlerTyped(tabs)
<1>1. LinkType(SshStatus)' /\ KeyType' /\ SaveType'
  BY DEF Restart, TypeOK, linkVars, keyVars, saveVars, LinkType, KeyType, SaveType
<1>2. CASE app' = "group_killed" /\ stack' = rest /\ UNCHANGED <<sshVars, procVars>>
  BY <1>1, <1>2 DEF HandlerTyped, TypeOK, sshVars, procVars, SshType, ProcType
<1>3. ASSUME NEW found \in FoundChoices,
             Connect(t, user[t], found, FALSE, Killed(child[t])),
             AfterConnect(t, found, Disown(t, rest)), UNCHANGED app
      PROVE  HandlerTyped(tabs)
  <2>1. found \in BOOLEAN /\ user[t] \in Users /\ t \in Terminals /\ tabs \in SUBSET Terminals
    BY SshAssumption DEF TypeOK, TabType
  <2>2. Killed(child[t]) \in Phases
    BY <2>1, PhaseIn DEF TypeOK, ProcType
  <2>3. SshType' /\ ProcType'
    BY <1>3, <2>1, <2>2, ConnectType DEF TypeOK
  <2>4. stack' \in Seq(Frames) /\ StackOK(stack', tabs)
    <3>1. Disown(t, rest) \in Seq(Frames) /\ StackOK(Disown(t, rest), tabs)
      BY DisownStack
    <3> QED BY <1>3, <2>1, <3>1, AfterConnectStack
  <2> QED BY <1>1, <1>3, <2>3, <2>4 DEF HandlerTyped, TypeOK
<1> QED BY <1>2, <1>3 DEF Restart

\* lcrt_ssh_receive below its "Permission denied" block keeps the types.
LEMMA AfterDeniedType ==
  ASSUME TypeOK, NEW t \in tabs, NEW text \in Texts, NEW phase \in Phases, NEW own \in BOOLEAN,
         NEW rest \in Seq(Frames), StackOK(rest, tabs), AfterDenied(t, text, phase, own, rest)
  PROVE  HandlerTyped(tabs)
<1>0. t \in Terminals
  BY DEF TypeOK, TabType
<1>1. ASSUME OpenLogin(t, "prompt", text, own, rest), child' = [child EXCEPT ![t] = phase],
             PromptMatches(t, text),
             UNCHANGED <<linkVars, keyVars, saveVars, private, again, pid, loginName, app>>
      PROVE  HandlerTyped(tabs)
  <2>1. /\ stack' \in Seq(Frames) /\ StackOK(stack', tabs)
        /\ changed' \in [Terminals -> BOOLEAN]
    BY <1>1, OpenLoginType DEF PromptMatches
  <2> QED BY <1>1, <2>1
          DEF HandlerTyped, TypeOK, linkVars, keyVars, saveVars,
              LinkType, KeyType, SaveType, SshType, ProcType
<1>2. CASE Restart(t, rest)
  BY <1>2, RestartType
<1>3. CASE SubmitPassword(t, phase, rest)
  BY <1>3, SubmitPasswordType
<1>4. ASSUME child' = [child EXCEPT ![t] = "talk"],
             status' = [status EXCEPT ![t] = WAIT_RETURN], stack' = rest,
             UNCHANGED <<toolbar, keyVars, saveVars, sshVars, pid, loginName, app>>
      PROVE  HandlerTyped(tabs)
  <2>1. child' \in [Terminals -> Phases]
    BY <1>0, <1>4 DEF TypeOK, ProcType, Phases
  <2> QED BY <1>4, <2>1, StatusIn
          DEF HandlerTyped, TypeOK, keyVars, saveVars, sshVars,
              LinkType, KeyType, SaveType, SshType, ProcType
<1>5. ASSUME NEW p \in {phase, Commands(t, phase)}, child' = [child EXCEPT ![t] = p], stack' = rest,
             UNCHANGED <<sshVars, pid, loginName, app>>,
             \/ /\ status' = [status EXCEPT ![t] = DISCONNECT]
                /\ UNCHANGED <<toolbar, keyVars, saveVars>>
             \/ SetConnectedStatus(t)
      PROVE  HandlerTyped(tabs)
  <2>1. LinkType(SshStatus)' /\ KeyType' /\ SaveType'
    <3>1. CASE SetConnectedStatus(t)
      BY <1>0, <3>1, SetConnectedType, StatusIn DEF TypeOK, TabType
    <3>2. CASE status' = [status EXCEPT ![t] = DISCONNECT]
                 /\ UNCHANGED <<toolbar, keyVars, saveVars>>
      BY <3>2, StatusIn DEF TypeOK, LinkType, KeyType, SaveType, keyVars, saveVars
    <3> QED BY <1>5, <3>1, <3>2
  <2>2. p \in Phases
    BY PhaseIn
  <2> QED BY <1>5, <2>1, <2>2 DEF HandlerTyped, TypeOK, sshVars, SshType, ProcType
<1> QED BY <1>1, <1>2, <1>3, <1>4, <1>5 DEF AfterDenied

\* lcrt_ssh_receive keeps the types.
LEMMA ReceiveTextType ==
  ASSUME TypeOK, StackOK(stack, tabs), NEW t \in tabs, NEW text \in Texts,
         NEW phase \in Phases, ReceiveText(t, text, phase)
  PROVE  HandlerTyped(tabs)
<1>0. t \in Terminals /\ tabs \in SUBSET Terminals /\ stack \in Seq(Frames)
  BY DEF TypeOK, TabType
<1>1. ASSUME NEW f \in {Frame("notice", t), FailedFrame(t)}, Push(f)
      PROVE  stack' \in Seq(Frames) /\ StackOK(stack', tabs)
  BY <1>0, <1>1, FrameIn, StackPush DEF Push, Outermost
<1>2. ASSUME child' = [child EXCEPT ![t] = phase], Push(Frame("notice", t)),
             UNCHANGED <<linkVars, keyVars, saveVars, sshVars, pid, loginName, app>>
      PROVE  HandlerTyped(tabs)
  BY <1>1, <1>2 DEF HandlerTyped, TypeOK, linkVars, keyVars, saveVars, sshVars,
                    LinkType, KeyType, SaveType, SshType, ProcType
<1>3. ASSUME Denied(t, text, phase), text \in {"denied", "denied_prompt"}
      PROVE  HandlerTyped(tabs)
  <2>1. /\ KeyType' /\ SaveType' /\ ProcType' /\ app' \in {"up", "segv", "group_killed"}
        /\ private' \in [Terminals -> BOOLEAN] /\ again' \in [Terminals -> Nat]
    BY <1>0, <1>3 DEF Denied, TypeOK, keyVars, saveVars, KeyType, SaveType, SshType, ProcType
  <2>2. CASE SetStatus(t, DISCONNECT) /\ Push(FailedFrame(t)) /\ UNCHANGED changed
    <3>1. LinkType(SshStatus)'
      BY <1>0, <2>2, StatusIn, SetStatusType DEF TypeOK
    <3> QED BY <1>1, <2>1, <2>2, <3>1 DEF HandlerTyped, TypeOK, SshType
  <2>3. CASE OpenLogin(t, "denied", text, TRUE, stack) /\ UNCHANGED linkVars
    BY <1>0, <1>3, <2>1, <2>3, OpenLoginType
    DEF HandlerTyped, TypeOK, SshType, linkVars, LinkType
  <2> QED BY <1>3, <2>2, <2>3 DEF Denied
<1>4. CASE AfterDenied(t, text, phase, TRUE, stack)
  BY <1>0, <1>4, AfterDeniedType
<1> QED BY <1>2, <1>3, <1>4 DEF ReceiveText

-----------------------------------------------------------------------------
(* Every step keeps the types and leaves no handler suspended on a         *)
(* terminal that has been freed.                                           *)
(***************************************************************************)
Typed == TypeOK /\ StackOK(stack, tabs)

\* A connection made outside a dialog by the menu, the toolbar or Return.
LEMMA ConnectedByUser ==
  ASSUME Typed, Idle, NEW t \in tabs, NEW found \in FoundChoices,
         Connect(t, user[t], found, pid[t], child[t]), AfterConnect(t, found, stack),
         UNCHANGED <<tabVars, linkVars, keyVars, saveVars, UserVars>>
  PROVE  Typed'
<1>1. found \in BOOLEAN /\ user[t] \in Users /\ t \in Terminals /\ tabs \in SUBSET Terminals
  BY SshAssumption DEF Typed, TypeOK, TabType
<1>2. pid[t] \in BOOLEAN /\ child[t] \in Phases
  BY <1>1 DEF Typed, TypeOK, ProcType
<1>3. SshType' /\ ProcType'
  BY <1>1, <1>2, ConnectType DEF Typed, TypeOK
<1>4. stack' \in Seq(Frames) /\ StackOK(stack', tabs)
  BY <1>1, AfterConnectStack DEF Typed, TypeOK
<1> QED BY <1>3, <1>4
        DEF Typed, TypeOK, UserVars, tabVars, linkVars, keyVars, saveVars, recVars,
            TabType, LinkType, KeyType, SaveType, RecType

\* A new tab is opened only when no handler is suspended.
LEMMA NewTerminalTyped ==
  ASSUME Typed, Idle, NEW t \in Terminals, NEW u \in Users, NewTerminal(t, u)
  PROVE  Typed'
<1>1. /\ TabType' /\ LinkType(SshStatus)' /\ KeyType' /\ SaveType'
      /\ t \in tabs' /\ tabs' \in SUBSET Terminals
  <2>1. \/ SwitchPage(t, DISCONNECT)
        \/ current' = current /\ currentUser' = u /\ UNCHANGED toolbar
    BY DEF NewTerminal
  <2>2. NewPage(t, u)
    BY DEF NewTerminal
  <2>3. TabType' /\ LinkType(SshStatus)' /\ KeyType' /\ SaveType'
    BY <2>1, <2>2, NewPageType, StatusIn DEF Typed, TypeOK
  <2> QED BY <2>2, <2>3 DEF NewPage, NewPageWith, TabType
<1>2. SshType' /\ ProcType'
  <2>1. PICK found \in FoundChoices : Connect(t, u, found, FALSE, "none")
    BY DEF NewTerminal
  <2> QED BY <2>1, ConnectType, SshAssumption DEF Typed, TypeOK, Phases
<1>3. stack' \in Seq(Frames) /\ StackOK(stack', tabs')
  <2>1. CASE stack' = stack
    BY <2>1, StackEmpty DEF Idle
  <2>2. CASE Push(Frame("new_page", t))
    BY <1>1, <2>2, FrameIn, StackEmpty, StackPush DEF Push, Idle
  <2> QED BY <2>1, <2>2 DEF NewTerminal
<1> QED BY <1>1, <1>2, <1>3 DEF NewTerminal, Typed, TypeOK, UserVars, recVars, RecType

\* A terminal is freed only when no other handler is suspended.
LEMMA DestroyTyped ==
  ASSUME Typed, NEW t \in Terminals, Destroy(t), stack' = <<>>
  PROVE  Typed'
<1>1. TabType' /\ LinkType(SshStatus)' /\ KeyType' /\ SaveType'
  BY DestroyPageType, StatusIn DEF Typed, TypeOK, Destroy
<1>2. SshType' /\ ProcType'
  BY DEF Destroy, Typed, TypeOK, SshType, ProcType, Phases, LoginName
<1> QED BY <1>1, <1>2, StackEmpty DEF Destroy, Typed, TypeOK, UserVars, recVars, RecType

\* The menu, the toolbar, the tabs and the keys keep the types.
LEMMA UserStepTyped == Typed /\ UserStep => Typed'
<1> SUFFICES ASSUME Typed, UserStep PROVE Typed'
  OBVIOUS
<1> USE DEF Typed
<1>0. /\ tabs \in SUBSET Terminals /\ current \in tabs \cup {NoTerminal}
      /\ \A t \in tabs : user[t] \in Users
  BY DEF TypeOK, TabType
<1>1. ASSUME NEW t \in Terminals, NEW u \in Users, OpenSession(t, u) PROVE Typed'
  BY <1>1, NewTerminalTyped DEF OpenSession
<1>2. ASSUME NEW t \in Terminals, Clone(t) PROVE Typed'
  BY <1>0, <1>2, NewTerminalTyped DEF Clone
<1>3. ASSUME NEW t \in Terminals, Close(t) PROVE Typed'
  <2>1. CASE Destroy(t) /\ UNCHANGED stack
    BY <1>3, <2>1, DestroyTyped DEF Close, Idle
  <2>2. CASE /\ Push(Frame("confirm_close", t))
             /\ UNCHANGED <<tabVars, linkVars, keyVars, saveVars, sshVars, procVars, UserVars>>
    <3>1. stack' \in Seq(Frames) /\ StackOK(stack', tabs)
      BY <1>0, <1>3, <2>2, FrameIn, StackEmpty, StackPush DEF Close, Push, Idle
    <3> QED BY <2>2, <3>1
            DEF TypeOK, UserVars, tabVars, linkVars, keyVars, saveVars, recVars, sshVars, procVars,
                TabType, LinkType, KeyType, SaveType, RecType, SshType, ProcType
  <2> QED BY <1>3, <2>1, <2>2 DEF Close
<1>4. ASSUME NEW t \in Terminals, SelectTab(t), UNCHANGED <<recVars, sshVars, procVars, app>>
      PROVE  Typed'
  <2>1. TabType' /\ LinkType(SshStatus)'
    BY <1>4, SwitchPageType DEF SelectTab, TypeOK
  <2> QED BY <1>4, <2>1
          DEF SelectTab, TypeOK, keyVars, saveVars, recVars, sshVars, procVars,
              KeyType, SaveType, RecType, SshType, ProcType
<1>5. CASE PressReturn
  BY <1>0, <1>5, ConnectedByUser DEF PressReturn
<1>6. CASE Reconnect
  BY <1>0, <1>6, ConnectedByUser DEF Reconnect
<1>7. CASE ReconnectAll
  <2> DEFINE f == [kind |-> "reconnect_all", todo |-> tabs]
  <2>1. f \in Frames /\ FrameOK(f, tabs)
    BY <1>0 DEF Frames, FrameOK, FrameTerminals, Loops, LoginKinds
  <2>2. stack' = <<f>> \o stack
    BY <1>7 DEF ReconnectAll, Push
  <2> HIDE DEF f
  <2>3. stack' \in Seq(Frames) /\ StackOK(stack', tabs)
    BY <1>7, <2>1, <2>2, StackPush DEF ReconnectAll, Idle, TypeOK
  <2> QED BY <1>7, <2>3
          DEF ReconnectAll, TypeOK, UserVars, tabVars, linkVars, keyVars, saveVars, recVars,
              sshVars, procVars,
              TabType, LinkType, KeyType, SaveType, RecType, SshType, ProcType
<1>8. CASE DisconnectCurrent
  <2>1. current \in Terminals
    BY <1>0, <1>8 DEF DisconnectCurrent
  <2>2. LinkType(SshStatus)'
    BY <1>8, <2>1, SetStatusType, StatusIn DEF DisconnectCurrent, Disconnect, TypeOK
  <2>3. child' \in [Terminals -> Phases]
    BY <1>8, <2>1, PhaseIn DEF DisconnectCurrent, Disconnect, TypeOK, ProcType
  <2> QED BY <1>8, <2>2, <2>3
          DEF DisconnectCurrent, Disconnect, TypeOK, UserVars, tabVars, keyVars, saveVars, recVars,
              TabType, KeyType, SaveType, RecType, SshType, ProcType
<1>9. CASE DisconnectAll
  <2>1. LinkType(SshStatus)'
    BY <1>9, StatusIn, ButtonsType DEF DisconnectAll, TypeOK, LinkType
  <2>2. child' \in [Terminals -> Phases]
    BY <1>9, PhaseIn DEF DisconnectAll, TypeOK, ProcType
  <2>3. SshType'
    BY <1>9 DEF DisconnectAll, TypeOK, SshType
  <2> QED BY <1>9, <2>1, <2>2, <2>3
          DEF DisconnectAll, TypeOK, UserVars, tabVars, keyVars, saveVars, recVars,
              TabType, KeyType, SaveType, RecType, ProcType
<1> QED BY <1>1, <1>2, <1>3, <1>4, <1>5, <1>6, <1>7, <1>8, <1>9 DEF UserStep

\* The buttons of the dialogs keep the types.
LEMMA DialogStepTyped == Typed /\ DialogStep => Typed'
<1> SUFFICES ASSUME Typed, DialogStep PROVE Typed'
  OBVIOUS
<1> USE DEF Typed
<1> DEFINE f == Head(stack)
<1>0. /\ tabs \in SUBSET Terminals /\ current \in tabs \cup {NoTerminal}
      /\ stack \in Seq(Frames)
  BY DEF TypeOK, TabType
<1>1. stack # <<>> =>
        /\ f \in Frames /\ FrameOK(f, tabs)
        /\ Tail(stack) \in Seq(Frames) /\ StackOK(Tail(stack), tabs)
        /\ f.kind \in Outermost => Tail(stack) = <<>>
  BY <1>0, StackPop
<1>2. ASSUME Top("notice") \/ Top("failed") \/ Top("new_page") \/ Top("confirm_close"), f \in Frames, FrameOK(f, tabs)
      PROVE  f.term \in tabs
  BY <1>2 DEF Top, FrameOK, FrameTerminals, Loops
<1> HIDE DEF f
<1>3. ASSUME NEW ok \in BOOLEAN, AnswerClose(ok) PROVE Typed'
  <2>1. f.term \in Terminals /\ stack' = <<>>
    BY <1>0, <1>1, <1>2, <1>3 DEF AnswerClose, Top, Pop, f, Outermost
  <2>2. CASE Destroy(f.term)
    BY <2>1, <2>2, DestroyTyped
  <2>3. CASE UNCHANGED <<tabVars, linkVars, keyVars, saveVars, sshVars, procVars, UserVars>>
    BY <2>1, <2>3, StackEmpty
    DEF TypeOK, UserVars, tabVars, linkVars, keyVars, saveVars, recVars, sshVars, procVars,
        TabType, LinkType, KeyType, SaveType, RecType, SshType, ProcType
  <2> QED BY <1>3, <2>2, <2>3 DEF AnswerClose, f
<1>4. CASE CloseNotice
  BY <1>1, <1>4
  DEF CloseNotice, Top, Pop, TypeOK, UserVars, tabVars, linkVars, keyVars, saveVars, recVars,
      sshVars, procVars, TabType, LinkType, KeyType, SaveType, RecType, SshType, ProcType
<1>5. CASE CloseNewPage
  <2>1. f.term \in tabs
    BY <1>1, <1>2, <1>5 DEF CloseNewPage, Top
  <2>2. TabType' /\ LinkType(SshStatus)'
    <3>1. CASE UNCHANGED <<current, currentUser, toolbar>>
      BY <1>5, <3>1 DEF CloseNewPage, TypeOK, TabType, LinkType
    <3>2. CASE SwitchPage(f.term, status[f.term])
      BY <1>5, <2>1, <3>2, SwitchPageType DEF CloseNewPage, TypeOK
    <3> QED BY <1>5, <3>1, <3>2 DEF CloseNewPage, f
  <2> QED BY <1>1, <1>5, <2>1, <2>2
          DEF CloseNewPage, Top, Pop, TypeOK, UserVars, keyVars, saveVars, recVars,
              sshVars, procVars, KeyType, SaveType, RecType, SshType, ProcType
<1>6. CASE CloseFailed
  <2>1. again' \in [Terminals -> Nat]
    BY <1>6 DEF CloseFailed, TypeOK, SshType
  <2> QED BY <1>1, <1>6, <2>1
      DEF CloseFailed, Top, Pop, TypeOK, UserVars, tabVars, linkVars, keyVars, saveVars, recVars,
          procVars, TabType, LinkType, KeyType, SaveType, RecType, SshType, ProcType
<1>7. ASSUME NEW ok \in BOOLEAN, NEW typed \in BOOLEAN, NEW secret \in SecretChoices,
             NEW name \in LoginName, NEW keep \in RememberChoices,
             AnswerLogin(ok, typed, name, secret, keep)
      PROVE  Typed'
  <2> DEFINE g == [f EXCEPT !.kind = "resume"]
             t == f.term
  <2>1. f.kind = "login" /\ stack # <<>>
    BY <1>7 DEF AnswerLogin, Top, f
  <2>2. g \in Frames /\ FrameOK(g, tabs) /\ g.kind \notin Outermost /\ t \in tabs
    BY <1>1, <2>1 DEF Frames, FrameOK, FrameTerminals, Loops, Outermost, LoginKinds
  <2>3. stack' = <<g>> \o Tail(stack)
    BY <1>7 DEF AnswerLogin, f
  <2>4. /\ changed' = [changed EXCEPT ![t] = @ \/ typed]
        /\ remember' = [remember EXCEPT ![t] = keep]
        /\ \/ /\ username' = [username EXCEPT ![user[t]] = name]
              /\ password' = [password EXCEPT ![user[t]] = secret]
           \/ UNCHANGED recVars
        /\ UNCHANGED <<tabVars, linkVars, keyVars, stored, private, again, procVars, app>>
    BY <1>7 DEF AnswerLogin, NoteTyping, f
  <2> HIDE DEF g, t
  <2>5. stack' \in Seq(Frames) /\ StackOK(stack', tabs)
    BY <1>1, <2>1, <2>2, <2>3, StackPush
  <2>6. changed' \in [Terminals -> BOOLEAN] /\ remember' \in [Terminals -> BOOLEAN]
    BY <2>4, SshAssumption DEF TypeOK, SshType, SaveType
  <2>7. RecType'
    BY <2>4, SshAssumption DEF TypeOK, RecType, recVars
  <2> QED BY <2>4, <2>5, <2>6, <2>7
          DEF TypeOK, tabVars, linkVars, keyVars, procVars,
              TabType, LinkType, KeyType, SaveType, SshType, ProcType
<1> QED BY <1>3, <1>4, <1>5, <1>6, <1>7 DEF DialogStep

\* What lcrt_ssh_receive does leaves the tabs and the records alone.
LEMMA HandlerTypedStep ==
  ASSUME TypeOK, HandlerTyped(tabs), UNCHANGED <<tabVars, recVars>>
  PROVE  Typed'
BY DEF HandlerTyped, Typed, TypeOK, tabVars, recVars, TabType, RecType

\* A handler that runs on keeps the types.
LEMMA HandlerStepTyped == Typed /\ HandlerStep => Typed'
<1> SUFFICES ASSUME Typed, HandlerStep PROVE Typed'
  OBVIOUS
<1> USE DEF Typed
<1> DEFINE f == Head(stack)
           rest == Tail(stack)
<1>0. /\ tabs \in SUBSET Terminals /\ \A t \in tabs : user[t] \in Users
      /\ stack \in Seq(Frames)
  BY DEF TypeOK, TabType
<1>1. stack # <<>>
  BY DEF HandlerStep, ReconnectNext, ResumeReceive, Top
<1>2. /\ f \in Frames /\ FrameOK(f, tabs)
      /\ rest \in Seq(Frames) /\ StackOK(rest, tabs)
      /\ f.kind \in Outermost => rest = <<>>
  BY <1>0, <1>1, StackPop
<1> HIDE DEF f, rest
<1>3. CASE ResumeReceive
  <2>1. f.kind = "resume"
    BY <1>3 DEF ResumeReceive, Top, f
  <2>2. f.term \in tabs /\ f.text \in Texts /\ f.own \in BOOLEAN
    BY <1>2, <2>1 DEF FrameOK, FrameTerminals, Loops, Frames, LoginKinds
  <2>3. child[f.term] \in Phases
    BY <1>0, <2>2 DEF TypeOK, ProcType
  <2>4. \/ Restart(f.term, rest)
        \/ AfterDenied(f.term, f.text, child[f.term], f.own, rest)
        \/ SubmitPassword(f.term, child[f.term], rest)
    BY <1>3 DEF ResumeReceive, f, rest
  <2>5. HandlerTyped(tabs)
    BY <1>2, <2>2, <2>3, <2>4, RestartType, AfterDeniedType, SubmitPasswordType
  <2> QED BY <1>3, <2>5, HandlerTypedStep DEF ResumeReceive
<1>4. CASE ReconnectNext
  <2>1. f.kind = "reconnect_all"
    BY <1>4 DEF ReconnectNext, Top, f
  <2>2. f.todo \subseteq tabs
    BY <2>1, <1>2 DEF FrameOK, FrameTerminals, Loops
  <2> DEFINE todoFrame(left) == [kind |-> "reconnect_all", todo |-> left]
             then(left) == IF left = {} THEN rest ELSE <<todoFrame(left)>> \o rest
             old(t) == IF status[t] = CONNECTED THEN Fed(child[t]) ELSE child[t]
  <2>3. PICK t \in f.todo, found \in FoundChoices :
          /\ SetStatus(t, DISCONNECT)
          /\ Connect(t, user[t], found, pid[t], old(t))
          /\ AfterConnect(t, found, then(f.todo \ {t}))
    BY <1>4 DEF ReconnectNext, f, rest
  <2>4. UNCHANGED <<tabVars, keyVars, saveVars, UserVars>>
    BY <1>4 DEF ReconnectNext
  <2>5. /\ t \in tabs /\ t \in Terminals /\ user[t] \in Users /\ found \in BOOLEAN
        /\ pid[t] \in BOOLEAN /\ old(t) \in Phases
    <3>1. t \in tabs /\ t \in Terminals /\ user[t] \in Users /\ found \in BOOLEAN
      BY <1>0, <2>2, SshAssumption
    <3>2. pid[t] \in BOOLEAN /\ child[t] \in Phases
      BY <3>1 DEF TypeOK, ProcType
    <3> QED BY <3>1, <3>2, PhaseIn
  <2>6. then(f.todo \ {t}) \in Seq(Frames) /\ StackOK(then(f.todo \ {t}), tabs)
    <3> DEFINE left == f.todo \ {t}
    <3>1. todoFrame(left) \in Frames /\ FrameOK(todoFrame(left), tabs)
      BY <1>0, <2>2 DEF Frames, FrameOK, FrameTerminals, Loops, LoginKinds
    <3>2. rest = <<>>
      BY <1>2, <2>1 DEF Outermost
    <3> HIDE DEF left, todoFrame
    <3>3. <<todoFrame(left)>> \o rest \in Seq(Frames) /\ StackOK(<<todoFrame(left)>> \o rest, tabs)
      BY <1>2, <3>1, <3>2, StackPush
    <3> QED BY <1>2, <3>3 DEF left
  <2>7. LinkType(SshStatus)'
    BY <2>3, <2>5, SetStatusType, StatusIn DEF TypeOK
  <2> HIDE DEF old, then
  <2>8. SshType' /\ ProcType'
    BY <2>3, <2>5, ConnectType DEF TypeOK
  <2>9. stack' \in Seq(Frames) /\ StackOK(stack', tabs)
    BY <1>0, <2>3, <2>5, <2>6, AfterConnectStack
  <2> QED BY <2>4, <2>7, <2>8, <2>9
          DEF TypeOK, UserVars, tabVars, keyVars, saveVars, recVars,
              TabType, KeyType, SaveType, RecType
<1> QED BY <1>3, <1>4 DEF HandlerStep

\* What the child prints, and its exit, keep the types.
LEMMA ChildStepTyped == Typed /\ ChildStep => Typed'
<1> SUFFICES ASSUME Typed, NEW t \in Terminals, Receive(t) \/ Die(t) \/ ChildExited(t)
             PROVE  Typed'
  BY DEF ChildStep
<1> USE DEF Typed
<1>1. CASE Receive(t)
  <2>1. t \in tabs
    BY <1>1 DEF Receive, Attached
  <2>2. PICK o \in Output :
          \/ /\ child' = [child EXCEPT ![t] = o[3]]
             /\ UNCHANGED <<linkVars, keyVars, saveVars, stack, sshVars, pid, loginName, app>>
          \/ /\ app' = "segv"
             /\ UNCHANGED <<linkVars, keyVars, saveVars, stack, sshVars, procVars>>
          \/ ReceiveText(t, o[2], o[3])
    BY <1>1 DEF Receive
  <2>3. o[2] \in Texts /\ o[3] \in Phases
    BY PhaseIn
  <2>4. HandlerTyped(tabs)
    BY <2>1, <2>2, <2>3, ReceiveTextType
    DEF HandlerTyped, TypeOK, linkVars, keyVars, saveVars, sshVars, procVars,
        LinkType, KeyType, SaveType, SshType, ProcType
  <2> QED BY <1>1, <2>4, HandlerTypedStep DEF Receive
<1>2. CASE Die(t)
  <2>1. child' \in [Terminals -> Phases]
    BY <1>2 DEF Die, TypeOK, ProcType, Phases
  <2> QED BY <1>2, <2>1
          DEF Die, TypeOK, coreVars, UserVars, tabVars, linkVars, keyVars, saveVars, recVars,
              sshVars, TabType, LinkType, KeyType, SaveType, RecType, SshType, ProcType
<1>3. CASE ChildExited(t)
  <2>1. ProcType'
    BY <1>3 DEF ChildExited, TypeOK, ProcType, Phases, LoginName
  <2>2. LinkType(SshStatus)' /\ KeyType'
    <3>1. CASE ArmReturnKey(t)
      BY <3>1, ArmReturnKeyType, StatusIn DEF TypeOK
    <3>2. CASE UNCHANGED <<pid, linkVars, keyVars>>
      BY <3>2 DEF TypeOK, linkVars, keyVars, LinkType, KeyType
    <3> QED BY <1>3, <3>1, <3>2 DEF ChildExited
  <2> QED BY <1>3, <2>1, <2>2
          DEF ChildExited, TypeOK, UserVars, tabVars, saveVars, recVars, sshVars,
              TabType, SaveType, RecType, SshType
<1> QED BY <1>1, <1>2, <1>3

LEMMA TypedInit == Init => Typed
BY StackEmpty, ButtonsType, StatusIn, SshAssumption
DEF Init, CoreInit, Typed, TypeOK, TabType, LinkType, KeyType, SaveType, RecType, SshType, ProcType,
    Phases, LoginName

LEMMA TypedStutter == Typed /\ UNCHANGED vars => Typed'
BY DEF Typed, TypeOK, vars, coreVars, tabVars, linkVars, keyVars, saveVars, recVars, sshVars, procVars,
       TabType, LinkType, KeyType, SaveType, RecType, SshType, ProcType

LEMMA TypedNext == Typed /\ [Next]_vars => Typed'
BY UserStepTyped, DialogStepTyped, HandlerStepTyped, ChildStepTyped, TypedStutter
DEF Next, Down

\* Every variable keeps its type, whatever the number of tabs, records and names.
THEOREM TypeCorrect == Spec => []TypeOK
<1>1. Typed => TypeOK
  BY DEF Typed
<1> QED BY <1>1, TypedInit, TypedNext, PTL DEF Spec

\* No handler is ever suspended on a terminal that has been freed: a dialog's
\* answer is never applied to a closed tab.
THEOREM SuspendedSafe == Spec => []SuspendedOnOpenTabs
<1>1. Typed => SuspendedOnOpenTabs
  BY DEF Typed, StackOK, FrameOK, SuspendedOnOpenTabs
<1> QED BY <1>1, TypedInit, TypedNext, PTL DEF Spec

-----------------------------------------------------------------------------
(* Every step keeps the invariant of the tabs and is a step of TabSession. *)
(***************************************************************************)
\* A handler that leaves the status and the Return key alone.
LEMMA QuietStep ==
  ASSUME CoreInv, UNCHANGED <<tabVars, linkVars, keyVars>>
  PROVE  KeepsCore
BY CoreStutter DEF tabVars, linkVars

\* lcrt_ssh_receive below its "Permission denied" block: a login, or the end of
\* what looked like one.
LEMMA AfterDeniedCore ==
  ASSUME IInv, NEW t \in tabs, NEW text, NEW phase, NEW own, NEW rest,
         text = "yesno" => status[t] # CONNECTED,
         AfterDenied(t, text, phase, own, rest), UNCHANGED tabVars
  PROVE  KeepsCore
<1> USE DEF IInv
<1>0. t \in Terminals /\ UNCHANGED <<tabs, current>>
  BY DEF TypeOK, TabType, tabVars
<1>1. CASE UNCHANGED <<linkVars, keyVars>>
  BY <1>1, QuietStep
<1>2. CASE SetStatus(t, CONNECTING) /\ UNCHANGED keyVars
  BY <1>0, <1>2, CoreSetStatus, StatusIn DEF TypeOK, CONNECTING, CONNECTED
<1>3. ASSUME NEW s \in {WAIT_RETURN, DISCONNECT}, status[t] # CONNECTED,
             status' = [status EXCEPT ![t] = s], UNCHANGED <<toolbar, keyVars>>
      PROVE  KeepsCore
  <2>1. s # CONNECTED
    BY DEF WAIT_RETURN, DISCONNECT, CONNECTED
  <2>2. status'[t] = s /\ \A n \in Terminals \ {t} : status'[n] = status[n]
    BY <1>0, <1>3 DEF TypeOK, LinkType
  <2>3. ToolbarFollowsStatus'
    BY <1>0, <1>3, <2>1, <2>2, CoreAssumption
    DEF CoreInv, ToolbarFollowsStatus, ButtonsFor, TypeOK, TabType
  <2> QED BY <1>0, <1>3, <2>1, <2>2, <2>3, CoreDrop
<1>4. CASE SetConnectedStatus(t)
  BY <1>4, CoreConnected DEF TypeOK
<1>5. status[t] = WAIT_RETURN => status[t] # CONNECTED
  BY DEF WAIT_RETURN, CONNECTED
<1> QED BY <1>1, <1>2, <1>3, <1>4, <1>5 DEF AfterDenied, Restart, SubmitPassword

\* lcrt_ssh_receive, called for a terminal that is not connected.
LEMMA ReceiveTextCore ==
  ASSUME IInv, NEW t \in tabs, NEW text, NEW phase, status[t] # CONNECTED,
         ReceiveText(t, text, phase), UNCHANGED tabVars
  PROVE  KeepsCore
<1>1. CASE UNCHANGED <<linkVars, keyVars>>
  BY <1>1, QuietStep DEF IInv
<1>2. CASE SetStatus(t, DISCONNECT) /\ UNCHANGED keyVars
  BY <1>2, CoreSetStatus, StatusIn DEF IInv, TypeOK, tabVars, DISCONNECT, CONNECTED
<1>3. CASE AfterDenied(t, text, phase, TRUE, stack)
  BY <1>3, AfterDeniedCore
<1> QED BY <1>1, <1>2, <1>3 DEF ReceiveText, Denied

LEMMA NewTerminalCore ==
  ASSUME IInv, NEW t \in Terminals, NEW u \in Users, NewTerminal(t, u)
  PROVE  KeepsCore
<1>1. NewPage(t, u)
  BY DEF NewTerminal
<1>2. \/ SwitchPage(t, DISCONNECT)
      \/ tabs # {} /\ current' = current /\ UNCHANGED toolbar
  BY DEF NewTerminal
<1> QED BY <1>1, <1>2, CoreNewPage DEF IInv, TypeOK

\* The menu, the toolbar, the tabs and the keys.
LEMMA UserStepCore == IInv /\ UserStep => KeepsCore
<1> SUFFICES ASSUME IInv, UserStep PROVE KeepsCore
  OBVIOUS
<1> USE DEF IInv
<1>0. /\ tabs \in SUBSET Terminals /\ current \in tabs \cup {NoTerminal}
      /\ \A t \in tabs : user[t] \in Users
  BY DEF TypeOK, TabType
<1>1. ASSUME NEW t \in Terminals, NEW u \in Users, OpenSession(t, u) PROVE KeepsCore
  BY <1>1, NewTerminalCore DEF OpenSession
<1>2. ASSUME NEW t \in Terminals, Clone(t) PROVE KeepsCore
  BY <1>0, <1>2, NewTerminalCore DEF Clone
<1>3. ASSUME NEW t \in Terminals, Close(t) PROVE KeepsCore
  <2>1. CASE Destroy(t)
    BY <1>3, <2>1, CoreDestroy DEF Close, Destroy, TypeOK
  <2>2. CASE UNCHANGED <<tabVars, linkVars, keyVars>>
    BY <2>2, QuietStep
  <2> QED BY <1>3, <2>1, <2>2 DEF Close
<1>4. ASSUME NEW t \in Terminals, SelectTab(t) PROVE KeepsCore
  BY <1>4, CoreSwitch DEF SelectTab, TypeOK
<1>5. CASE PressReturn \/ Reconnect \/ ReconnectAll
  BY <1>5, QuietStep DEF PressReturn, Reconnect, ReconnectAll
<1>6. CASE DisconnectCurrent
  BY <1>0, <1>6, CoreSetStatus, StatusIn
  DEF DisconnectCurrent, Disconnect, TypeOK, tabVars, DISCONNECT, CONNECTED
<1>7. CASE DisconnectAll
  <2> DEFINE live == {t \in tabs : status[t] = CONNECTED}
  <2>1. /\ status' = [t \in Terminals |-> IF t \in live THEN DISCONNECT ELSE status[t]]
        /\ toolbar' = IF current \in live THEN ButtonsFor(DISCONNECT) ELSE toolbar
        /\ UNCHANGED <<tabs, current, keyVars>>
    BY <1>7 DEF DisconnectAll, tabVars
  <2>2. live \subseteq tabs
    OBVIOUS
  <2> HIDE DEF live
  <2>3. \A n \in Terminals : status'[n] = IF n \in live THEN DISCONNECT ELSE status[n]
    BY <2>1
  <2>4. ToolbarFollowsStatus'
    BY <1>0, <2>1, <2>2, <2>3, CoreAssumption DEF CoreInv, ToolbarFollowsStatus
  <2> QED BY <2>1, <2>3, <2>4, CoreDrop DEF DISCONNECT, CONNECTED
<1> QED BY <1>1, <1>2, <1>3, <1>4, <1>5, <1>6, <1>7 DEF UserStep

\* The dialogs, the handlers that run on, and the child.
LEMMA SystemStepCore == IInv /\ (DialogStep \/ HandlerStep \/ ChildStep) => KeepsCore
<1> SUFFICES ASSUME IInv, DialogStep \/ HandlerStep \/ ChildStep PROVE KeepsCore
  OBVIOUS
<1> USE DEF IInv
<1> DEFINE f == Head(stack)
<1>0. tabs \in SUBSET Terminals /\ stack \in Seq(Frames)
  BY DEF TypeOK, TabType
<1>1. stack # <<>> => f \in Frames /\ FrameOK(f, tabs)
  BY <1>0, StackPop
<1>2. stack # <<>> /\ f.kind # "reconnect_all" => f.term \in tabs
  BY <1>1 DEF FrameOK, FrameTerminals, Loops, Frames, LoginKinds
<1> HIDE DEF f
<1>3. ASSUME NEW ok \in BOOLEAN, AnswerClose(ok) PROVE KeepsCore
  <2>1. f.term \in tabs
    BY <1>2, <1>3 DEF AnswerClose, Top, f
  <2>2. CASE Destroy(f.term)
    BY <2>1, <2>2, CoreDestroy DEF Destroy, TypeOK
  <2>3. CASE UNCHANGED <<tabVars, linkVars, keyVars>>
    BY <2>3, QuietStep
  <2> QED BY <1>3, <2>2, <2>3 DEF AnswerClose, f
<1>4. CASE CloseNewPage
  <2>1. f.term \in tabs
    BY <1>2, <1>4 DEF CloseNewPage, Top, f
  <2>2. CASE UNCHANGED <<current, currentUser, toolbar>>
    BY <1>4, <2>2, CoreStutter DEF CloseNewPage
  <2>3. CASE SwitchPage(f.term, status[f.term])
    BY <1>4, <2>1, <2>3, CoreSwitch DEF CloseNewPage, TypeOK
  <2> QED BY <1>4, <2>2, <2>3 DEF CloseNewPage, f
<1>5. CASE CloseNotice \/ CloseFailed
  BY <1>5, QuietStep DEF CloseNotice, CloseFailed
<1>6. ASSUME NEW ok, NEW typed, NEW secret, NEW name, NEW keep,
             AnswerLogin(ok, typed, name, secret, keep)
      PROVE  KeepsCore
  BY <1>6, QuietStep DEF AnswerLogin
<1>7. CASE ReconnectNext
  <2>1. f.kind = "reconnect_all" /\ stack # <<>>
    BY <1>7 DEF ReconnectNext, Top, f
  <2>2. f.todo \subseteq tabs
    BY <1>1, <2>1 DEF FrameOK, FrameTerminals, Loops
  <2>3. PICK t \in f.todo : SetStatus(t, DISCONNECT) /\ UNCHANGED <<tabVars, keyVars>>
    BY <1>7 DEF ReconnectNext, f
  <2> QED BY <2>2, <2>3, CoreSetStatus, StatusIn DEF TypeOK, tabVars, DISCONNECT, CONNECTED
<1>8. CASE ResumeReceive
  <2>1. f.kind = "resume" /\ stack # <<>>
    BY <1>8 DEF ResumeReceive, Top, f
  <2>2. f.term \in tabs /\ (f.at = "denied" => f.text # "yesno")
    BY <1>1, <1>2, <2>1 DEF FrameOK, LoginKinds
  <2>3. CASE Restart(f.term, Tail(stack))
    BY <1>8, <2>3, QuietStep DEF ResumeReceive, Restart
  <2>4. CASE f.at = "denied" /\ AfterDenied(f.term, f.text, child[f.term], f.own, Tail(stack))
    BY <1>8, <2>2, <2>4, AfterDeniedCore DEF ResumeReceive
  <2>5. CASE SubmitPassword(f.term, child[f.term], Tail(stack))
    BY <1>8, <2>2, <2>5, CoreSetStatus, StatusIn
    DEF ResumeReceive, SubmitPassword, TypeOK, tabVars, CONNECTING, CONNECTED
  <2> QED BY <1>8, <2>3, <2>4, <2>5 DEF ResumeReceive, f
<1>9. ASSUME NEW t \in Terminals, Receive(t) PROVE KeepsCore
  <2>1. t \in tabs /\ UNCHANGED tabVars
    BY <1>9 DEF Receive, Attached
  <2>2. CASE UNCHANGED <<linkVars, keyVars>>
    BY <2>1, <2>2, QuietStep
  <2>3. ASSUME NEW text, NEW phase, status[t] # CONNECTED, ReceiveText(t, text, phase)
        PROVE  KeepsCore
    BY <2>1, <2>3, ReceiveTextCore
  <2> QED BY <1>9, <2>2, <2>3 DEF Receive
<1>10. ASSUME NEW t \in Terminals, Die(t) PROVE KeepsCore
  BY <1>10, QuietStep DEF Die, coreVars
<1>11. ASSUME NEW t \in Terminals, ChildExited(t) PROVE KeepsCore
  <2>1. t \in tabs /\ UNCHANGED tabVars
    BY <1>11 DEF ChildExited, Attached
  <2>2. CASE UNCHANGED <<linkVars, keyVars>>
    BY <2>1, <2>2, QuietStep
  <2>3. CASE status[t] = CONNECTED /\ ArmReturnKey(t)
    BY <2>1, <2>3, CoreArm DEF TypeOK
  <2> QED BY <1>11, <2>2, <2>3 DEF ChildExited
<1> QED BY <1>3, <1>4, <1>5, <1>6, <1>7, <1>8, <1>9, <1>10, <1>11
        DEF DialogStep, HandlerStep, ChildStep

LEMMA NextCore == IInv /\ [Next]_vars => KeepsCore
<1>1. IInv /\ UNCHANGED vars => KeepsCore
  BY QuietStep DEF IInv, vars, coreVars
<1> QED BY <1>1, UserStepCore, SystemStepCore DEF Next, Down

-----------------------------------------------------------------------------
(* Logins: the handlers that ask, the denials they count, the process.     *)
(***************************************************************************)
NoPrompt(s, t) == \A i \in 1..Len(s) : ~OfPrompt(s[i], t)

\* What one stack says of a terminal's logins, another says too.
Like(s, r, n) ==
  /\ \A phase : PromptsOK(s, n, phase) => PromptsOK(r, n, phase)
  /\ \A denials : CountOK(s, n, denials) => CountOK(r, n, denials)
  /\ OwnLogin(r, n) => OwnLogin(s, n)

LEMMA LikeItself ==
  /\ \A s, n : Like(s, s, n)
  /\ \A s, r, q, n : Like(s, r, n) /\ Like(r, q, n) => Like(s, q, n)
BY DEF Like

LEMMA PromptAsks == \A f, t : OfPrompt(f, t) => Asks(f, t)
BY DEF OfPrompt, Asks, AskingKinds

\* No prompt is asked for: then the process may do anything.
LEMMA NoPromptOK == \A s, t, phase : NoPrompt(s, t) => PromptsOK(s, t, phase)
BY DEF NoPrompt, PromptsOK

LEMMA PromptPhase ==
  /\ \A s, t, p, q : PromptsOK(s, t, p) /\ q \in AtPrompt => PromptsOK(s, t, q)
  /\ \A s, t, p : PromptsOK(s, t, p) /\ p \notin AtPrompt => NoPrompt(s, t)
BY DEF NoPrompt, PromptsOK

LEMMA EmptyLogins ==
  \A t : NoPrompt(<<>>, t) /\ ~OwnLogin(<<>>, t) /\ (\A c \in Nat : ~(c >= 3) => CountOK(<<>>, t, c))
BY DEF NoPrompt, OwnLogin, CountOK

\* A handler is suspended above the others.
LEMMA LoginPush ==
  ASSUME NEW s \in Seq(Frames), NEW f \in Frames
  PROVE  /\ \A n : ~Asks(f, n) => Like(s, <<f>> \o s, n)
         /\ \A n, phase :
              NoPrompt(s, n) /\ (OfPrompt(f, n) => f.own /\ phase \in AtPrompt)
                => PromptsOK(<<f>> \o s, n, phase)
         /\ \A n, c : CountOK(s, n, c) \/ f = FailedFrame(n) => CountOK(<<f>> \o s, n, c)
         /\ \A n : f.kind = "failed" /\ OwnLogin(<<f>> \o s, n) => OwnLogin(s, n)
<1> DEFINE r == <<f>> \o s
<1>1. <<f>> \in Seq(Frames) /\ Len(<<f>>) = 1 /\ <<f>>[1] = f
  OBVIOUS
<1>2. /\ r \in Seq(Frames) /\ Len(s) \in Nat /\ Len(r) = Len(s) + 1
      /\ \A i \in 1..Len(r) : r[i] = IF i = 1 THEN f ELSE s[i - 1]
  BY <1>1, ConcatProperties, LenProperties
<1> HIDE DEF r
<1>3. r[1] = f /\ 1 \in 1..Len(r)
  BY <1>2
<1>4. \A i \in 1..Len(s) : i + 1 \in 1..Len(r) /\ r[i + 1] = s[i]
  BY <1>2
<1>5. \A i \in 1..Len(r) : i # 1 => i - 1 \in 1..Len(s) /\ r[i] = s[i - 1]
  BY <1>2
<1>6. ASSUME NEW n, NEW c, CountOK(s, n, c) \/ f = FailedFrame(n) PROVE CountOK(r, n, c)
  BY <1>3, <1>4, <1>6 DEF CountOK
<1>7. ASSUME NEW n, OwnLogin(r, n), f.kind \notin LoginKinds \/ f.term # n PROVE OwnLogin(s, n)
  BY <1>3, <1>5, <1>7 DEF OwnLogin
<1>8. ASSUME NEW n, NEW phase, PromptsOK(s, n, phase), ~Asks(f, n) PROVE PromptsOK(r, n, phase)
  <2> SUFFICES ASSUME NEW i \in 1..Len(r), OfPrompt(r[i], n)
               PROVE  /\ r[i].own /\ phase \in AtPrompt
                      /\ \A j \in 1..Len(r) : j < i => ~Asks(r[j], n)
    BY DEF PromptsOK
  <2>1. i # 1
    BY <1>3, <1>8, PromptAsks
  <2>2. i - 1 \in 1..Len(s) /\ r[i] = s[i - 1]
    BY <1>5, <2>1
  <2>3. s[i - 1].own /\ phase \in AtPrompt /\ \A j \in 1..Len(s) : j < i - 1 => ~Asks(s[j], n)
    BY <1>8, <2>2 DEF PromptsOK
  <2>4. ASSUME NEW j \in 1..Len(r), j < i PROVE ~Asks(r[j], n)
    <3>1. CASE j = 1
      BY <1>3, <1>8, <3>1
    <3>2. CASE j # 1
      <4>1. j - 1 \in 1..Len(s) /\ r[j] = s[j - 1] /\ j - 1 < i - 1
        BY <1>2, <1>5, <2>4, <3>2
      <4> QED BY <2>3, <4>1
    <3> QED BY <3>1, <3>2
  <2> QED BY <2>2, <2>3, <2>4
<1>9. ASSUME NEW n, NEW phase, NoPrompt(s, n), OfPrompt(f, n) => f.own /\ phase \in AtPrompt
      PROVE  PromptsOK(r, n, phase)
  <2> SUFFICES ASSUME NEW i \in 1..Len(r), OfPrompt(r[i], n)
               PROVE  /\ r[i].own /\ phase \in AtPrompt
                      /\ \A j \in 1..Len(r) : j < i => ~Asks(r[j], n)
    BY DEF PromptsOK
  <2>1. i = 1
    BY <1>5, <1>9 DEF NoPrompt
  <2>2. \A j \in 1..Len(r) : ~(j < i)
    BY <1>2, <2>1
  <2> QED BY <1>3, <1>9, <2>1, <2>2
<1>10. ASSUME NEW n, ~Asks(f, n) PROVE Like(s, r, n)
  BY <1>6, <1>7, <1>8, <1>10 DEF Like, Asks, AskingKinds
<1>11. ASSUME NEW n, f.kind = "failed", OwnLogin(r, n) PROVE OwnLogin(s, n)
  BY <1>7, <1>11 DEF LoginKinds
<1> QED BY <1>6, <1>9, <1>10, <1>11 DEF r

LEMMA OwnPush ==
  ASSUME NEW s \in Seq(Frames), NEW f \in Frames, ~f.own, NEW n, OwnLogin(<<f>> \o s, n)
  PROVE  OwnLogin(s, n)
<1> DEFINE r == <<f>> \o s
<1>1. <<f>> \in Seq(Frames) /\ Len(<<f>>) = 1 /\ <<f>>[1] = f
  OBVIOUS
<1>2. /\ r \in Seq(Frames) /\ Len(s) \in Nat /\ Len(r) = Len(s) + 1
      /\ \A i \in 1..Len(r) : r[i] = IF i = 1 THEN f ELSE s[i - 1]
  BY <1>1, ConcatProperties, LenProperties
<1>3. PICK i \in 1..Len(r) : r[i].kind \in LoginKinds /\ r[i].term = n /\ r[i].own
  BY DEF OwnLogin
<1> HIDE DEF r
<1>4. i - 1 \in 1..Len(s) /\ r[i] = s[i - 1]
  BY <1>2, <1>3
<1> QED BY <1>3, <1>4 DEF OwnLogin

\* A handler returns.
LEMMA LoginPop ==
  ASSUME NEW s \in Seq(Frames), s # <<>>
  PROVE  /\ \A n : Head(s) # FailedFrame(n) => Like(s, Tail(s), n)
         /\ \A n, phase : PromptsOK(s, n, phase) =>
              /\ PromptsOK(Tail(s), n, phase)
              /\ Asks(Head(s), n) => NoPrompt(Tail(s), n)
              /\ OfPrompt(Head(s), n) => Head(s).own /\ phase \in AtPrompt
         /\ \A n : OwnLogin(Tail(s), n) => OwnLogin(s, n)
         /\ \A n : Head(s).kind \in LoginKinds /\ Head(s).term = n /\ Head(s).own => OwnLogin(s, n)
<1> DEFINE r == Tail(s)
           f == Head(s)
<1>1. Len(s) \in Nat /\ Len(s) # 0
  BY EmptySeq
<1>2. /\ f = s[1] /\ r \in Seq(Frames) /\ Len(r) = Len(s) - 1
      /\ \A i \in 1..Len(r) : r[i] = s[i + 1]
  BY <1>1, HeadTailProperties
<1> HIDE DEF r, f
<1>3. 1 \in 1..Len(s)
  BY <1>1
<1>4. \A i \in 1..Len(r) : i + 1 \in 1..Len(s) /\ r[i] = s[i + 1] /\ 1 < i + 1
  BY <1>1, <1>2
<1>5. \A i \in 1..Len(s) : i # 1 => i - 1 \in 1..Len(r) /\ r[i - 1] = s[i]
  BY <1>1, <1>2
<1>6. ASSUME NEW n, NEW phase, PromptsOK(s, n, phase)
      PROVE  /\ PromptsOK(r, n, phase)
             /\ Asks(f, n) => NoPrompt(r, n)
             /\ OfPrompt(f, n) => f.own /\ phase \in AtPrompt
  <2>1. ASSUME NEW i \in 1..Len(r), OfPrompt(r[i], n)
        PROVE  /\ r[i].own /\ phase \in AtPrompt /\ ~Asks(f, n)
               /\ \A j \in 1..Len(r) : j < i => ~Asks(r[j], n)
    <3>1. i + 1 \in 1..Len(s) /\ r[i] = s[i + 1] /\ 1 < i + 1
      BY <1>4
    <3>2. /\ s[i + 1].own /\ phase \in AtPrompt
          /\ \A j \in 1..Len(s) : j < i + 1 => ~Asks(s[j], n)
      BY <1>6, <2>1, <3>1 DEF PromptsOK
    <3>3. ASSUME NEW j \in 1..Len(r), j < i PROVE ~Asks(r[j], n)
      <4>1. j + 1 \in 1..Len(s) /\ r[j] = s[j + 1] /\ j + 1 < i + 1
        BY <1>2, <1>4, <3>3
      <4> QED BY <3>2, <4>1
    <3> QED BY <1>2, <1>3, <3>1, <3>2, <3>3
  <2>2. PromptsOK(r, n, phase) /\ (Asks(f, n) => NoPrompt(r, n))
    BY <2>1 DEF PromptsOK, NoPrompt
  <2>3. OfPrompt(f, n) => f.own /\ phase \in AtPrompt
    BY <1>2, <1>3, <1>6 DEF PromptsOK
  <2> QED BY <2>2, <2>3
<1>7. ASSUME NEW n, OwnLogin(r, n) PROVE OwnLogin(s, n)
  BY <1>4, <1>7 DEF OwnLogin
<1>8. ASSUME NEW n, NEW c, CountOK(s, n, c), f # FailedFrame(n) PROVE CountOK(r, n, c)
  BY <1>2, <1>5, <1>8 DEF CountOK
<1>9. ASSUME NEW n, f.kind \in LoginKinds, f.term = n, f.own PROVE OwnLogin(s, n)
  BY <1>2, <1>3, <1>9 DEF OwnLogin
<1>10. ASSUME NEW n, f # FailedFrame(n) PROVE Like(s, r, n)
  BY <1>6, <1>7, <1>8, <1>10 DEF Like
<1> QED BY <1>6, <1>7, <1>9, <1>10 DEF r, f

\* A connection takes the terminal's private data from the handlers that ask.
LEMMA LoginDisown ==
  ASSUME NEW s \in Seq(Frames), NEW t
  PROVE  /\ Disown(t, s) \in Seq(Frames)
         /\ \A n : n # t => Like(s, Disown(t, s), n)
         /\ NoPrompt(s, t) => NoPrompt(Disown(t, s), t)
         /\ ~OwnLogin(Disown(t, s), t)
<1> DEFINE r == Disown(t, s)
<1>1. /\ r \in Seq(Frames) /\ Len(r) = Len(s)
      /\ \A i \in 1..Len(s) :
           /\ SameHandler(r[i], s[i])
           /\ ~Asks(s[i], t) => r[i] = s[i]
           /\ Asks(s[i], t) => r[i].own = FALSE
  BY DisownFrames
<1> HIDE DEF r
<1>2. \A i \in 1..Len(s) : \A n : OfPrompt(r[i], n) <=> OfPrompt(s[i], n)
  BY <1>1 DEF SameHandler, OfPrompt, LoginKinds, Loops
<1>3. \A i \in 1..Len(s) : \A n : Asks(r[i], n) <=> Asks(s[i], n)
  BY <1>1 DEF SameHandler, Asks, AskingKinds, LoginKinds, Loops
<1>4. \A i \in 1..Len(s) : \A n : n # t /\ Asks(s[i], n) => r[i] = s[i]
  BY <1>1 DEF Asks
<1>5. ASSUME NEW n, n # t PROVE Like(s, r, n)
  <2>1. ASSUME NEW phase, PromptsOK(s, n, phase) PROVE PromptsOK(r, n, phase)
    BY <1>1, <1>2, <1>3, <1>4, <1>5, <2>1, PromptAsks DEF PromptsOK
  <2>2. ASSUME NEW c, CountOK(s, n, c) PROVE CountOK(r, n, c)
    <3>1. Asks(FailedFrame(n), n)
      BY DEF FailedFrame, Asks, AskingKinds
    <3> QED BY <1>1, <1>4, <1>5, <2>2, <3>1 DEF CountOK
  <2>3. ASSUME OwnLogin(r, n) PROVE OwnLogin(s, n)
    <3>1. PICK i \in 1..Len(s) : r[i].kind \in LoginKinds /\ r[i].term = n /\ r[i].own
      BY <1>1, <2>3 DEF OwnLogin
    <3>2. Asks(r[i], n)
      BY <3>1 DEF Asks, AskingKinds
    <3> QED BY <1>3, <1>4, <1>5, <3>1, <3>2 DEF OwnLogin
  <2> QED BY <2>1, <2>2, <2>3 DEF Like
<1>6. ASSUME NoPrompt(s, t) PROVE NoPrompt(r, t)
  BY <1>1, <1>2, <1>6 DEF NoPrompt
<1>7. ~OwnLogin(r, t)
  <2>1. \A i \in 1..Len(s) : Asks(r[i], t) => r[i].own = FALSE
    BY <1>1, <1>3
  <2> QED BY <1>1, <2>1 DEF OwnLogin, Asks, AskingKinds
<1> QED BY <1>1, <1>5, <1>6, <1>7 DEF r

-----------------------------------------------------------------------------
\* A step leaves a terminal's login alone.
SameLogin(n) == child'[n] = child[n] /\ again'[n] = again[n] /\ changed'[n] = changed[n]

LEMMA OtherLogin ==
  ASSUME NEW n, LoginOK(stack, n), Like(stack, stack', n), SameLogin(n),
         UNCHANGED <<tabs, user, username>>
  PROVE  LoginOK(stack, n)'
<1>1. PromptsOK(stack', n, child'[n]) /\ CountOK(stack', n, again'[n])
  BY DEF LoginOK, Like, SameLogin
<1>2. OwnLogin(stack', n) => changed'[n] \/ Shared(n)' \/ username'[user'[n]] = NoName
  BY DEF LoginOK, Like, SameLogin, Shared
<1> QED BY <1>1, <1>2 DEF LoginOK

\* While no handler asks, the tabs, the records and the processes may change.
Silent(s) == \A i \in 1..Len(s) : s[i].kind \notin AskingKinds

LEMMA SilentLogin ==
  ASSUME LoginInv, Silent(stack), Silent(stack'),
         \A n \in Terminals : again'[n] \in {again[n], 0}
  PROVE  LoginInv'
<1> SUFFICES ASSUME NEW n \in Terminals PROVE LoginOK(stack, n)'
  BY DEF LoginInv
<1>1. LoginOK(stack, n)
  BY DEF LoginInv
<1>2. FailedFrame(n).kind \in AskingKinds
  BY DEF FailedFrame, AskingKinds
<1>3. ~(again'[n] >= 3)
  BY <1>1, <1>2 DEF LoginOK, CountOK, Silent
<1>4. PromptsOK(stack', n, child'[n]) /\ ~OwnLogin(stack', n)
  BY DEF PromptsOK, OwnLogin, OfPrompt, Silent, AskingKinds
<1>5. CountOK(stack', n, again'[n])
  BY <1>3 DEF CountOK
<1> QED BY <1>4, <1>5 DEF LoginOK

LEMMA SilentPush ==
  ASSUME NEW f, f.kind \notin AskingKinds
  PROVE  Silent(<<>>) /\ Silent(<<f>>) /\ Silent(<<f>> \o <<>>)
<1>1. <<f>> \o <<>> = <<f>> /\ Len(<<f>>) = 1 /\ <<f>>[1] = f
  OBVIOUS
<1> QED BY <1>1 DEF Silent

\* lcrt_ssh_connect starts the count of denials over.
LEMMA ConnectLogin ==
  ASSUME TypeOK, NEW t \in Terminals, NEW u, NEW found \in BOOLEAN, NEW oldPid, NEW oldChild,
         Connect(t, u, found, oldPid, oldChild)
  PROVE  /\ again'[t] = 0 /\ child'[t] \in {"talk", oldChild}
         /\ \A n \in Terminals \ {t} : SameLogin(n)
BY DEF Connect, TypeOK, SshType, ProcType, SameLogin

LEMMA ConnectSilent ==
  ASSUME NEW t, NEW found, NEW rest, rest = <<>> \/ \E f : rest = <<f>> /\ f.kind \notin AskingKinds,
         AfterConnect(t, found, rest)
  PROVE  Silent(stack')
<1>1. Frame("notice", t).kind \notin AskingKinds
  BY DEF Frame, AskingKinds, LoginKinds
<1>2. Silent(rest)
  BY SilentPush, <1>1
<1>3. CASE rest = <<>>
  BY <1>1, <1>3, <1>2, SilentPush DEF AfterConnect
<1>4. ASSUME NEW f, rest = <<f>>, f.kind \notin AskingKinds PROVE Silent(stack')
  <2>1. CASE stack' = rest
    BY <1>2, <2>1
  <2>2. CASE stack' = <<Frame("notice", t)>> \o rest
    <3> DEFINE g == Frame("notice", t)
               pair == <<g>> \o <<f>>
    <3>1. /\ <<g>> \in Seq({g, f}) /\ <<f>> \in Seq({g, f})
          /\ Len(<<g>>) = 1 /\ <<g>>[1] = g /\ Len(<<f>>) = 1 /\ <<f>>[1] = f
      OBVIOUS
    <3>2. Len(pair) = 2 /\ \A i \in 1..2 : pair[i] \in {g, f}
      BY <3>1, ConcatProperties
    <3>3. stack' = pair /\ g.kind \notin AskingKinds
      BY <1>1, <1>4, <2>2
    <3> HIDE DEF pair, g
    <3> QED BY <1>4, <3>2, <3>3 DEF Silent
  <2> QED BY <2>1, <2>2 DEF AfterConnect
<1> QED BY <1>3, <1>4

\* The menu, the toolbar, the tabs and the keys.
LEMMA UserStepLogin == IInv /\ UserStep => LoginInv'
<1> SUFFICES ASSUME IInv, UserStep PROVE LoginInv'
  OBVIOUS
<1>0. /\ tabs \in SUBSET Terminals /\ current \in tabs \cup {NoTerminal}
      /\ again \in [Terminals -> Nat] /\ TypeOK /\ LoginInv
  BY DEF IInv, TypeOK, TabType, SshType
<1>1. Idle /\ Silent(stack)
  BY SilentPush DEF UserStep, OpenSession, Clone, Close, SelectTab, PressReturn, Reconnect,
     ReconnectAll, DisconnectCurrent, DisconnectAll, Idle, Silent
<1>2. ASSUME stack' = stack \/ \E f : f.kind \notin AskingKinds /\ Push(f),
             \A n \in Terminals : again'[n] \in {again[n], 0}
      PROVE  LoginInv'
  BY <1>0, <1>1, <1>2, SilentPush, SilentLogin DEF Push, Idle
<1>3. \A t : Frame("new_page", t).kind \notin AskingKinds /\ Frame("confirm_close", t).kind \notin AskingKinds
  BY DEF Frame, AskingKinds, LoginKinds
<1>4. ASSUME NEW t \in Terminals, NEW u, NewTerminal(t, u) PROVE LoginInv'
  <2>1. \E found : Connect(t, u, found, FALSE, "none")
    BY <1>4 DEF NewTerminal
  <2>2. \A n \in Terminals : again'[n] \in {again[n], 0}
    BY <1>0, <2>1 DEF Connect
  <2> QED BY <1>2, <1>3, <1>4, <2>2 DEF NewTerminal
<1>5. ASSUME NEW t \in Terminals, Close(t) PROVE LoginInv'
  <2>1. CASE Destroy(t) /\ UNCHANGED stack
    BY <1>0, <1>2, <2>1 DEF Destroy
  <2>2. CASE Push(Frame("confirm_close", t)) /\ UNCHANGED sshVars
    BY <1>2, <1>3, <2>2 DEF sshVars
  <2> QED BY <1>5, <2>1, <2>2 DEF Close
<1>6. ASSUME NEW t \in Terminals, SelectTab(t), UNCHANGED <<recVars, sshVars, procVars, app>>
      PROVE  LoginInv'
  BY <1>2, <1>6 DEF SelectTab, sshVars
<1>7. CASE PressReturn \/ Reconnect
  <2>1. \E found \in FoundChoices : Connect(current, user[current], found, pid[current], child[current])
                 /\ AfterConnect(current, found, stack)
    BY <1>7 DEF PressReturn, Reconnect
  <2>2. \A n \in Terminals : again'[n] \in {again[n], 0}
    BY <1>0, <2>1 DEF Connect
  <2>3. Silent(stack')
    BY <1>1, <2>1, ConnectSilent DEF Idle
  <2> QED BY <1>0, <1>1, <2>2, <2>3, SilentLogin
<1>8. CASE ReconnectAll
  <2> DEFINE f == [kind |-> "reconnect_all", todo |-> tabs]
  <2>1. f.kind \notin AskingKinds
    BY DEF AskingKinds, LoginKinds
  <2> QED BY <1>2, <1>8, <2>1 DEF ReconnectAll, sshVars
<1>9. CASE DisconnectCurrent
  BY <1>0, <1>2, <1>9 DEF DisconnectCurrent, Disconnect
<1>10. CASE DisconnectAll
  BY <1>0, <1>2, <1>10 DEF DisconnectAll
<1> QED BY <1>4, <1>5, <1>6, <1>7, <1>8, <1>9, <1>10, <1>0 DEF UserStep, OpenSession, Clone

-----------------------------------------------------------------------------
(* lcrt_ssh_receive.                                                       *)
(***************************************************************************)
\* A handler of terminal t runs above the handlers in rest.
Ready(t, rest) ==
  /\ rest \in Seq(Frames)
  /\ \A n \in Terminals \ {t} : Like(stack, rest, n)
  /\ CountOK(rest, t, again[t])
  /\ OwnLogin(rest, t) => changed[t] \/ Shared(t) \/ username[user[t]] = NoName

\* What it leaves: t's login in order, the other terminals' untouched.
Done(t) ==
  /\ LoginOK(stack, t)'
  /\ \A n \in Terminals \ {t} : Like(stack, stack', n) /\ SameLogin(n)

LEMMA DoneLogin ==
  ASSUME LoginInv, UNCHANGED <<tabs, user, username>>, NEW t \in Terminals, Done(t)
  PROVE  LoginInv'
BY OtherLogin DEF LoginInv, Done

\* The handler returns without asking.
LEMMA ReturnsLogin ==
  ASSUME NEW t \in Terminals, NEW rest, Ready(t, rest), stack' = rest,
         PromptsOK(rest, t, child'[t]), again' = again, changed' = changed,
         UNCHANGED <<tabs, user, username>>, \A n \in Terminals \ {t} : child'[n] = child[n]
  PROVE  Done(t)
<1>1. LoginOK(stack, t)'
  <2>1. PromptsOK(stack', t, child'[t]) /\ CountOK(stack', t, again'[t])
    BY DEF Ready
  <2>2. OwnLogin(stack', t) => changed'[t] \/ Shared(t)' \/ username'[user'[t]] = NoName
    BY DEF Ready, Shared
  <2> QED BY <2>1, <2>2 DEF LoginOK
<1> QED BY <1>1 DEF Done, Ready, SameLogin

LEMMA SubmitPasswordLogin ==
  ASSUME TypeOK, NEW t \in Terminals, NEW phase, NEW rest, Ready(t, rest), NoPrompt(rest, t),
         SubmitPassword(t, phase, rest), UNCHANGED <<tabs, user, username>>
  PROVE  Done(t)
<1>1. /\ stack' = rest /\ again' = again /\ changed' = changed
      /\ \A n \in Terminals \ {t} : child'[n] = child[n]
  BY DEF SubmitPassword, sshVars, TypeOK, ProcType
<1> QED BY <1>1, NoPromptOK, ReturnsLogin

LEMMA RestartLogin ==
  ASSUME TypeOK, NEW t \in Terminals, NEW rest, Ready(t, rest), NoPrompt(rest, t),
         Restart(t, rest), UNCHANGED <<tabs, user, username>>
  PROVE  Done(t)
<1>1. CASE stack' = rest /\ UNCHANGED <<sshVars, procVars>>
  BY <1>1, NoPromptOK, ReturnsLogin DEF sshVars, procVars
<1>2. ASSUME NEW found \in FoundChoices,
             Connect(t, user[t], found, FALSE, Killed(child[t])),
             AfterConnect(t, found, Disown(t, rest))
      PROVE  Done(t)
  <2> DEFINE mine == Disown(t, rest)
             f == Frame("notice", t)
  <2>1. found \in BOOLEAN
    BY SshAssumption
  <2>2. again'[t] = 0 /\ \A n \in Terminals \ {t} : SameLogin(n)
    BY <1>2, <2>1, ConnectLogin
  <2>3. /\ mine \in Seq(Frames) /\ NoPrompt(mine, t) /\ ~OwnLogin(mine, t)
        /\ \A n \in Terminals \ {t} : Like(stack, mine, n)
    BY LoginDisown, LikeItself DEF Ready
  <2>4. f \in Frames /\ \A n : ~Asks(f, n)
    BY DEF Frame, Frames, Asks, AskingKinds, LoginKinds
  <2>5. stack' \in {mine, <<f>> \o mine}
    BY <1>2 DEF AfterConnect
  <2> HIDE DEF mine, f
  <2>6. \A n : Like(mine, stack', n)
    BY <2>3, <2>4, <2>5, LoginPush, LikeItself
  <2>7. \A n \in Terminals \ {t} : Like(stack, stack', n)
    BY <2>3, <2>6, LikeItself
  <2>8. PromptsOK(stack', t, child'[t]) /\ ~OwnLogin(stack', t)
    BY <2>3, <2>6, NoPromptOK DEF Like
  <2>9. CountOK(stack', t, again'[t])
    BY <2>2 DEF CountOK
  <2> QED BY <2>2, <2>7, <2>8, <2>9 DEF Done, LoginOK
<1> QED BY <1>1, <1>2 DEF Restart

\* A login dialog has its terminal's connection to itself if it has read a prompt; and
\* its entry is untouched only if the record has no name to put there.
LEMMA OpenLoginLogin ==
  ASSUME TypeOK, NEW t \in Terminals, NEW at \in {"denied", "prompt"}, NEW text \in Texts,
         NEW own \in BOOLEAN, NEW rest, Ready(t, rest), NoPrompt(rest, t),
         OpenLogin(t, at, text, own, rest), CountOK(rest, t, again'[t]),
         text \in {"prompt", "denied_prompt"} => own /\ child'[t] \in AtPrompt,
         UNCHANGED <<tabs, user, username>>,
         \A n \in Terminals \ {t} : child'[n] = child[n] /\ again'[n] = again[n]
  PROVE  Done(t)
<1> DEFINE f == LoginFrame(t, at, text, own)
<1>1. /\ f \in Frames /\ \A n \in Terminals \ {t} : ~Asks(f, n)
      /\ OfPrompt(f, t) => f.own /\ child'[t] \in AtPrompt
  BY DEF LoginFrame, Frames, Asks, AskingKinds, LoginKinds, OfPrompt
<1>2. stack' = <<f>> \o rest
  BY DEF OpenLogin
<1> HIDE DEF f
<1>3. PromptsOK(stack', t, child'[t]) /\ CountOK(stack', t, again'[t])
  BY <1>1, <1>2, LoginPush DEF Ready
<1>4. changed' = [changed EXCEPT ![t] = @ \/ username[user[t]] # NoName]
  BY DEF OpenLogin, NoteTyping
<1>5. changed'[t] \/ username'[user'[t]] = NoName
  BY <1>4 DEF TypeOK, SshType
<1>6. \A n \in Terminals \ {t} : changed'[n] = changed[n]
  BY <1>4 DEF TypeOK, SshType
<1>7. \A n \in Terminals \ {t} : Like(stack, stack', n)
  BY <1>1, <1>2, LoginPush, LikeItself DEF Ready
<1> QED BY <1>3, <1>5, <1>6, <1>7 DEF Done, LoginOK, SameLogin

\* lcrt_ssh_receive below its "Permission denied" block.
LEMMA AfterDeniedLogin ==
  ASSUME TypeOK, NEW t \in Terminals, NEW text \in Texts, NEW phase \in Phases,
         NEW own \in BOOLEAN, NEW rest, Ready(t, rest),
         \/ NoPrompt(rest, t)
         \/ text = "other" /\ phase = "dead" /\ PromptsOK(rest, t, phase),
         PromptMatches(t, text) => own /\ phase \in AtPrompt,
         AfterDenied(t, text, phase, own, rest), UNCHANGED <<tabVars, recVars>>
  PROVE  Done(t)
<1>0. UNCHANGED <<tabs, user, username>>
  BY DEF tabVars, recVars
<1>1. ASSUME OpenLogin(t, "prompt", text, own, rest), PromptMatches(t, text),
             child' = [child EXCEPT ![t] = phase],
             UNCHANGED <<linkVars, keyVars, saveVars, private, again, pid, loginName, app>>
      PROVE  Done(t)
  <2>1. /\ child'[t] = phase /\ again' = again
        /\ \A n \in Terminals \ {t} : child'[n] = child[n]
    BY <1>1 DEF TypeOK, ProcType
  <2>2. NoPrompt(rest, t) /\ CountOK(rest, t, again'[t])
    BY <1>1, <2>1 DEF PromptMatches, Ready
  <2> QED BY <1>0, <1>1, <2>1, <2>2, OpenLoginLogin
<1>2. PromptMatches(t, text) => NoPrompt(rest, t)
  BY DEF PromptMatches
<1>3. CASE PromptMatches(t, text) /\ Restart(t, rest)
  BY <1>0, <1>2, <1>3, RestartLogin
<1>4. CASE PromptMatches(t, text) /\ SubmitPassword(t, phase, rest)
  BY <1>0, <1>2, <1>4, SubmitPasswordLogin
<1>5. ASSUME NEW p, child' = [child EXCEPT ![t] = p], NoPrompt(rest, t) \/ PromptsOK(rest, t, p),
             stack' = rest, UNCHANGED sshVars
      PROVE  Done(t)
  <2>1. /\ child'[t] = p /\ again' = again /\ changed' = changed
        /\ \A n \in Terminals \ {t} : child'[n] = child[n]
    BY <1>5 DEF sshVars, TypeOK, ProcType
  <2> QED BY <1>0, <1>5, <2>1, NoPromptOK, ReturnsLogin
<1>6. NoPrompt(rest, t) \/ PromptsOK(rest, t, Commands(t, phase))
  BY DEF Commands, Fed
<1> QED BY <1>1, <1>3, <1>4, <1>5, <1>6 DEF AfterDenied

\* What a process prints that waits at a prompt, or prints a prompt.
LEMMA PrintedByProcess ==
  ASSUME NEW o \in Output
  PROVE  /\ o[1] \in AtPrompt => o[2] = "other" /\ o[3] = "dead"
         /\ o[2] \in {"prompt", "denied_prompt"} => o[3] \in AtPrompt
         /\ o[3] \notin {"none", "auth"}
BY DEF Output, AtPrompt

LEMMA ReceiveLogin ==
  ASSUME IInv, NEW t \in tabs, NEW o \in Output, o[1] = child[t],
         ReceiveText(t, o[2], o[3]), UNCHANGED <<tabVars, recVars>>
  PROVE  Done(t)
<1>0. /\ TypeOK /\ t \in Terminals /\ stack \in Seq(Frames) /\ LoginOK(stack, t)
      /\ UNCHANGED <<tabs, user, username>>
  BY DEF IInv, TypeOK, TabType, LoginInv, tabVars, recVars
<1> DEFINE text == o[2]
           phase == o[3]
<1>1. text \in Texts /\ phase \in Phases
  BY PhaseIn
<1>2. text \in {"prompt", "denied_prompt"} => phase \in AtPrompt
  BY PrintedByProcess
<1>3. Ready(t, stack)
  BY <1>0, LikeItself DEF Ready, LoginOK
<1>4. \/ NoPrompt(stack, t)
      \/ text = "other" /\ phase = "dead" /\ PromptsOK(stack, t, phase)
  <2>1. CASE child[t] \in AtPrompt
    <3>1. text = "other" /\ phase = "dead" /\ phase \in AtPrompt
      BY <2>1, PrintedByProcess DEF AtPrompt
    <3> QED BY <1>0, <3>1, PromptPhase DEF LoginOK
  <2>2. CASE child[t] \notin AtPrompt
    BY <1>0, <2>2, PromptPhase DEF LoginOK
  <2> QED BY <2>1, <2>2
<1> HIDE DEF text, phase
<1>5. ASSUME text \in {"timed_out", "refused"}, child' = [child EXCEPT ![t] = phase],
             Push(Frame("notice", t)), UNCHANGED sshVars
      PROVE  Done(t)
  <2> DEFINE f == Frame("notice", t)
  <2>1. f \in Frames /\ \A n : ~Asks(f, n)
    BY <1>0 DEF Frame, Frames, Asks, AskingKinds, LoginKinds
  <2>2. stack' = <<f>> \o stack /\ again' = again /\ changed' = changed
    BY <1>5 DEF Push, sshVars
  <2> HIDE DEF f
  <2>3. \A n : Like(stack, stack', n)
    BY <1>0, <2>1, <2>2, LoginPush
  <2>4. NoPrompt(stack, t)
    BY <1>4, <1>5
  <2>5. PromptsOK(stack', t, child'[t]) /\ CountOK(stack', t, again'[t])
    BY <1>0, <2>2, <2>3, <2>4, NoPromptOK DEF Like, LoginOK
  <2>6. OwnLogin(stack', t) => changed'[t] \/ Shared(t)' \/ username'[user'[t]] = NoName
    BY <1>0, <2>2, <2>3 DEF Like, LoginOK, Shared
  <2>7. \A n \in Terminals \ {t} : SameLogin(n)
    BY <1>0, <1>5, <2>2 DEF SameLogin, TypeOK, ProcType
  <2> QED BY <2>3, <2>5, <2>6, <2>7 DEF Done, LoginOK
<1>6. ASSUME Denied(t, text, phase), text \in {"denied", "denied_prompt"} PROVE Done(t)
  <2>1. /\ again' = [again EXCEPT ![t] = @ + 1]
        /\ child' = [child EXCEPT ![t] = phase]
    BY <1>6 DEF Denied
  <2>2. NoPrompt(stack, t)
    BY <1>4, <1>6
  <2>3. /\ again[t] \in Nat /\ again'[t] = again[t] + 1 /\ child'[t] = phase
        /\ \A n \in Terminals \ {t} : child'[n] = child[n] /\ again'[n] = again[n]
    BY <1>0, <2>1 DEF TypeOK, SshType, ProcType
  <2>4. CASE again[t] + 1 >= 3
    <3> DEFINE f == FailedFrame(t)
    <3>1. /\ f \in Frames /\ f.kind = "failed" /\ ~OfPrompt(f, t)
          /\ \A n \in Terminals \ {t} : ~Asks(f, n)
      BY <1>0 DEF FailedFrame, Frames, Asks, OfPrompt, LoginKinds
    <3>2. stack' = <<f>> \o stack /\ changed' = changed
      BY <1>6, <2>4 DEF Denied, Push
    <3>3. CountOK(<<f>> \o stack, t, again'[t])
      BY <1>0, <3>1, LoginPush
    <3> HIDE DEF f
    <3>4. \A n \in Terminals \ {t} : Like(stack, stack', n)
      BY <1>0, <3>1, <3>2, LoginPush
    <3>5. PromptsOK(stack', t, child'[t])
      BY <1>0, <2>2, <3>1, <3>2, LoginPush
    <3>6. OwnLogin(stack', t) => changed'[t] \/ Shared(t)' \/ username'[user'[t]] = NoName
      BY <1>0, <3>1, <3>2, LoginPush DEF LoginOK, Shared
    <3>7. \A n \in Terminals \ {t} : SameLogin(n)
      BY <2>3, <3>2 DEF SameLogin
    <3> QED BY <3>2, <3>3, <3>4, <3>5, <3>6, <3>7 DEF Done, LoginOK
  <2>5. CASE ~(again[t] + 1 >= 3)
    <3>1. OpenLogin(t, "denied", text, TRUE, stack)
      BY <1>6, <2>5 DEF Denied
    <3>2. CountOK(stack, t, again'[t])
      BY <2>3, <2>5 DEF CountOK
    <3>3. text \in {"prompt", "denied_prompt"} => child'[t] \in AtPrompt
      BY <1>2, <2>3 DEF text, phase
    <3>4. text \in Texts
      BY <1>1 DEF text
    <3> QED BY <1>0, <1>3, <2>2, <2>3, <3>1, <3>2, <3>3, <3>4, OpenLoginLogin
  <2> QED BY <2>4, <2>5
<1>7. CASE AfterDenied(t, text, phase, TRUE, stack)
  <2>1. text \in Texts /\ phase \in Phases
    BY <1>1 DEF text, phase
  <2>2. PromptMatches(t, text) => phase \in AtPrompt
    BY <1>2 DEF PromptMatches, text, phase
  <2> QED BY <1>0, <1>3, <1>4, <1>7, <2>1, <2>2, AfterDeniedLogin
<1> QED BY <1>5, <1>6, <1>7 DEF ReceiveText, text, phase

-----------------------------------------------------------------------------
(* The dialogs, the handlers that run on, and the child.                   *)
(***************************************************************************)
\* Only a terminal in the notebook is asked for.
LEMMA AskedIsOpen ==
  ASSUME StackOK(stack, tabs), NEW t, OwnLogin(stack, t)
  PROVE  t \in tabs
<1>1. PICK i \in 1..Len(stack) : stack[i].kind \in LoginKinds /\ stack[i].term = t
  BY DEF OwnLogin
<1>2. FrameTerminals(stack[i]) = {t}
  BY <1>1 DEF FrameTerminals, Loops, LoginKinds
<1> QED BY <1>1, <1>2 DEF StackOK, FrameOK

\* The login is answered: its own terminal notes what was typed, and other tabs of
\* the record may find the login renamed.
LEMMA AnswerLoginLogin ==
  ASSUME IInv, NEW ok, NEW typed \in BOOLEAN, NEW secret, NEW name, NEW keep,
         AnswerLogin(ok, typed, name, secret, keep)
  PROVE  LoginInv'
<1> DEFINE f == Head(stack)
           g == [f EXCEPT !.kind = "resume"]
           rest == Tail(stack)
<1>0. TypeOK /\ stack \in Seq(Frames) /\ LoginInv
  BY DEF IInv, TypeOK
<1>1. /\ stack # <<>> /\ f.kind = "login"
      /\ f \in Frames /\ FrameOK(f, tabs) /\ rest \in Seq(Frames)
  BY <1>0, StackPop DEF AnswerLogin, Top, IInv
<1>2. PICK t \in tabs : t = f.term /\ t \in Terminals /\ user[t] \in Users
  BY <1>0, <1>1 DEF FrameOK, FrameTerminals, Loops, Frames, LoginKinds, TypeOK, TabType
<1>3. /\ g \in Frames /\ \A n \in Terminals \ {t} : ~Asks(g, n)
      /\ OfPrompt(g, t) <=> OfPrompt(f, t)
      /\ g.own = f.own /\ \A n : f # FailedFrame(n)
  BY <1>1, <1>2 DEF Frames, AskingKinds, LoginKinds, Asks, OfPrompt, FailedFrame
<1>4. /\ stack' = <<g>> \o rest
      /\ typed \/ name = username[user[t]]
      /\ changed' = [changed EXCEPT ![t] = @ \/ typed]
      /\ username' = [username EXCEPT ![user[t]] = name] \/ username' = username
      /\ UNCHANGED <<tabs, user, again, child>>
  BY <1>2 DEF AnswerLogin, NoteTyping, tabVars, recVars, procVars
<1>5. f.kind \in LoginKinds /\ Asks(f, t)
  BY <1>1, <1>2 DEF LoginKinds, Asks, AskingKinds
<1> HIDE DEF f, g, rest
<1>6. LoginOK(stack, t)
  BY <1>0, <1>2 DEF LoginInv
<1>7. /\ \A n : Like(stack, rest, n) /\ NoPrompt(rest, t)
      /\ OfPrompt(f, t) => f.own /\ child[t] \in AtPrompt
      /\ OwnLogin(stack, t) \/ ~f.own
  BY <1>0, <1>1, <1>2, <1>3, <1>5, <1>6, LoginPop DEF f, rest, LoginOK
<1>8. \A n \in Terminals \ {t} : Like(stack, stack', n)
  BY <1>1, <1>3, <1>4, <1>7, LoginPush, LikeItself
<1>9. changed'[t] = (changed[t] \/ typed) /\ \A n \in Terminals \ {t} : changed'[n] = changed[n]
  BY <1>0, <1>2, <1>4 DEF TypeOK, SshType
<1>10. LoginOK(stack, t)'
  <2>1. PromptsOK(stack', t, child'[t]) /\ CountOK(stack', t, again'[t])
    BY <1>1, <1>3, <1>4, <1>6, <1>7, LoginPush DEF Like, LoginOK
  <2>2. ASSUME OwnLogin(stack', t) PROVE OwnLogin(stack, t)
    <3>1. CASE f.own
      BY <1>7, <3>1
    <3>2. CASE ~f.own
      <4>1. OwnLogin(rest, t)
        <5>1. ~g.own
          BY <1>3, <3>2
        <5> QED BY <1>1, <1>3, <1>4, <2>2, <5>1, OwnPush
      <4> QED BY <1>7, <4>1 DEF Like
    <3> QED BY <3>1, <3>2
  <2>3. ~typed => username'[user[t]] = username[user[t]]
    BY <1>0, <1>2, <1>4 DEF TypeOK, RecType
  <2>4. Shared(t)' <=> Shared(t)
    BY <1>4 DEF Shared
  <2>5. OwnLogin(stack', t) => changed'[t] \/ Shared(t)' \/ username'[user'[t]] = NoName
    BY <1>4, <1>6, <1>9, <2>2, <2>3, <2>4 DEF LoginOK
  <2> QED BY <2>1, <2>5 DEF LoginOK
<1>11. ASSUME NEW n \in Terminals \ {t} PROVE LoginOK(stack, n)'
  <2>1. LoginOK(stack, n) /\ Like(stack, stack', n)
    BY <1>0, <1>8 DEF LoginInv
  <2>2. PromptsOK(stack', n, child'[n]) /\ CountOK(stack', n, again'[n])
    BY <1>4, <2>1 DEF Like, LoginOK
  <2>3. OwnLogin(stack, n) => user[n] \in Users
    BY <1>0, AskedIsOpen DEF IInv, TypeOK, TabType
  <2>4. /\ Shared(n)' <=> Shared(n)
        /\ ~Shared(n) => user[n] # user[t]
    BY <1>4 DEF Shared
  <2>5. OwnLogin(stack, n) /\ ~Shared(n) => username'[user[n]] = username[user[n]]
    BY <1>0, <1>2, <1>4, <2>3, <2>4 DEF TypeOK, RecType
  <2>6. OwnLogin(stack', n) => changed'[n] \/ Shared(n)' \/ username'[user'[n]] = NoName
    BY <1>4, <1>9, <2>1, <2>4, <2>5 DEF LoginOK, Like
  <2> QED BY <2>2, <2>6 DEF LoginOK
<1> QED BY <1>10, <1>11 DEF LoginInv

\* The handler resumes as the innermost one of its terminal.
LEMMA ResumeReady ==
  ASSUME IInv, Top("resume")
  PROVE  LET f == Head(stack) IN
           /\ f.term \in tabs /\ f.term \in Terminals /\ f.text \in Texts
           /\ f.at \in {"denied", "prompt"} /\ f.own \in BOOLEAN
           /\ f.at = "prompt" => OfPrompt(f, f.term)
           /\ OfPrompt(f, f.term) => f.own /\ child[f.term] \in AtPrompt
           /\ f.own => changed[f.term] \/ Shared(f.term) \/ username[user[f.term]] = NoName
           /\ Ready(f.term, Tail(stack)) /\ NoPrompt(Tail(stack), f.term)
<1> DEFINE f == Head(stack)
           rest == Tail(stack)
           t == f.term
<1>0. TypeOK /\ stack \in Seq(Frames) /\ LoginInv
  BY DEF IInv, TypeOK
<1>1. /\ stack # <<>> /\ f.kind = "resume"
      /\ f \in Frames /\ FrameOK(f, tabs) /\ rest \in Seq(Frames)
  BY <1>0, StackPop DEF Top, IInv
<1>2. /\ t \in tabs /\ t \in Terminals /\ f.text \in Texts
      /\ f.at \in {"denied", "prompt"} /\ f.own \in BOOLEAN
      /\ f.at = "prompt" => OfPrompt(f, t)
  BY <1>0, <1>1 DEF FrameOK, FrameTerminals, Loops, Frames, LoginKinds, TypeOK, TabType, OfPrompt
<1>3. f.kind \in LoginKinds /\ Asks(f, t) /\ \A n : f # FailedFrame(n)
  BY <1>1 DEF Asks, AskingKinds, LoginKinds, FailedFrame
<1> HIDE DEF f, rest, t
<1>4. LoginOK(stack, t)
  BY <1>0, <1>2 DEF LoginInv
<1>5. /\ \A n : Like(stack, rest, n) /\ NoPrompt(rest, t)
      /\ OfPrompt(f, t) => f.own /\ child[t] \in AtPrompt
      /\ f.own => OwnLogin(stack, t)
  BY <1>0, <1>1, <1>2, <1>3, <1>4, LoginPop DEF f, rest, t, LoginOK
<1>6. Ready(t, rest)
  BY <1>1, <1>4, <1>5 DEF Ready, LoginOK, Like
<1>7. f.own => changed[t] \/ Shared(t) \/ username[user[t]] = NoName
  BY <1>4, <1>5 DEF LoginOK
<1> QED BY <1>2, <1>5, <1>6, <1>7 DEF f, rest, t

LEMMA ResumeLogin == IInv /\ ResumeReceive => LoginInv'
<1> SUFFICES ASSUME IInv, ResumeReceive PROVE LoginInv'
  OBVIOUS
<1> DEFINE f == Head(stack)
           rest == Tail(stack)
           t == f.term
<1>0. /\ TypeOK /\ LoginInv /\ Top("resume") /\ UNCHANGED <<tabs, user, username>>
      /\ UNCHANGED <<tabVars, recVars>>
  BY DEF IInv, ResumeReceive, tabVars, recVars
<1>1. /\ t \in Terminals /\ f.text \in Texts /\ f.own \in BOOLEAN
      /\ OfPrompt(f, t) => f.own /\ child[t] \in AtPrompt
      /\ Ready(t, rest) /\ NoPrompt(rest, t)
  BY <1>0, ResumeReady
<1>2. \/ Restart(t, rest)
      \/ AfterDenied(t, f.text, child[t], f.own, rest)
      \/ SubmitPassword(t, child[t], rest)
  BY DEF ResumeReceive
<1>3. PromptMatches(t, f.text) => OfPrompt(f, t)
  BY <1>0 DEF PromptMatches, OfPrompt, Top, LoginKinds
<1> HIDE DEF f, rest, t
<1>4. child[t] \in Phases
  BY <1>0, <1>1 DEF TypeOK, ProcType
<1>5. Done(t)
  BY <1>0, <1>1, <1>2, <1>3, <1>4, RestartLogin, SubmitPasswordLogin, AfterDeniedLogin
<1> QED BY <1>0, <1>1, <1>5, DoneLogin

LEMMA ReconnectNextLogin == IInv /\ ReconnectNext => LoginInv'
<1> SUFFICES ASSUME IInv, ReconnectNext PROVE LoginInv'
  OBVIOUS
<1> DEFINE f == Head(stack)
           todoFrame(left) == [kind |-> "reconnect_all", todo |-> left]
           then(left) == IF left = {} THEN Tail(stack) ELSE <<todoFrame(left)>> \o Tail(stack)
<1>0. TypeOK /\ stack \in Seq(Frames) /\ LoginInv /\ again \in [Terminals -> Nat]
  BY DEF IInv, TypeOK, SshType
<1>1. stack # <<>> /\ f.kind = "reconnect_all" /\ Tail(stack) = <<>>
  BY <1>0, StackPop DEF ReconnectNext, Top, IInv, Outermost
<1>2. Silent(stack)
  <2>1. Len(stack) = 1 /\ stack[1] = f
    <3>1. Len(Tail(stack)) = Len(stack) - 1 /\ Len(stack) \in Nat /\ f = stack[1]
      BY <1>0, <1>1, HeadTailProperties, LenProperties
    <3>2. Len(Tail(stack)) = 0
      <4>1. Len(<<>>) = 0
        OBVIOUS
      <4> QED BY <1>1, <4>1
    <3> QED BY <3>1, <3>2
  <2> QED BY <1>1, <2>1 DEF Silent, AskingKinds, LoginKinds
<1>3. PICK t \in f.todo, found \in FoundChoices :
        /\ \E oldChild : Connect(t, user[t], found, pid[t], oldChild)
        /\ AfterConnect(t, found, then(f.todo \ {t}))
  BY DEF ReconnectNext
<1>4. \A n \in Terminals : again'[n] \in {again[n], 0}
  BY <1>0, <1>3 DEF Connect
<1>5. Silent(stack')
  <2> DEFINE g == todoFrame(f.todo \ {t})
  <2>1. g.kind \notin AskingKinds
    BY DEF AskingKinds, LoginKinds
  <2> HIDE DEF g
  <2>2. then(f.todo \ {t}) \in {<<>>, <<g>> \o <<>>}
    BY <1>1 DEF g
  <2>3. <<g>> \o <<>> = <<g>>
    OBVIOUS
  <2> HIDE DEF then
  <2> QED BY <1>3, <2>1, <2>2, <2>3, ConnectSilent
<1> QED BY <1>0, <1>2, <1>4, <1>5, SilentLogin

LEMMA DialogStepLogin == IInv /\ DialogStep => LoginInv'
<1> SUFFICES ASSUME IInv, DialogStep PROVE LoginInv'
  OBVIOUS
<1> DEFINE f == Head(stack)
<1>0. TypeOK /\ stack \in Seq(Frames) /\ LoginInv
  BY DEF IInv, TypeOK
<1>1. stack # <<>> =>
        /\ f \in Frames /\ FrameOK(f, tabs)
        /\ f.kind \in Outermost => Tail(stack) = <<>>
  BY <1>0, StackPop DEF IInv
\* A message, or a question that was no login, is answered.
<1>2. ASSUME stack # <<>>, \A n : f # FailedFrame(n), stack' = Tail(stack),
             UNCHANGED <<tabs, user, username, again, changed, child>>
      PROVE  LoginInv'
  <2>1. \A n : Like(stack, stack', n)
    BY <1>0, <1>2, LoginPop
  <2> QED BY <1>0, <1>2, <2>1, OtherLogin DEF LoginInv, SameLogin
<1>3. ASSUME NEW ok \in BOOLEAN, AnswerClose(ok) PROVE LoginInv'
  <2>1. /\ stack # <<>> /\ f.kind = "confirm_close" /\ stack' = Tail(stack)
        /\ \A n : f # FailedFrame(n)
    BY <1>3 DEF AnswerClose, Top, Pop, FailedFrame
  <2>2. Tail(stack) = <<>> /\ Silent(stack')
    BY <1>1, <2>1 DEF Outermost, Silent
  <2>3. CASE Destroy(f.term)
    <3>1. Silent(stack)
      <4>1. Len(stack) = 1 /\ stack[1] = f
        <5>1. Len(Tail(stack)) = Len(stack) - 1 /\ Len(stack) \in Nat /\ f = stack[1]
          BY <1>0, <2>1, HeadTailProperties, LenProperties
        <5>2. Len(Tail(stack)) = 0
          <6>1. Len(<<>>) = 0
            OBVIOUS
          <6> QED BY <2>2, <6>1
        <5> QED BY <5>1, <5>2
      <4> QED BY <2>1, <4>1 DEF Silent, AskingKinds, LoginKinds
    <3>2. \A n \in Terminals : again'[n] \in {again[n], 0}
      BY <1>0, <2>3 DEF Destroy, TypeOK, SshType
    <3> QED BY <1>0, <2>2, <3>1, <3>2, SilentLogin
  <2>4. CASE UNCHANGED <<tabVars, linkVars, keyVars, saveVars, sshVars, procVars, UserVars>>
    BY <1>2, <2>1, <2>4 DEF tabVars, sshVars, procVars, UserVars, recVars
  <2> QED BY <1>3, <2>3, <2>4 DEF AnswerClose
<1>4. CASE CloseNotice
  BY <1>2, <1>4 DEF CloseNotice, Top, Pop, FailedFrame, tabVars, sshVars, procVars, UserVars, recVars
<1>5. CASE CloseNewPage
  BY <1>2, <1>5 DEF CloseNewPage, Top, Pop, FailedFrame, sshVars, procVars, UserVars, recVars
<1>6. CASE CloseFailed
  <2>1. /\ stack # <<>> /\ f.kind = "failed" /\ stack' = Tail(stack)
        /\ again' = IF f.own THEN [again EXCEPT ![f.term] = 0] ELSE again
        /\ UNCHANGED <<tabs, user, username, changed, child>>
    BY <1>6 DEF CloseFailed, Top, Pop, tabVars, procVars, UserVars, recVars
  <2>2. CASE ~f.own
    BY <1>2, <2>1, <2>2 DEF FailedFrame
  <2>3. CASE f.own
    <3>1. again' = [again EXCEPT ![f.term] = 0] /\ again \in [Terminals -> Nat]
      BY <1>0, <2>1, <2>3 DEF TypeOK, SshType
    <3>2. ASSUME NEW n \in Terminals, n # f.term PROVE LoginOK(stack, n)'
      <4>1. f # FailedFrame(n) /\ LoginOK(stack, n)
        BY <1>0, <3>2 DEF FailedFrame, LoginInv
      <4>2. Like(stack, stack', n) /\ SameLogin(n)
        BY <1>0, <2>1, <3>1, <3>2, <4>1, LoginPop DEF SameLogin
      <4> QED BY <2>1, <4>1, <4>2, OtherLogin
    <3>3. ASSUME NEW n \in Terminals, n = f.term PROVE LoginOK(stack, n)'
      <4>1. LoginOK(stack, n) /\ again'[n] = 0
        BY <1>0, <3>1, <3>3 DEF LoginInv
      <4>2. PromptsOK(stack', n, child'[n]) /\ (OwnLogin(stack', n) => OwnLogin(stack, n))
        BY <1>0, <2>1, <4>1, LoginPop DEF LoginOK
      <4>3. CountOK(stack', n, again'[n])
        BY <4>1 DEF CountOK
      <4>4. OwnLogin(stack', n) => changed'[n] \/ Shared(n)' \/ username'[user'[n]] = NoName
        BY <2>1, <4>1, <4>2 DEF LoginOK, Shared
      <4> QED BY <4>2, <4>3, <4>4 DEF LoginOK
    <3> QED BY <3>2, <3>3 DEF LoginInv
  <2> QED BY <2>2, <2>3
<1>7. ASSUME NEW ok \in BOOLEAN, NEW typed \in BOOLEAN, NEW secret \in SecretChoices,
             NEW name \in LoginName, NEW keep \in RememberChoices,
             AnswerLogin(ok, typed, name, secret, keep)
      PROVE  LoginInv'
  BY <1>7, AnswerLoginLogin
<1> QED BY <1>3, <1>4, <1>5, <1>6, <1>7 DEF DialogStep

LEMMA ChildStepLogin == IInv /\ ChildStep => LoginInv'
<1> SUFFICES ASSUME IInv, NEW t \in Terminals, Receive(t) \/ Die(t) \/ ChildExited(t)
             PROVE  LoginInv'
  BY DEF ChildStep
<1>0. /\ TypeOK /\ LoginInv /\ LoginOK(stack, t)
      /\ UNCHANGED <<tabs, user, username>>
  BY DEF IInv, LoginInv, Receive, Die, ChildExited, UserVars, coreVars, tabVars, recVars
\* The process moves, and nothing that lcrt knows of the login does.
<1>1. ASSUME NEW phase, child' = [child EXCEPT ![t] = phase],
             child[t] \in AtPrompt => phase \in AtPrompt, UNCHANGED <<stack, again, changed>>
      PROVE  LoginInv'
  <2>1. child'[t] = phase /\ \A n \in Terminals \ {t} : child'[n] = child[n]
    BY <1>0, <1>1 DEF TypeOK, ProcType
  <2>2. PromptsOK(stack, t, phase)
    BY <1>0, <1>1, PromptPhase, NoPromptOK DEF LoginOK
  <2>3. LoginOK(stack, t)'
    <3>1. PromptsOK(stack', t, child'[t]) /\ CountOK(stack', t, again'[t])
      BY <1>0, <1>1, <2>1, <2>2 DEF LoginOK
    <3>2. OwnLogin(stack', t) => changed'[t] \/ Shared(t)' \/ username'[user'[t]] = NoName
      BY <1>0, <1>1 DEF LoginOK, Shared
    <3> QED BY <3>1, <3>2 DEF LoginOK
  <2>4. \A n \in Terminals \ {t} : Like(stack, stack', n) /\ SameLogin(n)
    BY <1>1, <2>1, LikeItself DEF SameLogin
  <2> QED BY <1>0, <2>3, <2>4, DoneLogin DEF Done
<1>2. CASE Receive(t)
  <2>1. t \in tabs /\ UNCHANGED <<tabVars, recVars>>
    BY <1>2 DEF Receive, Attached
  <2>2. PICK o \in Output :
          /\ o[1] = child[t]
          /\ \/ /\ child' = [child EXCEPT ![t] = o[3]]
                /\ UNCHANGED <<stack, sshVars>>
             \/ UNCHANGED <<stack, sshVars, procVars>>
             \/ ReceiveText(t, o[2], o[3])
    BY <1>2 DEF Receive
  <2>3. CASE child' = [child EXCEPT ![t] = o[3]] /\ UNCHANGED <<stack, sshVars>>
    BY <1>1, <2>2, <2>3, PrintedByProcess DEF sshVars, AtPrompt
  <2>4. CASE UNCHANGED <<stack, sshVars, procVars>>
    BY <1>0, <2>4, OtherLogin, LikeItself DEF LoginInv, SameLogin, sshVars, procVars
  <2>5. CASE ReceiveText(t, o[2], o[3])
    BY <1>0, <2>1, <2>2, <2>5, ReceiveLogin, DoneLogin
  <2> QED BY <2>2, <2>3, <2>4, <2>5
<1>3. CASE Die(t)
  BY <1>1, <1>3 DEF Die, AtPrompt, coreVars, sshVars
<1>4. CASE ChildExited(t)
  BY <1>1, <1>4 DEF ChildExited, AtPrompt, sshVars
<1> QED BY <1>2, <1>3, <1>4

LEMMA LoginInit == Init => LoginInv
<1> SUFFICES ASSUME Init, NEW t \in Terminals PROVE LoginOK(stack, t)
  BY DEF LoginInv
<1>1. stack = <<>> /\ again[t] = 0
  BY DEF Init, CoreInit
<1>2. CountOK(stack, t, again[t])
  BY <1>1 DEF CountOK
<1> QED BY <1>1, <1>2, EmptyLogins, NoPromptOK DEF LoginOK

LEMMA LoginNext == IInv /\ [Next]_vars => LoginInv'
<1>1. ASSUME IInv, UNCHANGED vars PROVE LoginInv'
  <2>1. /\ UNCHANGED <<tabs, user, username, stack>> /\ \A n : SameLogin(n)
    BY <1>1 DEF vars, coreVars, tabVars, recVars, sshVars, procVars, SameLogin
  <2> QED BY <1>1, <2>1, OtherLogin, LikeItself DEF IInv, LoginInv
<1> QED BY <1>1, UserStepLogin, DialogStepLogin, ResumeLogin, ReconnectNextLogin, ChildStepLogin
        DEF Next, Down, HandlerStep

-----------------------------------------------------------------------------
(* The theorems.                                                           *)
(***************************************************************************)
LEMMA InitIInv == Init => IInv
<1>1. Init => CoreInv
  BY DEF Init, CoreInit, CoreInv, OneReturnHandler, ToolbarFollowsStatus, HasCurrent,
         ClosedTabsAreQuiet, DISCONNECT, CONNECTED
<1> QED BY <1>1, TypedInit, LoginInit DEF IInv, Typed

\* The inductive invariant, for every step.
LEMMA NextIInv == IInv /\ [Next]_vars => IInv'
BY NextCore, TypedNext, LoginNext DEF IInv, Typed, KeepsCore

\* For any number of tabs, records and login names: types, suspended handlers in
\* the form their dialogs leave them, and the state that all tabs share.
THEOREM SshInvariant == Spec => []IInv
BY InitIInv, NextIInv, PTL DEF Spec

\* The Return handler is connected at most once, signal_connected says whether it
\* is, and a live session has none: Return cannot fork under a live shell.
THEOREM ReturnHandlerOnce == Spec => []OneReturnHandler
<1>1. IInv => OneReturnHandler
  BY DEF IInv, CoreInv
<1> QED BY <1>1, InitIInv, NextIInv, PTL DEF Spec

\* The Reconnect and Disconnect buttons always show the state of the current tab.
THEOREM ToolbarCorrect == Spec => []ToolbarFollowsStatus
<1>1. IInv => ToolbarFollowsStatus
  BY DEF IInv, CoreInv
<1> QED BY <1>1, InitIInv, NextIInv, PTL DEF Spec

\* On one connection the third denial is the last: until the user has closed the
\* message that says so the count stays, and then it starts over.
THEOREM GivesUp == Spec => []GivesUpAfterThree
<1>1. IInv => GivesUpAfterThree
  BY DEF IInv, LoginInv, LoginOK, CountOK, GivesUpAfterThree
<1> QED BY <1>1, InitIInv, NextIInv, PTL DEF Spec

\* The login dialogs of one terminal do nest, but the process whose prompt one has
\* read waits there, or has died, until the dialog is answered and the password is
\* sent or the connection made anew.
THEOREM PromptsKeepTheirChild == Spec => []PromptKeepsItsChild
<1>1. IInv => PromptKeepsItsChild
  BY DEF IInv, LoginInv, LoginOK, PromptsOK, PromptKeepsItsChild
<1> QED BY <1>1, InitIInv, NextIInv, PTL DEF Spec

-----------------------------------------------------------------------------
(* What ends a session.                                                    *)
(***************************************************************************)
LEMMA AfterDeniedOffers ==
  ASSUME KeyType, NEW t \in Terminals, NEW text, NEW phase, NEW own, NEW rest,
         AfterDenied(t, text, phase, own, rest)
  PROVE  NothingOffered
<1>1. UNCHANGED keyVars \/ SetConnectedStatus(t)
  BY DEF AfterDenied, Restart, SubmitPassword
<1> QED BY <1>1, KeysOffer, ConnectedOffers

\* Only the exit of a process connects the Return handler.
LEMMA OthersOffer ==
  ASSUME IInv, [Next]_vars, \A t \in Terminals : ~ChildExited(t)
  PROVE  NothingOffered
<1>0. KeyType /\ TypeOK /\ StackOK(stack, tabs) /\ \A t \in tabs : t \in Terminals
  BY DEF IInv, TypeOK, TabType
<1>1. CASE UserStep
  <2>1. ASSUME NEW t \in Terminals, Close(t) PROVE NothingOffered
    BY <1>0, <2>1, DestroyOffers, KeysOffer DEF Close, Destroy
  <2>2. CASE ~\E t \in Terminals : Close(t)
    BY <1>1, <2>2, KeysOffer
    DEF UserStep, OpenSession, NewTerminal, Clone, NewPage, SelectTab, PressReturn, Reconnect,
        ReconnectAll, DisconnectCurrent, DisconnectAll
  <2> QED BY <2>1, <2>2
<1>2. CASE DialogStep
  <2>1. ASSUME NEW ok \in BOOLEAN, AnswerClose(ok) PROVE NothingOffered
    <3>1. stack # <<>> /\ Head(stack).kind = "confirm_close"
      BY <2>1 DEF AnswerClose, Top
    <3>2. FrameOK(Head(stack), tabs)
      BY <1>0, <3>1, StackPop DEF TypeOK
    <3>3. Head(stack).term \in Terminals
      BY <1>0, <3>1, <3>2 DEF FrameOK, FrameTerminals, Loops
    <3> QED BY <1>0, <2>1, <3>3, DestroyOffers, KeysOffer DEF AnswerClose, Destroy
  <2>2. CASE ~\E ok \in BOOLEAN : AnswerClose(ok)
    BY <1>2, <2>2, KeysOffer DEF DialogStep, CloseNotice, CloseNewPage, CloseFailed, AnswerLogin
  <2> QED BY <2>1, <2>2
<1>3. CASE ReconnectNext
  BY <1>3, KeysOffer DEF ReconnectNext
<1>4. CASE ResumeReceive
  <2> DEFINE f == Head(stack)
  <2>1. f.term \in Terminals
    BY <1>4, ResumeReady DEF ResumeReceive
  <2>2. \/ UNCHANGED keyVars
        \/ AfterDenied(f.term, f.text, child[f.term], f.own, Tail(stack))
    BY <1>4 DEF ResumeReceive, Restart, SubmitPassword
  <2> QED BY <1>0, <2>1, <2>2, AfterDeniedOffers, KeysOffer
<1>5. ASSUME NEW t \in Terminals, Receive(t) PROVE NothingOffered
  <2>1. \/ UNCHANGED keyVars
        \/ \E text, phase : AfterDenied(t, text, phase, TRUE, stack)
    BY <1>5 DEF Receive, ReceiveText, Denied
  <2> QED BY <1>0, <2>1, AfterDeniedOffers, KeysOffer
<1>6. ASSUME NEW t \in Terminals, Die(t) PROVE NothingOffered
  BY <1>6, KeysOffer DEF Die, coreVars
<1>7. CASE UNCHANGED vars
  BY <1>7, KeysOffer DEF vars, coreVars
<1> QED BY <1>1, <1>2, <1>3, <1>4, <1>5, <1>6, <1>7 DEF Next, HandlerStep, ChildStep, Down

LEMMA ExitsOffer ==
  IInv /\ [Next]_vars =>
    \A t \in Terminals : OffersReturn(t) <=> status[t] = CONNECTED /\ ChildExited(t)
<1> SUFFICES ASSUME IInv, [Next]_vars
             PROVE  \A t \in Terminals : OffersReturn(t) <=> status[t] = CONNECTED /\ ChildExited(t)
  OBVIOUS
<1>0. KeyType /\ TabsInv /\ child \in [Terminals -> Phases]
  BY CoreParts DEF IInv, TypeOK, ProcType
<1>1. ASSUME NEW n \in Terminals, ChildExited(n)
      PROVE  \A t \in Terminals : OffersReturn(t) <=> status[t] = CONNECTED /\ ChildExited(t)
  <2>1. \A t \in Terminals : ChildExited(t) => t = n
    <3>1. ASSUME NEW t \in Terminals, ChildExited(t), t # n PROVE FALSE
      <4>1. child'[t] = "none" /\ child[t] = "dead" /\ child' = [child EXCEPT ![n] = "none"]
        BY <1>0, <1>1, <3>1 DEF ChildExited
      <4> QED BY <1>0, <3>1, <4>1
    <3> QED BY <3>1
  <2>2. CASE status[n] = CONNECTED
    <3>1. ArmReturnKey(n)
      BY <1>1, <2>2 DEF ChildExited
    <3> QED BY <1>0, <1>1, <2>1, <2>2, <3>1, ArmOffers
  <2>3. CASE status[n] # CONNECTED
    <3>1. UNCHANGED keyVars
      BY <1>1, <2>3 DEF ChildExited
    <3> QED BY <2>1, <2>3, <3>1 DEF OffersReturn, keyVars
  <2> QED BY <2>2, <2>3
<1>2. CASE \A n \in Terminals : ~ChildExited(n)
  BY <1>2, OthersOffer DEF NothingOffered, OffersReturn
<1> QED BY <1>1, <1>2

\* ssh tabs implement TabSession: initial states map to its initial state and
\* every step to one of its steps or to a stutter; and the exit of the process ends a
\* session, as nothing else does.
THEOREM ImplementsTabSession == Spec => IsTabSession
<1>1. Init => SessionsOfTabs!TabSessionInit
  BY DEF Init, CoreInit, SessionsOfTabs!TabSessionInit, DISCONNECT, CONNECTED
<1>2. IInv /\ [Next]_vars => [SessionsOfTabs!TabSessionNext]_SessionsOfTabs!tabSessionVars
  BY NextCore DEF KeepsCore, TabStep
<1>3. IInv /\ [Next]_vars =>
        [\A t \in Terminals : OffersReturn(t) <=> status[t] = CONNECTED /\ ChildExited(t)]_vars
  BY ExitsOffer
<1> QED BY <1>1, <1>2, <1>3, InitIInv, NextIInv, PTL
        DEF Spec, IsTabSession, SessionsOfTabs!TabSessionSpec

-----------------------------------------------------------------------------
(* A connected tab has a process.                                          *)
(***************************************************************************)
\* Of the handlers that go through lcrt_ssh_receive below its "Permission denied"
\* block, only one whose process is gone connects a tab without a process.
LEMMA AfterDeniedGone ==
  ASSUME TypeOK, NEW t \in Terminals, NEW n \in Terminals, NEW text, NEW phase, NEW own, NEW rest,
         AfterDenied(t, text, phase, own, rest), ~Gone(n), Gone(n)'
  PROVE  n = t /\ phase = "none"
<1>0. /\ child \in [Terminals -> Phases] /\ status \in [Terminals -> SshStatus]
      /\ child'[n] = "none" /\ status'[n] = CONNECTED
      /\ child[n] # "none" \/ status[n] # CONNECTED
  BY DEF TypeOK, ProcType, LinkType, Gone
<1>1. CASE child' = [child EXCEPT ![t] = phase] /\ UNCHANGED linkVars
  BY <1>0, <1>1 DEF linkVars
<1>2. CASE Restart(t, rest)
  <2>1. /\ status' = status
        /\ child' = child \/ \E x \in {"talk", Killed(child[t])} : child' = [child EXCEPT ![t] = x]
    BY <1>2 DEF Restart, Connect, procVars, linkVars
  <2> QED BY <1>0, <2>1 DEF Killed
<1>3. CASE SubmitPassword(t, phase, rest)
  <2>1. status' = [status EXCEPT ![t] = CONNECTING] /\ child' = [child EXCEPT ![t] = Fed(phase)]
    BY <1>3 DEF SubmitPassword, SetStatus
  <2> QED BY <1>0, <2>1 DEF CONNECTED, CONNECTING
<1>4. CASE child' = [child EXCEPT ![t] = "talk"] /\ status' = [status EXCEPT ![t] = WAIT_RETURN]
  BY <1>0, <1>4
<1>5. CASE child' = [child EXCEPT ![t] = phase] /\ status' = [status EXCEPT ![t] = DISCONNECT]
  BY <1>0, <1>5 DEF DISCONNECT, CONNECTED
<1>6. CASE SetConnectedStatus(t) /\ child' = [child EXCEPT ![t] = Commands(t, phase)]
  <2>1. status' = [status EXCEPT ![t] = CONNECTED]
    BY <1>6 DEF SetConnectedStatus, SetStatus
  <2>2. n = t
    BY <1>0, <1>6, <2>1
  <2>3. Commands(t, phase) = "none"
    BY <1>0, <1>6, <2>2
  <2> QED BY <2>2, <2>3 DEF Commands, Fed
<1> QED BY <1>1, <1>2, <1>3, <1>4, <1>5, <1>6 DEF AfterDenied

\* No other handler connects one, and no process is reaped in a connected tab.
LEMMA GoneStep ==
  ASSUME IInv, [Next]_vars, NEW n \in tabs, ~Gone(n), Gone(n)'
  PROVE  /\ Top("resume") /\ Head(stack).term = n
         /\ Head(stack).own /\ ~Shared(n) => username[user[n]] = NoName
<1>0. /\ TypeOK /\ n \in Terminals /\ tabs \in SUBSET Terminals /\ current \in tabs \cup {NoTerminal}
      /\ child \in [Terminals -> Phases] /\ status \in [Terminals -> SshStatus]
      /\ child'[n] = "none" /\ status'[n] = CONNECTED
      /\ child[n] # "none" \/ status[n] # CONNECTED
  BY DEF IInv, TypeOK, TabType, LinkType, ProcType, Gone
<1>1. ASSUME UNCHANGED <<child, status>> PROVE FALSE
  BY <1>0, <1>1
\* A handler of terminal t.
<1>2. ASSUME NEW t, NEW x, child' = [child EXCEPT ![t] = x],
             \/ status' = status /\ (x = "none" => child[t] = "none")
             \/ status' = [status EXCEPT ![t] = DISCONNECT]
             \/ t # n /\ \E s : status' = [status EXCEPT ![t] = s]
      PROVE  FALSE
  BY <1>0, <1>2 DEF DISCONNECT, CONNECTED
<1>3. ASSUME NEW t, Destroy(t) PROVE FALSE
  BY <1>2, <1>3 DEF Destroy, DestroyPage
<1>4. CASE UserStep
  <2>1. ASSUME NEW t, NEW u, NewTerminal(t, u) PROVE FALSE
    <3>1. PICK found : Connect(t, u, found, FALSE, "none")
      BY <2>1 DEF NewTerminal
    <3>2. t # n /\ status' = [status EXCEPT ![t] = DISCONNECT]
      BY <2>1 DEF NewTerminal, NewPage, NewPageWith
    <3> QED BY <1>2, <3>1, <3>2 DEF Connect
  <2>2. ASSUME NEW t, Close(t) PROVE FALSE
    BY <1>1, <1>3, <2>2 DEF Close, linkVars, procVars
  <2>3. CASE PressReturn \/ Reconnect
    <3>1. UNCHANGED status /\ \E x \in {"talk", child[current]} : child' = [child EXCEPT ![current] = x]
      BY <2>3 DEF PressReturn, Reconnect, Connect, linkVars
    <3> QED BY <1>2, <3>1
  <2>4. CASE DisconnectCurrent
    <3>1. /\ status' = [status EXCEPT ![current] = DISCONNECT]
          /\ child' = [child EXCEPT ![current] = Fed(@)]
      BY <2>4 DEF DisconnectCurrent, Disconnect, SetStatus
    <3> QED BY <1>2, <3>1
  <2>5. CASE DisconnectAll
    <3>1. \/ status'[n] = DISCONNECT
          \/ child'[n] = child[n] /\ status'[n] = status[n]
      BY <1>0, <2>5 DEF DisconnectAll
    <3> QED BY <1>0, <3>1 DEF DISCONNECT, CONNECTED
  <2>6. CASE ReconnectAll
    BY <1>1, <2>6 DEF ReconnectAll, linkVars, procVars
  <2>7. ASSUME NEW t \in Terminals, SelectTab(t), UNCHANGED procVars PROVE FALSE
    BY <1>1, <2>7 DEF SelectTab, procVars
  <2> QED BY <1>4, <2>1, <2>2, <2>3, <2>4, <2>5, <2>6, <2>7 DEF UserStep, OpenSession, Clone
<1>5. CASE DialogStep
  BY <1>1, <1>3, <1>5
  DEF DialogStep, AnswerClose, CloseNotice, CloseNewPage, CloseFailed, AnswerLogin, linkVars, procVars
<1>6. CASE ReconnectNext
  <2>1. PICK t \in Head(stack).todo :
          /\ SetStatus(t, DISCONNECT)
          /\ \E found, oldChild : Connect(t, user[t], found, pid[t], oldChild)
    BY <1>6 DEF ReconnectNext
  <2> QED BY <1>2, <2>1 DEF SetStatus, Connect
<1>7. CASE ResumeReceive
  <2>1. Top("resume")
    BY <1>7 DEF ResumeReceive
  <2> DEFINE f == Head(stack)
             t == f.term
  <2>2. /\ t \in Terminals
        /\ f.own => changed[t] \/ Shared(t) \/ username[user[t]] = NoName
    BY <2>1, ResumeReady
  <2>3. \/ Restart(t, Tail(stack))
        \/ /\ AfterDenied(t, f.text, child[t], f.own, Tail(stack))
           /\ ~(f.own /\ changed[t])
        \/ SubmitPassword(t, child[t], Tail(stack))
    BY <1>7 DEF ResumeReceive
  <2> HIDE DEF f, t
  <2>4. CASE Restart(t, Tail(stack))
    <3>1. /\ status' = status
          /\ child' = child \/ \E x \in {"talk", Killed(child[t])} : child' = [child EXCEPT ![t] = x]
      BY <2>4 DEF Restart, Connect, procVars, linkVars
    <3> QED BY <1>1, <1>2, <3>1 DEF Killed
  <2>5. CASE SubmitPassword(t, child[t], Tail(stack))
    <3>1. status' = [status EXCEPT ![t] = CONNECTING] /\ child' = [child EXCEPT ![t] = Fed(child[t])]
      BY <2>5 DEF SubmitPassword, SetStatus
    <3> QED BY <1>0, <3>1 DEF CONNECTED, CONNECTING
  <2>6. CASE AfterDenied(t, f.text, child[t], f.own, Tail(stack)) /\ ~(f.own /\ changed[t])
    <3>1. n = t
      BY <1>0, <2>2, <2>6, AfterDeniedGone
    <3>2. f.own /\ ~Shared(n) => username[user[n]] = NoName
      BY <2>2, <2>6, <3>1
    <3> QED BY <2>1, <3>1, <3>2 DEF f, t
  <2> QED BY <2>3, <2>4, <2>5, <2>6
<1>8. ASSUME NEW t \in Terminals, Receive(t) PROVE FALSE
  <2>1. PICK o \in Output :
          \/ UNCHANGED <<child, status>>
          \/ child' = [child EXCEPT ![t] = o[3]] /\ status' \in {status, [status EXCEPT ![t] = DISCONNECT]}
          \/ AfterDenied(t, o[2], o[3], TRUE, stack)
    BY <1>8 DEF Receive, ReceiveText, Denied, SetStatus, linkVars, procVars
  <2>2. o[3] # "none"
    BY PrintedByProcess
  <2>3. CASE AfterDenied(t, o[2], o[3], TRUE, stack)
    <3>1. n = t /\ o[3] = "none"
      <4>1. PICK own : AfterDenied(t, o[2], o[3], own, stack)
        BY <2>3
      <4> QED BY <1>0, <4>1, AfterDeniedGone
    <3> QED BY <2>2, <3>1
  <2>4. CASE child' = [child EXCEPT ![t] = o[3]] /\ status' \in {status, [status EXCEPT ![t] = DISCONNECT]}
    BY <1>2, <2>2, <2>4
  <2> QED BY <1>1, <2>1, <2>3, <2>4
<1>9. ASSUME NEW t \in Terminals, Die(t) PROVE FALSE
  <2>1. child' = [child EXCEPT ![t] = "dead"] /\ status' = status
    BY <1>9 DEF Die, coreVars, linkVars
  <2> QED BY <1>2, <2>1
<1>10. ASSUME NEW t \in Terminals, ChildExited(t) PROVE FALSE
  <2>1. /\ child' = [child EXCEPT ![t] = "none"]
        /\ IF status[t] = CONNECTED THEN status' = [status EXCEPT ![t] = CHILD_EXIT] ELSE status' = status
    BY <1>10 DEF ChildExited, ArmReturnKey, SetStatus, linkVars
  <2> QED BY <1>0, <2>1 DEF CHILD_EXIT, CONNECTED
<1>11. CASE UNCHANGED vars
  BY <1>1, <1>11 DEF vars, coreVars, linkVars, procVars
<1> QED BY <1>4, <1>5, <1>6, <1>7, <1>8, <1>9, <1>10, <1>11 DEF Next, HandlerStep, ChildStep, Down

\* A tab turns connected without a process, or one whose exit is still to come, only
\* in the dialog of a denial: one left beneath a new connection, or of a record
\* without a name, or of one that another tab renames.
THEOREM ConnectedHasProcess == Spec => ConnectsToChild
<1>1. IInv /\ [Next]_vars =>
        [\A t \in tabs : ~Gone(t) /\ Gone(t)' =>
           /\ Top("resume") /\ Head(stack).term = t
           /\ Head(stack).own /\ ~Shared(t) => username[user[t]] = NoName]_vars
  BY GoneStep
<1> QED BY <1>1, InitIInv, NextIInv, PTL DEF Spec, ConnectsToChild

-----------------------------------------------------------------------------
(* Passwords.                                                              *)
(***************************************************************************)
\* lcrt_ssh_receive below the "Permission denied" block sends a password only to
\* the prompt that the record's login name expects.
LEMMA AfterDeniedSubmits ==
  ASSUME TypeOK, NEW t \in Terminals, NEW n \in Terminals, NEW text, NEW phase, NEW own, NEW rest,
         phase # "auth" \/ phase = child[t], AfterDenied(t, text, phase, own, rest), Submits(n)
  PROVE  n = t /\ username[user[t]] \in {NoName, loginName[t]}
<1>0. child \in [Terminals -> Phases] /\ child[n] # "auth" /\ child'[n] = "auth"
  BY DEF TypeOK, ProcType, Submits
<1>1. CASE child' = [child EXCEPT ![t] = phase]
  BY <1>0, <1>1
<1>2. CASE child' = [child EXCEPT ![t] = "talk"]
  BY <1>0, <1>2
<1>3. CASE Restart(t, rest)
  <2>1. child' = child \/ \E x \in {"talk", Killed(child[t])} : child' = [child EXCEPT ![t] = x]
    BY <1>3 DEF Restart, Connect, procVars
  <2> QED BY <1>0, <2>1 DEF Killed
<1>4. CASE PromptMatches(t, text) /\ SubmitPassword(t, phase, rest)
  <2>1. child' = [child EXCEPT ![t] = Fed(phase)]
    BY <1>4 DEF SubmitPassword
  <2> QED BY <1>0, <1>4, <2>1 DEF PromptMatches
<1>5. CASE SetConnectedStatus(t) /\ child' = [child EXCEPT ![t] = Commands(t, phase)]
  <2>1. n = t
    BY <1>0, <1>5
  <2>2. status'[t] = CONNECTED /\ status'[n] = CONNECTING
    BY <1>5 DEF SetConnectedStatus, SetStatus, TypeOK, LinkType, Submits
  <2> QED BY <2>1, <2>2 DEF CONNECTED, CONNECTING
<1> QED BY <1>1, <1>2, <1>3, <1>4, <1>5 DEF AfterDenied

\* No other handler sends one.
LEMMA SubmitsStep ==
  ASSUME IInv, [Next]_vars, NEW n \in tabs, Submits(n), ~Shared(n)
  PROVE  username[user[n]] \in {NoName, loginName[n]}
<1>0. /\ TypeOK /\ n \in Terminals /\ child \in [Terminals -> Phases]
      /\ status \in [Terminals -> SshStatus]
      /\ child[n] # "auth" /\ child'[n] = "auth" /\ status'[n] = CONNECTING
      /\ current \in tabs \cup {NoTerminal} /\ stack \in Seq(Frames) /\ tabs \in SUBSET Terminals
  BY DEF IInv, TypeOK, TabType, LinkType, ProcType, Submits
<1>1. CASE UNCHANGED child
  BY <1>0, <1>1
<1>2. ASSUME NEW t, NEW x, x = child[t] \/ x # "auth", child' = [child EXCEPT ![t] = x]
      PROVE  FALSE
  BY <1>0, <1>2
<1>3. ASSUME NEW t, NEW u, NEW found, NEW oldPid, NEW oldChild,
             oldChild = child[t] \/ oldChild # "auth", Connect(t, u, found, oldPid, oldChild)
      PROVE  FALSE
  <2>1. \E x \in {"talk", oldChild} : child' = [child EXCEPT ![t] = x]
    BY <1>3 DEF Connect
  <2> QED BY <1>2, <1>3, <2>1
<1>4. CASE UserStep
  <2>1. ASSUME NEW t, NEW u, NewTerminal(t, u) PROVE FALSE
    <3>1. \E found : Connect(t, u, found, FALSE, "none")
      BY <2>1 DEF NewTerminal
    <3> QED BY <1>3, <3>1
  <2>2. ASSUME NEW t, Close(t) PROVE FALSE
    <3>1. CASE Destroy(t)
      BY <1>2, <3>1 DEF Destroy
    <3> QED BY <1>0, <2>2, <3>1 DEF Close, procVars
  <2>3. CASE PressReturn \/ Reconnect
    <3>1. \E found : Connect(current, user[current], found, pid[current], child[current])
      BY <2>3 DEF PressReturn, Reconnect
    <3> QED BY <1>3, <3>1
  <2>4. CASE DisconnectCurrent
    <3>1. /\ status' = [status EXCEPT ![current] = DISCONNECT]
          /\ child' = [child EXCEPT ![current] = Fed(@)]
      BY <2>4 DEF DisconnectCurrent, Disconnect, SetStatus
    <3> QED BY <1>0, <3>1 DEF DISCONNECT, CONNECTING
  <2>5. CASE DisconnectAll
    <3>1. \/ status'[n] = DISCONNECT
          \/ child'[n] = child[n]
      BY <1>0, <2>5 DEF DisconnectAll
    <3> QED BY <1>0, <3>1 DEF DISCONNECT, CONNECTING
  <2>6. CASE ReconnectAll
    BY <1>0, <2>6 DEF ReconnectAll, procVars
  <2> QED BY <1>0, <1>4, <2>1, <2>2, <2>3, <2>4, <2>5, <2>6
          DEF UserStep, OpenSession, Clone, procVars
<1>5. CASE DialogStep
  <2>1. ASSUME NEW t, Destroy(t) PROVE FALSE
    BY <1>2, <2>1 DEF Destroy
  <2> QED BY <1>0, <1>5, <2>1
          DEF DialogStep, AnswerClose, CloseNotice, CloseNewPage, CloseFailed, AnswerLogin, procVars
<1>6. CASE ReconnectNext
  <2>1. PICK t \in Head(stack).todo :
          /\ SetStatus(t, DISCONNECT)
          /\ \E found, oldChild : Connect(t, user[t], found, pid[t], oldChild)
    BY <1>6 DEF ReconnectNext
  <2>2. CASE t = n
    BY <1>0, <2>1, <2>2 DEF SetStatus, DISCONNECT, CONNECTING
  <2>3. CASE t # n
    BY <1>0, <2>1, <2>3 DEF Connect
  <2> QED BY <2>2, <2>3
<1>7. CASE ResumeReceive
  <2>1. Top("resume")
    BY <1>7 DEF ResumeReceive
  <2> DEFINE f == Head(stack)
             t == f.term
  <2>2. /\ t \in Terminals
        /\ f.at = "prompt" => f.own
        /\ f.own => changed[t] \/ Shared(t) \/ username[user[t]] = NoName
    BY <2>1, ResumeReady
  <2>3. \/ Restart(t, Tail(stack))
        \/ AfterDenied(t, f.text, child[t], f.own, Tail(stack))
        \/ /\ f.at = "prompt" /\ ~(f.own /\ changed[t])
           /\ SubmitPassword(t, child[t], Tail(stack))
    BY <1>7 DEF ResumeReceive
  <2> HIDE DEF f, t
  <2>4. CASE Restart(t, Tail(stack))
    <3>1. child' = child \/ \E x \in {"talk", Killed(child[t])} : child' = [child EXCEPT ![t] = x]
      BY <2>4 DEF Restart, Connect, procVars
    <3> QED BY <1>1, <1>2, <3>1 DEF Killed
  <2>5. CASE AfterDenied(t, f.text, child[t], f.own, Tail(stack))
    <3>1. n = t /\ username[user[t]] \in {NoName, loginName[t]}
      BY <1>0, <2>2, <2>5, AfterDeniedSubmits
    <3> QED BY <3>1
  <2>6. CASE f.at = "prompt" /\ ~(f.own /\ changed[t]) /\ SubmitPassword(t, child[t], Tail(stack))
    <3>1. child' = [child EXCEPT ![t] = Fed(child[t])]
      BY <2>6 DEF SubmitPassword
    <3>2. n = t
      BY <1>0, <3>1
    <3>3. username[user[t]] = NoName
      BY <2>2, <2>6, <3>2
    <3> QED BY <3>2, <3>3
  <2> QED BY <2>4, <2>5, <2>6, <2>3
<1>8. ASSUME NEW t \in Terminals, Receive(t)
      PROVE  username[user[n]] \in {NoName, loginName[n]}
  <2>1. PICK o \in Output :
          \/ child' = [child EXCEPT ![t] = o[3]]
          \/ UNCHANGED child
          \/ AfterDenied(t, o[2], o[3], TRUE, stack)
    BY <1>8 DEF Receive, ReceiveText, Denied, procVars
  <2>2. o[3] # "auth"
    BY DEF Output
  <2>3. CASE AfterDenied(t, o[2], o[3], TRUE, stack)
    <3>1. n = t /\ username[user[t]] \in {NoName, loginName[t]}
      BY <1>0, <2>2, <2>3, AfterDeniedSubmits
    <3> QED BY <3>1
  <2> QED BY <1>1, <1>2, <2>1, <2>2, <2>3
<1>9. ASSUME NEW t \in Terminals, Die(t) \/ ChildExited(t) PROVE FALSE
  BY <1>2, <1>9 DEF Die, ChildExited
<1>10. CASE UNCHANGED vars
  BY <1>1, <1>10 DEF vars, procVars
<1> QED BY <1>4, <1>5, <1>6, <1>7, <1>8, <1>9, <1>10 DEF Next, HandlerStep, ChildStep, Down

\* A stored password is submitted only to a connection that was started under the
\* record's present login name, or to whatever login if the record has no name -
\* unless another tab shares the record and may have renamed the login.
THEOREM PasswordsGoToTheirLogin == Spec => PasswordGoesToItsLogin
<1>1. IInv /\ [Next]_vars =>
        [\A t \in tabs : Submits(t) /\ ~Shared(t) =>
           username[user[t]] \in {NoName, loginName[t]}]_vars
  BY SubmitsStep
<1> QED BY <1>1, InitIInv, NextIInv, PTL DEF Spec, PasswordGoesToItsLogin
=============================================================================

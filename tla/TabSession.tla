----------------------------- MODULE TabSession -----------------------------
(***************************************************************************)
(* What a tab of lcrt promises its user, whatever the protocol: a session  *)
(* comes up, and it leaves an open tab in one of two ways.  If it ends, the *)
(* tab offers Return to connect again, and keeps offering it until a       *)
(* session is up or the tab is closed; if it is dropped, Return is not     *)
(* armed.  Which causes end a session and which drop it differs between    *)
(* the protocols - the user's Disconnect drops an ssh session and ends a   *)
(* serial one - and is the other half of each protocol's IsTabSession.     *)
(***************************************************************************)
CONSTANT Tabs

VARIABLES open,   \* tabs in the notebook
          live,   \* tabs that show a session
          armed   \* tabs in which Return connects again

tabSessionVars == <<open, live, armed>>

\* The session of a new tab may be up at once.
Open(t) ==
  /\ t \notin open
  /\ open' = open \cup {t}
  /\ live' \in {live, live \cup {t}}
  /\ UNCHANGED armed

Login(t) ==
  /\ t \in open \ live
  /\ live' = live \cup {t}
  /\ armed' = armed \ {t}
  /\ UNCHANGED open

\* The session ends, and Return is offered from now on.
End(t) ==
  /\ t \in live
  /\ live' = live \ {t}
  /\ armed' = armed \cup {t}
  /\ UNCHANGED open

\* Sessions go, one or all of them at once, and nothing is offered.
Drop(S) ==
  /\ S \subseteq live
  /\ live' = live \ S
  /\ UNCHANGED <<open, armed>>

Close(t) ==
  /\ t \in open
  /\ open' = open \ {t}
  /\ live' = live \ {t}
  /\ armed' = armed \ {t}

TabSessionInit == open = {} /\ live = {} /\ armed = {}

TabSessionNext ==
  \/ \E t \in Tabs : Open(t) \/ Login(t) \/ End(t) \/ Close(t)
  \/ \E S \in SUBSET live : Drop(S)

TabSessionSpec == TabSessionInit /\ [][TabSessionNext]_tabSessionVars

-----------------------------------------------------------------------------
\* Only an open tab has a session, and Return is armed only where there is none.
OfferedWhereNothingRuns ==
  /\ open \subseteq Tabs
  /\ live \subseteq open
  /\ armed \subseteq open \ live
=============================================================================

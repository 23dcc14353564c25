------------------------- MODULE SavedSessions_proofs -------------------------
(***************************************************************************)
(* Theorems about the saved sessions.                                      *)
(*                                                                         *)
(* Windows: several lcrt processes on one directory, for any number of     *)
(* processes, sessions and rows: that only excused sessions differ from    *)
(* the table, that a window made for a session finds it, and that the      *)
(* frame of the window closed last is what the next one reads.             *)
(*                                                                         *)
(* SessionStore: the list, the table and the tree of one process, for any  *)
(* number of records, labels and folders: that names tell records apart,   *)
(* that folders lie in themselves, and that the table is the list while    *)
(* auto save is on.                                                        *)
(***************************************************************************)
EXTENDS Windows, SessionStore, FiniteSetTheorems, SequenceTheorems, WellFoundedInduction, TLAPS

-----------------------------------------------------------------------------
(* Windows.                                                                *)
(***************************************************************************)

\* The typed form of each variable that the arguments below need: every step
\* rebuilds its functions with EXCEPT.
LEMMA DefaultFrameType == DefaultFrame \in Frames
  BY WindowsAssumption DEF DefaultFrame

LEMMA InitType == Init => TypeOK
<1> SUFFICES ASSUME Init PROVE TypeOK
  OBVIOUS
<1>1. 0 \in 0 .. FrameRows
  BY WindowsAssumption
<1>2. rows \in [Names -> Records] /\ list \in [Processes -> [Names -> Records]]
  BY DEF Init, EmptyList, Records
<1>3. /\ made \in BOOLEAN /\ frame \in [Rows -> Frames \cup {NoFrame}]
      /\ kept \in Frames \cup {NoFrame} /\ cut \in SUBSET Rows
  BY DefaultFrameType DEF Init
<1>4. /\ pc \in [Processes -> Places] /\ step \in [Processes -> 0 .. FrameRows]
      /\ shape \in [Processes -> Frames \cup {NoFrame}] /\ auto \in [Processes -> BOOLEAN]
      /\ subject \in [Processes -> Names \cup {NoName}]
  BY <1>1 DEF Init, Places
<1>5. /\ tabs \in [Processes -> SUBSET (Processes \X Names)]
      /\ excused \in [Processes -> SUBSET Names] /\ promised \in [Processes -> Records]
  BY DEF Init, Records
<1> QED BY <1>2, <1>3, <1>4, <1>5 DEF TypeOK

LEMMA BeginPlaces ==
  ASSUME NEW w \in Processes, NEW name, NEW content, Begin(w, name, content)
  PROVE  \E p \in {"loading", "creating"} : pc' = [pc EXCEPT ![w] = p] /\ (p = "loading" => made)
<1>1. PICK done \in Outcome(w) : Become(w, IF made /\ done THEN "loading" ELSE "creating")
  BY DEF Begin
<1> QED BY <1>1 DEF Become

LEMMA BeginType ==
  ASSUME TypeOK, NEW w \in Processes, NEW name \in Names \cup {NoName}, NEW content \in Records,
         Begin(w, name, content)
  PROVE  /\ pc' \in [Processes -> Places]
         /\ subject' \in [Processes -> Names \cup {NoName}]
         /\ promised' \in [Processes -> Records]
  BY BeginPlaces DEF TypeOK, Begin, Places

LEMMA WrittenType ==
  ASSUME TypeOK, NEW w \in Processes, NEW own \in SUBSET Names, Written(w, own)
  PROVE  /\ excused' \in [Processes -> SUBSET Names]
         /\ promised' \in [Processes -> Records]
  BY DEF TypeOK, Written, Records

\* What SaveOne does to the variables, with the list in its new state.
LEMMA SaveOneType ==
  ASSUME TypeOK, NEW w \in Processes, NEW n \in Names, SaveOne(w, n),
         list' \in [Processes -> [Names -> Records]]
  PROVE  /\ rows' \in [Names -> Records]
         /\ pc' \in [Processes -> Places]
         /\ subject' \in [Processes -> Names \cup {NoName}]
         /\ excused' \in [Processes -> SUBSET Names]
         /\ promised' \in [Processes -> Records]
<1>1. CASE /\ rows' = [rows EXCEPT ![n] = list'[w][n]]
           /\ Written(w, excused[w] \ {n})
           /\ UNCHANGED <<pc, subject>>
  <2>1. excused[w] \ {n} \in SUBSET Names
    BY DEF TypeOK
  <2> QED BY <1>1, <2>1, WrittenType DEF TypeOK
<1>2. CASE /\ Become(w, "inserting")
           /\ subject' = [subject EXCEPT ![w] = n]
           /\ excused' = [excused EXCEPT ![w] = @ \cup {n}]
           /\ UNCHANGED <<rows, promised>>
  BY <1>2 DEF TypeOK, Become, Places
<1> QED BY <1>1, <1>2 DEF SaveOne

LEMMA UnsavedType ==
  ASSUME TypeOK, NEW w \in Processes, NEW names \in SUBSET Names, Unsaved(w, names)
  PROVE  /\ rows' = rows /\ pc' = pc /\ subject' = subject /\ promised' = promised
         /\ excused' \in [Processes -> SUBSET Names]
  BY DEF TypeOK, Unsaved

LEMMA OutcomeType == \A w : Outcome(w) \subseteq BOOLEAN
  BY DEF Outcome

LEMMA CreateRowType ==
  ASSUME TypeOK, NEW w \in Processes, NEW done \in Outcome(w), CreateRow(step[w], done)
  PROVE  made' \in BOOLEAN /\ frame' \in [Rows -> Frames \cup {NoFrame}] /\ cut' \in SUBSET Rows
<1>1. done \in BOOLEAN /\ Missing \subseteq Rows
  BY OutcomeType DEF Missing
<1>2. CASE step[w] = 0
  BY <1>1, <1>2 DEF CreateRow, TypeOK
<1>3. CASE step[w] # 0
  BY <1>1, <1>3, DefaultFrameType DEF CreateRow, TypeOK
<1> QED BY <1>2, <1>3

LEMMA StartStepType ==
  ASSUME TypeOK, NEW w \in Processes, StartStep(w)
  PROVE  TypeOK'
<1>1. CASE Start(w)
  BY <1>1, BeginType DEF Start, TypeOK, tableVars, Records
<1>2. CASE CreateFrame(w)
  <2>1. PICK done \in Outcome(w) : CreateRow(step[w], done)
    BY <1>2 DEF CreateFrame
  <2>2. made' \in BOOLEAN /\ frame' \in [Rows -> Frames \cup {NoFrame}] /\ cut' \in SUBSET Rows
    BY <2>1, CreateRowType
  <2>3. step' \in [Processes -> 0 .. FrameRows] /\ pc' \in [Processes -> Places]
    <3>1. CASE step[w] < FrameRows
      <4>1. step[w] + 1 \in 0 .. FrameRows
        BY <3>1, WindowsAssumption DEF TypeOK
      <4> QED BY <1>2, <3>1, <4>1 DEF CreateFrame, TypeOK
    <3>2. CASE ~(step[w] < FrameRows)
      <4>1. 0 \in 0 .. FrameRows
        BY WindowsAssumption
      <4> QED BY <1>2, <3>2, <4>1 DEF CreateFrame, TypeOK, Become, Places
    <3> QED BY <3>1, <3>2
  <2> QED BY <1>2, <2>2, <2>3 DEF CreateFrame, TypeOK, ownVars
<1>3. CASE Load(w)
  <2>1. PICK done \in Outcome(w), on \in BOOLEAN :
          /\ list' = [list EXCEPT ![w] = IF done THEN rows ELSE EmptyList]
          /\ excused' = [excused EXCEPT ![w] = IF done THEN {} ELSE Names]
          /\ auto' = [auto EXCEPT ![w] = on]
    BY <1>3 DEF Load
  <2>2. list' \in [Processes -> [Names -> Records]]
    BY <2>1 DEF TypeOK, EmptyList, Records
  <2>3. excused' \in [Processes -> SUBSET Names] /\ auto' \in [Processes -> BOOLEAN]
    BY <2>1 DEF TypeOK
  <2>4. tabs' \in [Processes -> SUBSET (Processes \X Names)]
    BY <1>3 DEF Load, TypeOK
  <2>5. /\ pc' \in [Processes -> Places]
        /\ subject' \in [Processes -> Names \cup {NoName}] /\ promised' \in [Processes -> Records]
    BY <1>3 DEF Load, TypeOK, Become, Places, Records
  <2> QED BY <1>3, <2>2, <2>3, <2>4, <2>5 DEF Load, TypeOK, tableVars
<1> QED BY <1>1, <1>2, <1>3 DEF StartStep

LEMMA SessionStepType ==
  ASSUME TypeOK, NEW w \in Processes, SessionStep(w)
  PROVE  TypeOK'
<1>1. ASSUME NEW n \in Names, NEW c \in Contents, Put(w, n, c) PROVE TypeOK'
  <2>1. list' \in [Processes -> [Names -> Records]]
    BY <1>1 DEF Put, TypeOK, Records
  <2>2. SaveOne(w, n) \/ Unsaved(w, {n})
    BY <1>1 DEF Put
  <2> QED BY <1>1, <2>1, <2>2, SaveOneType, UnsavedType DEF Put, TypeOK
<1>2. ASSUME NEW n \in Names, NEW c \in Contents, Login(w, n, c) PROVE TypeOK'
  <2>1. list' \in [Processes -> [Names -> Records]]
    BY <1>2 DEF Login, TypeOK, Records
  <2> QED BY <1>2, <2>1, UnsavedType DEF Login, TypeOK
<1>3. ASSUME NEW n \in Names, Remember(w, n) PROVE TypeOK'
  <2>1. list' \in [Processes -> [Names -> Records]]
    BY <1>3 DEF Remember, TypeOK
  <2> QED BY <1>3, <2>1, SaveOneType DEF Remember, TypeOK
<1>4. ASSUME NEW n \in Names, Delete(w, n) PROVE TypeOK'
  <2>1. list' \in [Processes -> [Names -> Records]]
    BY <1>4 DEF Delete, TypeOK, Records
  <2>2. CASE ~auto[w]
    BY <1>4, <2>1, <2>2, UnsavedType DEF Delete, TypeOK
  <2>3. CASE auto[w]
    <3>1. PICK done \in Outcome(w) :
            /\ rows' = IF done THEN [rows EXCEPT ![n] = NoRecord] ELSE rows
            /\ Written(w, IF done THEN excused[w] \ {n} ELSE excused[w] \cup {n})
      BY <1>4, <2>3 DEF Delete
    <3>2. (IF done THEN excused[w] \ {n} ELSE excused[w] \cup {n}) \in SUBSET Names
      BY DEF TypeOK
    <3>3. excused' \in [Processes -> SUBSET Names] /\ promised' \in [Processes -> Records]
      BY <3>1, <3>2, WrittenType
    <3>4. rows' \in [Names -> Records]
      BY <3>1 DEF TypeOK, Records
    <3> QED BY <1>4, <2>1, <2>3, <3>3, <3>4 DEF Delete, TypeOK
  <2> QED BY <2>2, <2>3
<1>5. ASSUME NEW n \in Names, NEW new \in Names, Rename(w, n, new) PROVE TypeOK'
  <2>1. list' \in [Processes -> [Names -> Records]]
    BY <1>5 DEF Rename, TypeOK, Records
  <2>2. CASE ~auto[w]
    BY <1>5, <2>1, <2>2, UnsavedType DEF Rename, TypeOK
  <2>3. CASE auto[w]
    <3>1. (excused[w] \ {n, new}) \cup (IF n \in excused[w] THEN {new} ELSE {}) \in SUBSET Names
      BY DEF TypeOK
    <3>2. excused' \in [Processes -> SUBSET Names] /\ promised' \in [Processes -> Records]
      BY <1>5, <2>3, <3>1, WrittenType DEF Rename
    <3>3. rows' \in [Names -> Records]
      BY <1>5, <2>3 DEF Rename, TypeOK, Records
    <3> QED BY <1>5, <2>1, <2>3, <3>2, <3>3 DEF Rename, TypeOK
  <2> QED BY <2>2, <2>3
<1>6. CASE InsertOne(w)
  <2>1. PICK done \in Outcome(w) :
          LET n == subject[w]
              fits == done /\ rows[n] = NoRecord
          IN /\ rows' = IF fits THEN [rows EXCEPT ![n] = list[w][n]] ELSE rows
             /\ Written(w, IF fits THEN excused[w] \ {n} ELSE excused[w])
    BY <1>6 DEF InsertOne
  <2>2. rows' \in [Names -> Records]
    <3>1. rows' = rows \/ rows' = [rows EXCEPT ![subject[w]] = list[w][subject[w]]]
      BY <2>1
    <3>2. subject[w] \in Names => list[w][subject[w]] \in Records
      BY DEF TypeOK
    <3> QED BY <3>1, <3>2 DEF TypeOK
  <2>3. PICK own \in SUBSET Names : Written(w, own)
    <3>1. excused[w] \in SUBSET Names /\ excused[w] \ {subject[w]} \in SUBSET Names
      BY DEF TypeOK
    <3> QED BY <2>1, <3>1, Zenon
  <2>4. excused' \in [Processes -> SUBSET Names] /\ promised' \in [Processes -> Records]
    BY <2>3, WrittenType
  <2>5. pc' \in [Processes -> Places] /\ subject' \in [Processes -> Names \cup {NoName}]
    BY <1>6 DEF InsertOne, TypeOK, Become, Places
  <2> QED BY <1>6, <2>2, <2>4, <2>5 DEF InsertOne, TypeOK
<1>7. CASE ToggleAutoSave(w)
  BY <1>7 DEF ToggleAutoSave, TypeOK, tableVars, historyVars
<1> QED BY <1>1, <1>2, <1>3, <1>4, <1>5, <1>6, <1>7 DEF SessionStep

LEMMA TabStepType ==
  ASSUME TypeOK, NEW w \in Processes, TabStep(w)
  PROVE  TypeOK'
<1>1. ASSUME NEW n \in Names, OpenTab(w, n) PROVE TypeOK'
  BY <1>1 DEF OpenTab, TypeOK, tableVars, historyVars
<1>2. ASSUME NEW child, CloseTab(w, child) PROVE TypeOK'
  BY <1>2 DEF CloseTab, Killed, TypeOK, tableVars, historyVars
<1>3. ASSUME NEW v \in Processes, NEW n \in Names, NewWindow(w, v, n) PROVE TypeOK'
  <2>1. (IF n \in excused[w] THEN NoRecord ELSE list[w][n]) \in Records
    BY DEF TypeOK, Records
  <2> QED BY <1>3, <2>1, BeginType DEF NewWindow, TypeOK, tableVars
<1>4. ASSUME NEW v \in Processes, CopyOfItself(w, v) PROVE TypeOK'
  BY <1>4 DEF CopyOfItself, Become, Places, TypeOK, tableVars
<1> QED BY <1>1, <1>2, <1>3, <1>4 DEF TabStep

LEMMA EndedType ==
  ASSUME TypeOK, NEW w \in Processes, Ended(w)
  PROVE  /\ pc' \in [Processes -> Places]
         /\ step' \in [Processes -> 0 .. FrameRows] /\ shape' \in [Processes -> Frames \cup {NoFrame}]
         /\ list' \in [Processes -> [Names -> Records]]
         /\ auto' \in [Processes -> BOOLEAN]
         /\ subject' \in [Processes -> Names \cup {NoName}]
         /\ excused' \in [Processes -> SUBSET Names]
         /\ promised' \in [Processes -> Records]
<1>1. 0 \in 0 .. FrameRows
  BY WindowsAssumption
<1> QED BY <1>1 DEF TypeOK, Ended, Become, Places, EmptyList, Records

LEMMA EndStepType ==
  ASSUME TypeOK, NEW w \in Processes, EndStep(w)
  PROVE  TypeOK'
<1>1. ASSUME NEW f \in Frames, BeginClose(w, f) PROVE TypeOK'
  <2>1. 1 \in 0 .. FrameRows
    BY WindowsAssumption
  <2> QED BY <1>1, <2>1 DEF BeginClose, Become, Places, TypeOK, tableVars, ownVars
<1>2. CASE SaveFrame(w)
  <2>1. /\ frame' \in [Rows -> Frames \cup {NoFrame}]
        /\ kept' \in Frames \cup {NoFrame} /\ cut' \in SUBSET Rows
    BY <1>2 DEF SaveFrame, TypeOK
  <2>2. CASE step[w] < FrameRows
    <3>1. step[w] + 1 \in 0 .. FrameRows
      BY <2>2, WindowsAssumption DEF TypeOK
    <3> QED BY <1>2, <2>1, <2>2, <3>1 DEF SaveFrame, TypeOK, ownVars
  <2>3. CASE ~(step[w] < FrameRows)
    <3>1. Ended(w) /\ Killed(tabs[w])
      BY <1>2, <2>3 DEF SaveFrame
    <3>2. tabs' \in [Processes -> SUBSET (Processes \X Names)]
      BY <3>1 DEF Killed, TypeOK
    <3> QED BY <1>2, <2>1, <3>1, <3>2, EndedType DEF SaveFrame, TypeOK
  <2> QED BY <2>2, <2>3
<1>3. CASE Crash(w)
  <2>1. tabs' \in [Processes -> SUBSET (Processes \X Names)]
    BY <1>3 DEF Crash, TypeOK
  <2>2. kept' \in Frames \cup {NoFrame} /\ cut' \in SUBSET Rows
    BY <1>3 DEF Crash, TypeOK, Missing
  <2>3. Ended(w) /\ UNCHANGED tableVars
    BY <1>3 DEF Crash
  <2> QED BY <2>1, <2>2, <2>3, EndedType DEF TypeOK, tableVars
<1> QED BY <1>1, <1>2, <1>3 DEF EndStep

LEMMA NextType == TypeOK /\ [Next]_vars => TypeOK'
<1> SUFFICES ASSUME TypeOK, [Next]_vars PROVE TypeOK'
  OBVIOUS
<1>1. CASE Next
  BY <1>1, StartStepType, SessionStepType, TabStepType, EndStepType DEF Next
<1>2. CASE UNCHANGED vars
  BY <1>2 DEF vars, tableVars, ownVars, historyVars, TypeOK
<1> QED BY <1>1, <1>2

\* Every variable keeps its type, whatever the processes do.
THEOREM WindowsType == Spec => []TypeOK
  BY InitType, NextType, PTL DEF Spec

-----------------------------------------------------------------------------
(* The lists and the user table.                                           *)
(***************************************************************************)
\* What a window was promised is in the table until it has loaded.
PromisesHold ==
  \A w \in Processes : promised[w] # NoRecord =>
    /\ subject[w] \in Names /\ pc[w] \in {"creating", "loading"}
    /\ rows[subject[w]] = promised[w]

RowsInv == RowsAgree /\ PromisesHold

LEMMA InitRows == Init => RowsInv
  BY DEF Init, RowsInv, RowsAgree, PromisesHold, Loaded

\* A statement of w: what it leaves w with has to agree, and nobody else has done
\* anything.
LEMMA WrittenRows ==
  ASSUME TypeOK, RowsInv, NEW w \in Processes, NEW own \in SUBSET Names, Written(w, own),
         pc[w] \in {"up", "inserting"},
         \A v \in Processes \ {w} :
           list'[v] = list[v] /\ pc'[v] = pc[v] /\ subject'[v] = subject[v],
         \A n \in Names \ own : list'[w][n] = rows'[n]
  PROVE  RowsInv'
<1>1. RowsAgree'
  <2> SUFFICES ASSUME NEW v \in Processes, Loaded(v)', NEW n \in Names \ excused'[v]
               PROVE  list'[v][n] = rows'[n]
    BY DEF RowsAgree
  <2>1. CASE v = w
    BY <2>1 DEF Written, TypeOK
  <2>2. CASE v # w
    <3>1. Loaded(v) /\ list'[v] = list[v]
      BY <2>2 DEF Loaded
    <3>2. n \notin excused[v] /\ rows'[n] = rows[n]
      BY <2>2 DEF Written, TypeOK
    <3> QED BY <3>1, <3>2 DEF RowsInv, RowsAgree
  <2> QED BY <2>1, <2>2
<1>2. PromisesHold'
  <2> SUFFICES ASSUME NEW v \in Processes, promised'[v] # NoRecord
               PROVE  /\ subject'[v] \in Names /\ pc'[v] \in {"creating", "loading"}
                      /\ rows'[subject'[v]] = promised'[v]
    BY DEF PromisesHold
  <2>1. /\ promised'[v] = promised[v]
        /\ subject[v] \notin {n \in Names : rows'[n] # rows[n]}
    BY DEF Written, TypeOK
  <2>2. /\ subject[v] \in Names /\ pc[v] \in {"creating", "loading"}
        /\ rows[subject[v]] = promised[v]
    BY <2>1 DEF RowsInv, PromisesHold
  <2>3. v # w
    BY <2>2
  <2> QED BY <2>1, <2>2, <2>3
<1> QED BY <1>1, <1>2 DEF RowsInv

\* w changes its list at the names that it is excused for, and no row.
LEMMA UnwrittenRows ==
  ASSUME TypeOK, RowsInv, NEW w \in Processes, NEW names \in SUBSET Names,
         excused' = [excused EXCEPT ![w] = @ \cup names], UNCHANGED <<rows, promised>>,
         pc[w] = "up", \A n \in Names \ names : list'[w][n] = list[w][n],
         \A v \in Processes \ {w} :
           list'[v] = list[v] /\ pc'[v] = pc[v] /\ subject'[v] = subject[v]
  PROVE  RowsInv'
<1>1. RowsAgree'
  <2> SUFFICES ASSUME NEW v \in Processes, Loaded(v)', NEW n \in Names \ excused'[v]
               PROVE  list'[v][n] = rows'[n]
    BY DEF RowsAgree
  <2>1. Loaded(v) /\ n \notin excused[v] /\ list'[v][n] = list[v][n]
    BY DEF Loaded, TypeOK
  <2> QED BY <2>1 DEF RowsInv, RowsAgree
<1>2. PromisesHold'
  BY DEF RowsInv, PromisesHold
<1> QED BY <1>1, <1>2 DEF RowsInv

LEMMA UnsavedRows ==
  ASSUME TypeOK, RowsInv, NEW w \in Processes, NEW n \in Names, Unsaved(w, {n}), pc[w] = "up",
         \A v \in Processes \ {w} : list'[v] = list[v],
         \A m \in Names \ {n} : list'[w][m] = list[w][m]
  PROVE  RowsInv'
<1>1. {n} \in SUBSET Names
  OBVIOUS
<1>2. /\ excused' = [excused EXCEPT ![w] = @ \cup {n}] /\ UNCHANGED <<rows, promised>>
      /\ \A v \in Processes \ {w} :
           list'[v] = list[v] /\ pc'[v] = pc[v] /\ subject'[v] = subject[v]
  BY DEF Unsaved
<1> QED BY <1>1, <1>2, UnwrittenRows

\* SaveOne, after a change of the list at n only.
LEMMA SaveOneRows ==
  ASSUME TypeOK, RowsInv, NEW w \in Processes, NEW n \in Names, SaveOne(w, n), pc[w] = "up",
         \A v \in Processes \ {w} : list'[v] = list[v],
         \A m \in Names \ {n} : list'[w][m] = list[w][m]
  PROVE  RowsInv'
<1>1. CASE /\ rows' = [rows EXCEPT ![n] = list'[w][n]]
           /\ Written(w, excused[w] \ {n})
           /\ UNCHANGED <<pc, subject>>
  <2>1. excused[w] \ {n} \in SUBSET Names
    BY DEF TypeOK
  <2>2. ASSUME NEW m \in Names \ (excused[w] \ {n}) PROVE list'[w][m] = rows'[m]
    <3>1. CASE m = n
      BY <1>1, <3>1 DEF TypeOK
    <3>2. CASE m # n
      <4>1. list[w][m] = rows[m]
        BY <3>2 DEF RowsInv, RowsAgree, Loaded
      <4> QED BY <1>1, <3>2, <4>1 DEF TypeOK
    <3> QED BY <3>1, <3>2
  <2> QED BY <1>1, <2>1, <2>2, WrittenRows
<1>2. CASE /\ Become(w, "inserting")
           /\ subject' = [subject EXCEPT ![w] = n]
           /\ excused' = [excused EXCEPT ![w] = @ \cup {n}]
           /\ UNCHANGED <<rows, promised>>
  <2>1. \A v \in Processes \ {w} : pc'[v] = pc[v] /\ subject'[v] = subject[v]
    BY <1>2 DEF Become, TypeOK
  <2>2. \A v \in Processes \ {w} : list'[v] = list[v] /\ pc'[v] = pc[v] /\ subject'[v] = subject[v]
    BY <2>1
  <2>3. {n} \in SUBSET Names
    OBVIOUS
  <2> QED BY <1>2, <2>2, <2>3, UnwrittenRows
<1> QED BY <1>1, <1>2 DEF SaveOne

\* A process that loads nothing, writes nothing and shows what it did before.
LEMMA QuietRows ==
  ASSUME RowsInv, UNCHANGED <<rows, list, excused, promised, subject>>,
         \A w \in Processes :
           /\ Loaded(w)' => Loaded(w)
           /\ pc[w] \in {"creating", "loading"} => pc'[w] \in {"creating", "loading"}
  PROVE  RowsInv'
  BY DEF RowsInv, RowsAgree, PromisesHold, Loaded

\* A process starts, with a promise that the table keeps.
LEMMA BeginRows ==
  ASSUME TypeOK, RowsInv, NEW w \in Processes, NEW name, NEW content,
         Begin(w, name, content), UNCHANGED <<rows, list, excused>>,
         content # NoRecord => name \in Names /\ rows[name] = content
  PROVE  RowsInv'
<1>1. RowsAgree'
  <2> SUFFICES ASSUME NEW v \in Processes, Loaded(v)' PROVE Loaded(v)
    BY DEF RowsInv, RowsAgree
  <2> QED BY BeginPlaces DEF Begin, Loaded, TypeOK
<1>2. PromisesHold'
  <2> SUFFICES ASSUME NEW v \in Processes, promised'[v] # NoRecord
               PROVE  /\ subject'[v] \in Names /\ pc'[v] \in {"creating", "loading"}
                      /\ rows'[subject'[v]] = promised'[v]
    BY DEF PromisesHold
  <2>1. CASE v = w
    BY <2>1, BeginPlaces DEF Begin, TypeOK
  <2>2. CASE v # w
    BY <2>2, BeginPlaces DEF Begin, TypeOK, RowsInv, PromisesHold
  <2> QED BY <2>1, <2>2
<1> QED BY <1>1, <1>2 DEF RowsInv

LEMMA EndedRows ==
  ASSUME TypeOK, RowsInv, NEW w \in Processes, Ended(w), UNCHANGED rows
  PROVE  RowsInv'
<1>1. RowsAgree'
  <2> SUFFICES ASSUME NEW v \in Processes, Loaded(v)'
               PROVE  Loaded(v) /\ list'[v] = list[v] /\ excused'[v] = excused[v]
    BY DEF RowsInv, RowsAgree
  <2>1. v # w
    BY DEF Ended, Become, Loaded, TypeOK
  <2> QED BY <2>1 DEF Ended, Become, Loaded, TypeOK
<1>2. PromisesHold'
  BY DEF Ended, Become, TypeOK, RowsInv, PromisesHold
<1> QED BY <1>1, <1>2 DEF RowsInv

LEMMA StartStepRows ==
  ASSUME TypeOK, RowsInv, NEW w \in Processes, StartStep(w)
  PROVE  RowsInv'
<1>1. CASE Start(w)
  BY <1>1, BeginRows DEF Start, tableVars
<1>2. CASE CreateFrame(w)
  BY <1>2, QuietRows DEF CreateFrame, Become, Loaded, TypeOK, ownVars, historyVars
<1>3. CASE Load(w)
  <2>1. PICK done \in Outcome(w) :
          /\ list' = [list EXCEPT ![w] = IF done THEN rows ELSE EmptyList]
          /\ excused' = [excused EXCEPT ![w] = IF done THEN {} ELSE Names]
    BY <1>3 DEF Load
  <2>2. RowsAgree'
    <3> SUFFICES ASSUME NEW v \in Processes, Loaded(v)', NEW n \in Names \ excused'[v]
                 PROVE  list'[v][n] = rows'[n]
      BY DEF RowsAgree
    <3>1. CASE v = w
      BY <1>3, <2>1, <3>1 DEF Load, TypeOK, tableVars
    <3>2. CASE v # w
      BY <1>3, <2>1, <3>2 DEF Load, Become, Loaded, TypeOK, tableVars, RowsInv, RowsAgree
    <3> QED BY <3>1, <3>2
  <2>3. PromisesHold'
    BY <1>3 DEF Load, Become, TypeOK, tableVars, RowsInv, PromisesHold
  <2> QED BY <2>2, <2>3 DEF RowsInv
<1> QED BY <1>1, <1>2, <1>3 DEF StartStep

LEMMA SessionStepRows ==
  ASSUME TypeOK, RowsInv, NEW w \in Processes, SessionStep(w)
  PROVE  RowsInv'
<1>1. ASSUME NEW n \in Names, NEW c \in Contents, Put(w, n, c) PROVE RowsInv'
  <2>1. /\ pc[w] = "up" /\ \A v \in Processes \ {w} : list'[v] = list[v]
        /\ \A m \in Names \ {n} : list'[w][m] = list[w][m]
    BY <1>1 DEF Put, TypeOK
  <2>2. CASE SaveOne(w, n)
    BY <2>1, <2>2, SaveOneRows
  <2>3. CASE Unsaved(w, {n})
    BY <2>1, <2>3, UnsavedRows
  <2> QED BY <1>1, <2>2, <2>3 DEF Put
<1>2. ASSUME NEW n \in Names, NEW c \in Contents, Login(w, n, c) PROVE RowsInv'
  <2>1. /\ pc[w] = "up" /\ \A v \in Processes \ {w} : list'[v] = list[v]
        /\ \A m \in Names \ {n} : list'[w][m] = list[w][m]
    BY <1>2 DEF Login, TypeOK
  <2> QED BY <1>2, <2>1, UnsavedRows DEF Login
<1>3. ASSUME NEW n \in Names, Remember(w, n) PROVE RowsInv'
  <2>1. SaveOne(w, n) /\ pc[w] = "up" /\ list' = list
    BY <1>3 DEF Remember
  <2> QED BY <2>1, SaveOneRows
<1>4. ASSUME NEW n \in Names, Delete(w, n) PROVE RowsInv'
  <2>1. /\ pc[w] = "up" /\ \A v \in Processes \ {w} : list'[v] = list[v]
        /\ list'[w] = [list[w] EXCEPT ![n] = NoRecord]
    BY <1>4 DEF Delete, TypeOK
  <2>2. CASE ~auto[w]
    <3>1. Unsaved(w, {n}) /\ \A m \in Names \ {n} : list'[w][m] = list[w][m]
      BY <1>4, <2>1, <2>2 DEF Delete, TypeOK
    <3> QED BY <2>1, <3>1, UnsavedRows
  <2>3. CASE auto[w]
    <3>1. PICK done \in Outcome(w) :
            /\ rows' = IF done THEN [rows EXCEPT ![n] = NoRecord] ELSE rows
            /\ Written(w, IF done THEN excused[w] \ {n} ELSE excused[w] \cup {n})
      BY <1>4, <2>3 DEF Delete
    <3>2. pc' = pc /\ subject' = subject
      BY <1>4, <2>3 DEF Delete
    <3>3. \A m \in Names \ excused[w] : list[w][m] = rows[m]
      BY <2>1 DEF RowsInv, RowsAgree, Loaded
    <3>4. CASE done
      <4>1. excused[w] \ {n} \in SUBSET Names
        BY DEF TypeOK
      <4>2. \A m \in Names \ (excused[w] \ {n}) : list'[w][m] = rows'[m]
        BY <2>1, <3>1, <3>3, <3>4 DEF TypeOK
      <4>3. Written(w, excused[w] \ {n})
        BY <3>1, <3>4
      <4> QED BY <2>1, <3>2, <4>1, <4>2, <4>3, WrittenRows
    <3>5. CASE ~done
      <4>1. excused[w] \cup {n} \in SUBSET Names
        BY DEF TypeOK
      <4>2. \A m \in Names \ (excused[w] \cup {n}) : list'[w][m] = rows'[m]
        BY <2>1, <3>1, <3>3, <3>5 DEF TypeOK
      <4>3. Written(w, excused[w] \cup {n})
        BY <3>1, <3>5
      <4> QED BY <2>1, <3>2, <4>1, <4>2, <4>3, WrittenRows
    <3> QED BY <3>4, <3>5
  <2> QED BY <2>2, <2>3
<1>5. ASSUME NEW n \in Names, NEW new \in Names, Rename(w, n, new) PROVE RowsInv'
  <2> DEFINE own == (excused[w] \ {n, new}) \cup (IF n \in excused[w] THEN {new} ELSE {})
  <2>1. /\ pc[w] = "up" /\ \A v \in Processes \ {w} : list'[v] = list[v]
        /\ list'[w] = [list[w] EXCEPT ![new] = list[w][n], ![n] = NoRecord]
        /\ n # new
    BY <1>5 DEF Rename, TypeOK
  <2>2. CASE ~auto[w]
    <3>1. \A m \in Names \ {n, new} : list'[w][m] = list[w][m]
      BY <2>1 DEF TypeOK
    <3>2. Unsaved(w, {n, new}) /\ {n, new} \in SUBSET Names
      BY <1>5, <2>2 DEF Rename
    <3> QED BY <2>1, <3>1, <3>2, UnwrittenRows DEF Unsaved
  <2>3. CASE auto[w]
    <3>1. /\ rows' = [rows EXCEPT ![new] = rows[n], ![n] = NoRecord]
          /\ Written(w, own) /\ pc' = pc /\ subject' = subject
      BY <1>5, <2>3 DEF Rename
    <3>2. own \in SUBSET Names
      BY DEF TypeOK
    <3>3. ASSUME NEW m \in Names \ own PROVE list'[w][m] = rows'[m]
      <4>1. \A k \in Names \ excused[w] : list[w][k] = rows[k]
        BY <2>1 DEF RowsInv, RowsAgree, Loaded
      <4>2. CASE m = n
        BY <2>1, <3>1, <4>2 DEF TypeOK
      <4>3. CASE m = new
        <5>1. n \notin excused[w]
          BY <4>3
        <5>2. list[w][n] = rows[n]
          BY <4>1, <5>1
        <5> QED BY <2>1, <3>1, <4>3, <5>2 DEF TypeOK
      <4>4. CASE m \notin {n, new}
        <5>1. list[w][m] = rows[m]
          BY <4>1, <4>4
        <5> QED BY <2>1, <3>1, <4>4, <5>1 DEF TypeOK
      <4> QED BY <4>2, <4>3, <4>4
    <3> HIDE DEF own
    <3> QED BY <2>1, <3>1, <3>2, <3>3, WrittenRows
  <2> QED BY <2>2, <2>3
<1>6. CASE InsertOne(w)
  <2> DEFINE fits(done) == done /\ rows[subject[w]] = NoRecord
  <2>1. PICK done \in Outcome(w) :
          /\ rows' = IF fits(done) THEN [rows EXCEPT ![subject[w]] = list[w][subject[w]]] ELSE rows
          /\ Written(w, IF fits(done) THEN excused[w] \ {subject[w]} ELSE excused[w])
    BY <1>6 DEF InsertOne
  <2>2. /\ pc[w] = "inserting" /\ list' = list
        /\ \A v \in Processes \ {w} : pc'[v] = pc[v] /\ subject'[v] = subject[v]
    BY <1>6 DEF InsertOne, Become, TypeOK
  <2>3. \A m \in Names \ excused[w] : list[w][m] = rows[m]
    BY <2>2 DEF RowsInv, RowsAgree, Loaded
  <2>4. CASE fits(done)
    <3>1. excused[w] \ {subject[w]} \in SUBSET Names
      BY DEF TypeOK
    <3>2. \A m \in Names \ (excused[w] \ {subject[w]}) : list'[w][m] = rows'[m]
      BY <2>1, <2>2, <2>3, <2>4 DEF TypeOK
    <3>3. Written(w, excused[w] \ {subject[w]})
      BY <2>1, <2>4
    <3> QED BY <2>2, <3>1, <3>2, <3>3, WrittenRows
  <2>5. CASE ~fits(done)
    <3>1. Written(w, excused[w]) /\ rows' = rows
      BY <2>1, <2>5
    <3>2. excused[w] \in SUBSET Names
      BY DEF TypeOK
    <3> QED BY <2>2, <2>3, <3>1, <3>2, WrittenRows
  <2> QED BY <2>4, <2>5
<1>7. CASE ToggleAutoSave(w)
  BY <1>7, QuietRows DEF ToggleAutoSave, Loaded, tableVars, historyVars
<1> QED BY <1>1, <1>2, <1>3, <1>4, <1>5, <1>6, <1>7 DEF SessionStep

LEMMA TabStepRows ==
  ASSUME TypeOK, RowsInv, NEW w \in Processes, TabStep(w)
  PROVE  RowsInv'
<1>1. ASSUME NEW n \in Names, OpenTab(w, n) PROVE RowsInv'
  BY <1>1, QuietRows DEF OpenTab, Loaded, tableVars, historyVars
<1>2. ASSUME NEW child, CloseTab(w, child) PROVE RowsInv'
  BY <1>2, QuietRows DEF CloseTab, Loaded, tableVars, historyVars
<1>3. ASSUME NEW v \in Processes, NEW n \in Names, NewWindow(w, v, n) PROVE RowsInv'
  <2>1. n \notin excused[w] => rows[n] = list[w][n]
    BY <1>3 DEF NewWindow, RowsInv, RowsAgree, Loaded
  <2> QED BY <1>3, <2>1, BeginRows DEF NewWindow, tableVars
<1>4. ASSUME NEW v \in Processes, CopyOfItself(w, v) PROVE RowsInv'
  <2>1. RowsAgree'
    <3> SUFFICES ASSUME NEW u \in Processes, Loaded(u)', NEW n \in Names \ excused'[u]
                 PROVE  list'[u][n] = rows'[n]
      BY DEF RowsAgree
    <3>1. CASE u = v
      BY <1>4, <3>1 DEF CopyOfItself, TypeOK, tableVars, Loaded, RowsInv, RowsAgree
    <3>2. CASE u # v
      BY <1>4, <3>2 DEF CopyOfItself, Become, TypeOK, tableVars, Loaded, RowsInv, RowsAgree
    <3> QED BY <3>1, <3>2
  <2>2. PromisesHold'
    BY <1>4 DEF CopyOfItself, Become, TypeOK, tableVars, RowsInv, PromisesHold
  <2> QED BY <2>1, <2>2 DEF RowsInv
<1> QED BY <1>1, <1>2, <1>3, <1>4 DEF TabStep

LEMMA EndStepRows ==
  ASSUME TypeOK, RowsInv, NEW w \in Processes, EndStep(w)
  PROVE  RowsInv'
<1>1. ASSUME NEW f \in Frames, BeginClose(w, f) PROVE RowsInv'
  BY <1>1, QuietRows DEF BeginClose, Become, Loaded, TypeOK, tableVars, ownVars
<1>2. CASE SaveFrame(w)
  <2>1. CASE step[w] < FrameRows
    BY <1>2, <2>1, QuietRows DEF SaveFrame, Loaded, ownVars
  <2>2. CASE ~(step[w] < FrameRows)
    BY <1>2, <2>2, EndedRows DEF SaveFrame
  <2> QED BY <2>1, <2>2
<1>3. CASE Crash(w)
  BY <1>3, EndedRows DEF Crash, tableVars
<1> QED BY <1>1, <1>2, <1>3 DEF EndStep

LEMMA NextRows == TypeOK /\ RowsInv /\ [Next]_vars => RowsInv'
<1> SUFFICES ASSUME TypeOK, RowsInv, [Next]_vars PROVE RowsInv'
  OBVIOUS
<1>1. CASE Next
  BY <1>1, StartStepRows, SessionStepRows, TabStepRows, EndStepRows DEF Next
<1>2. CASE UNCHANGED vars
  BY <1>2, QuietRows DEF vars, tableVars, ownVars, historyVars, Loaded
<1> QED BY <1>1, <1>2

THEOREM WindowsRows == Spec => [](TypeOK /\ RowsInv)
  BY InitType, NextType, InitRows, NextRows, PTL DEF Spec

\* Between any two statements of any process, the sessions that a process shows
\* are the rows of the table but for those it is excused for.
THEOREM WindowsAgree == Spec => []RowsAgree
<1>1. RowsInv => RowsAgree
  BY DEF RowsInv
<1> QED BY <1>1, WindowsRows, PTL

\* A window made for a saved session that nobody has written since opens it.
THEOREM WindowsOpenTheirSession == Spec => NewWindowHasItsSession
<1> DEFINE Opens ==
      \A w \in Processes :
        pc[w] = "loading" /\ pc'[w] = "up" /\ promised[w] # NoRecord /\ subject[w] \notin excused'[w]
        => <<w, subject[w]>> \in tabs'[w] /\ list'[w][subject[w]] = promised[w]
<1>1. TypeOK /\ RowsInv /\ [Next]_vars => [Opens]_vars
  <2> SUFFICES ASSUME TypeOK, RowsInv, [Next]_vars, NEW w \in Processes,
                      pc[w] = "loading", pc'[w] = "up", promised[w] # NoRecord,
                      subject[w] \notin excused'[w]
               PROVE  <<w, subject[w]>> \in tabs'[w] /\ list'[w][subject[w]] = promised[w]
    OBVIOUS
  <2>1. Load(w)
    <3>1. PICK v \in Processes : StartStep(v) \/ SessionStep(v) \/ TabStep(v) \/ EndStep(v)
      BY DEF Next, vars, tableVars, ownVars, historyVars
    <3>2. CASE StartStep(v)
      <4>1. CASE Start(v)
        BY <4>1, BeginPlaces DEF Start, Begin, TypeOK
      <4>2. CASE CreateFrame(v)
        <5>1. pc[v] = "creating" /\ (pc' = pc \/ pc' = [pc EXCEPT ![v] = "loading"])
          BY <4>2 DEF CreateFrame, Become
        <5> QED BY <5>1 DEF TypeOK
      <4>3. CASE Load(v)
        <5>1. pc' = [pc EXCEPT ![v] = "up"]
          BY <4>3 DEF Load, Become
        <5> QED BY <4>3, <5>1 DEF TypeOK
      <4> QED BY <3>2, <4>1, <4>2, <4>3 DEF StartStep
    <3>3. CASE SessionStep(v)
      <4>1. pc[v] \in {"up", "inserting"}
        BY <3>3 DEF SessionStep, Put, Login, Remember, Delete, Rename, InsertOne, ToggleAutoSave
      <4>2. pc' = pc \/ \E place : Become(v, place)
        BY <3>3 DEF SessionStep, Put, Login, Remember, Delete, Rename, InsertOne, ToggleAutoSave,
                    SaveOne, Unsaved
      <4> QED BY <4>1, <4>2 DEF Become, TypeOK
    <3>4. CASE TabStep(v)
      BY <3>4 DEF TabStep, OpenTab, CloseTab, NewWindow, CopyOfItself, Begin, Become, TypeOK
    <3>5. CASE EndStep(v)
      BY <3>5 DEF EndStep, BeginClose, SaveFrame, Crash, Ended, Become, TypeOK
    <3> QED BY <3>1, <3>2, <3>3, <3>4, <3>5
  <2>2. subject[w] \in Names /\ rows[subject[w]] = promised[w]
    BY DEF RowsInv, PromisesHold
  <2>3. list'[w] = rows
    BY <2>1, <2>2 DEF Load, TypeOK
  <2>4. <<w, subject[w]>> \in tabs'[w]
    BY <2>1, <2>2, <2>3 DEF Load, TypeOK
  <2> QED BY <2>2, <2>3, <2>4
<1> QED BY <1>1, WindowsRows, PTL DEF Spec, NewWindowHasItsSession

-----------------------------------------------------------------------------
(* The window table.                                                       *)
(***************************************************************************)
Creating(w) == pc[w] = "creating"
Closing(w) == pc[w] = "closing"

\* Only a first start comes before the table, and it writes the rows in order: a row
\* that is missing is still to come or has been left unwritten.  Without a table no
\* row is written, and whoever is past its start was refused the table.
TableInv ==
  /\ \A w \in Processes : pc[w] \notin {"off", "creating"} \/ step[w] # 0 => made \/ cut = Rows
  /\ ~made => (kept = DefaultFrame \/ cut = Rows) /\ \A i \in Rows : frame[i] = NoFrame
  /\ made => \A i \in Rows \ cut : frame[i] = NoFrame =>
       \E w \in Processes : Creating(w) /\ step[w] <= i
  /\ \A w \in Processes : Closing(w) => step[w] \in Rows /\ shape[w] \in Frames

\* What WindowComesBack asks of a row, but for one that is still to come.
RowFits(i) == frame[i] \in {kept, NoFrame} \/ (i \in cut /\ frame[i] = DefaultFrame)

\* As long as something is known of the rows, at most one process is closing, with
\* the known frame; a row that a first start has yet to write gets that frame too.
KeptInv ==
  kept # NoFrame =>
    /\ \A i \in Rows \ cut : frame[i] = NoFrame => kept = DefaultFrame
    /\ \A w \in Processes : Closing(w) =>
         /\ shape[w] = kept
         /\ \A v \in Processes \ {w} : ~Closing(v)
         /\ \A i \in Rows : i < step[w] => RowFits(i)
    /\ (\A w \in Processes : ~Closing(w)) => \A i \in Rows : RowFits(i)

FrameInv == TableInv /\ KeptInv

LEMMA InitFrame == Init => FrameInv
  BY DEF Init, FrameInv, TableInv, KeptInv, RowFits, Creating, Closing

\* A step that leaves the table alone, in which nobody ends a first start or begins
\* or ends a closing.
LEMMA QuietFrame ==
  ASSUME TypeOK, FrameInv, UNCHANGED <<made, frame, step, shape, kept, cut>>,
         \A w \in Processes :
           \/ pc'[w] = pc[w]
           \/ /\ pc[w] \notin {"creating", "closing"} /\ pc'[w] # "closing"
              /\ pc'[w] = "creating" \/ made \/ cut = Rows
  PROVE  FrameInv'
<1>1. \A w \in Processes : (Creating(w) => Creating(w)') /\ (Closing(w)' <=> Closing(w))
  BY DEF Creating, Closing
<1>2. TableInv'
  <2>1. \A w \in Processes : pc'[w] \notin {"off", "creating"} \/ step'[w] # 0 => made' \/ cut' = Rows
    BY DEF FrameInv, TableInv
  <2>2. made' => \A i \in Rows \ cut' : frame'[i] = NoFrame =>
          \E w \in Processes : Creating(w)' /\ step'[w] <= i
    BY <1>1 DEF FrameInv, TableInv
  <2> QED BY <1>1, <2>1, <2>2 DEF FrameInv, TableInv
<1>3. KeptInv'
  BY <1>1 DEF FrameInv, KeptInv, RowFits
<1> QED BY <1>2, <1>3 DEF FrameInv

LEMMA BeginFrame ==
  ASSUME TypeOK, FrameInv, NEW w \in Processes, NEW name, NEW content, Begin(w, name, content),
         UNCHANGED <<made, frame, step, shape, kept, cut>>
  PROVE  FrameInv'
<1>1. /\ pc[w] = "off" /\ pc'[w] \in {"loading", "creating"} /\ (pc'[w] = "loading" => made)
      /\ \A v \in Processes \ {w} : pc'[v] = pc[v]
  BY BeginPlaces DEF Begin, TypeOK
<1> QED BY <1>1, QuietFrame

\* A statement for a row writes that row only, and with the default.
LEMMA CreateRowEffect ==
  ASSUME TypeOK, NEW w \in Processes, NEW done \in Outcome(w), CreateRow(step[w], done)
  PROVE  /\ cut \subseteq cut' /\ (made => made') /\ (made' => made \/ step[w] = 0)
         /\ step[w] = 0 => made' \/ cut' = Rows
         /\ \A i \in Rows : \/ frame'[i] = frame[i] 
                            \/ i = step[w] /\ made /\ frame[i] = NoFrame /\ frame'[i] = DefaultFrame
         /\ step[w] \in Rows /\ made => frame'[step[w]] # NoFrame \/ step[w] \in cut'
<1>1. Missing \subseteq Rows /\ cut \subseteq Rows /\ 0 \notin Rows
  BY DEF Missing, TypeOK, Rows
<1>2. CASE step[w] = 0
  BY <1>1, <1>2 DEF CreateRow
<1>3. CASE step[w] # 0
  <2>1. made' = made /\ cut \subseteq cut'
    BY <1>3 DEF CreateRow
  <2>2. \A i \in Rows : \/ frame'[i] = frame[i]
                        \/ i = step[w] /\ made /\ frame[i] = NoFrame /\ frame'[i] = DefaultFrame
    BY <1>3 DEF CreateRow, Missing, TypeOK
  <2>3. ASSUME step[w] \in Rows, made PROVE frame'[step[w]] # NoFrame \/ step[w] \in cut'
    <3>1. CASE frame[step[w]] # NoFrame
      BY <2>2, <2>3, <3>1
    <3>2. CASE frame[step[w]] = NoFrame
      <4>1. step[w] \in Missing
        BY <2>3, <3>2 DEF Missing
      <4>2. CASE done
        BY <1>3, <4>1, <4>2, <2>3, DefaultFrameType, WindowsAssumption DEF CreateRow, TypeOK
      <4>3. CASE ~done
        BY <1>3, <4>1, <4>3 DEF CreateRow
      <4> QED BY <4>2, <4>3
    <3> QED BY <3>1, <3>2
  <2> QED BY <1>3, <2>1, <2>2, <2>3
<1> QED BY <1>2, <1>3

LEMMA CreateFrameFrame ==
  ASSUME TypeOK, FrameInv, NEW w \in Processes, CreateFrame(w)
  PROVE  FrameInv'
<1> PICK done \in Outcome(w) : CreateRow(step[w], done)
  BY DEF CreateFrame
<1>1. Creating(w) /\ UNCHANGED <<shape, kept>>
  BY DEF CreateFrame, Creating
<1>2. /\ \A v \in Processes \ {w} : pc'[v] = pc[v] /\ step'[v] = step[v]
      /\ \/ step[w] < FrameRows /\ pc'[w] = "creating" /\ step'[w] = step[w] + 1
         \/ step[w] = FrameRows /\ pc'[w] = "loading"
  <2>1. CASE step[w] < FrameRows
    BY <1>1, <2>1 DEF CreateFrame, Creating, TypeOK
  <2>2. CASE ~(step[w] < FrameRows)
    <3>1. step[w] = FrameRows
      <4>1. step[w] \in 0 .. FrameRows
        BY DEF TypeOK
      <4> QED BY <2>2, <4>1, WindowsAssumption
    <3> QED BY <2>2, <3>1 DEF CreateFrame, Become, TypeOK
  <2> QED BY <2>1, <2>2
<1>3. /\ cut \subseteq cut' /\ (made => made') /\ (made' => made \/ step[w] = 0)
      /\ step[w] = 0 => made' \/ cut' = Rows
      /\ \A i \in Rows : \/ frame'[i] = frame[i] 
                         \/ i = step[w] /\ made /\ frame[i] = NoFrame /\ frame'[i] = DefaultFrame
      /\ step[w] \in Rows /\ made => frame'[step[w]] # NoFrame \/ step[w] \in cut'
      /\ cut' \subseteq Rows
  BY CreateRowEffect, CreateRowType
<1>4. \A v \in Processes : (Closing(v)' <=> Closing(v)) /\ (Creating(v)' => Creating(v))
  BY <1>1, <1>2 DEF Closing, Creating
<1>5. TableInv'
  <2>1. \A v \in Processes : Closing(v)' => step'[v] \in Rows /\ shape'[v] \in Frames
    BY <1>1, <1>2, <1>4 DEF FrameInv, TableInv, Closing, Creating
  <2>2. ASSUME made', NEW i \in Rows \ cut', frame'[i] = NoFrame
        PROVE  \E v \in Processes : Creating(v)' /\ step'[v] <= i
    <3>1. frame[i] = NoFrame /\ i \notin cut /\ i \in Rows
      BY <1>3, <2>2, DefaultFrameType, WindowsAssumption
    <3>2. \E v \in Processes : Creating(v) /\ step[v] <= i
      <4>1. CASE made
        BY <2>2, <3>1, <4>1 DEF FrameInv, TableInv
      <4>2. CASE ~made
        <5>1. step[w] = 0
          BY <1>3, <2>2, <4>2
        <5> QED BY <1>1, <5>1 DEF Rows
      <4> QED BY <4>1, <4>2
    <3>3. PICK v \in Processes : Creating(v) /\ step[v] <= i
      BY <3>2
    <3>4. CASE v # w
      BY <1>2, <3>3, <3>4 DEF Creating
    <3>5. CASE v = w
      <4>1. i # step[w]
        <5>1. 0 \notin Rows
          BY DEF Rows
        <5> QED BY <1>3, <2>2, <3>1, <5>1
      <4>2. step[w] < i
        BY <3>3, <3>5, <4>1 DEF Rows, TypeOK
      <4>3. step[w] < FrameRows /\ step[w] + 1 <= i
        BY <4>2, WindowsAssumption DEF Rows, TypeOK
      <4>4. pc'[w] = "creating" /\ step'[w] = step[w] + 1
        BY <1>2, <4>3, WindowsAssumption DEF TypeOK
      <4> QED BY <4>3, <4>4 DEF Creating
    <3> QED BY <3>4, <3>5
  <2>3. made \/ cut = Rows => made' \/ cut' = Rows
    BY <1>3
  <2>4. \A v \in Processes : pc'[v] \notin {"off", "creating"} \/ step'[v] # 0 => made' \/ cut' = Rows
    <3>1. ASSUME NEW v \in Processes \ {w}, pc'[v] \notin {"off", "creating"} \/ step'[v] # 0
          PROVE  made' \/ cut' = Rows
      BY <1>2, <2>3, <3>1 DEF FrameInv, TableInv
    <3>2. made' \/ cut' = Rows
      <4>1. CASE step[w] = 0
        BY <1>3, <4>1
      <4>2. CASE step[w] # 0
        BY <2>3, <4>2 DEF FrameInv, TableInv
      <4> QED BY <4>1, <4>2
    <3> QED BY <3>1, <3>2
  <2>5. ~made' => (kept' = DefaultFrame \/ cut' = Rows) /\ \A i \in Rows : frame'[i] = NoFrame
    BY <1>1, <1>3 DEF FrameInv, TableInv
  <2> QED BY <2>1, <2>2, <2>4, <2>5 DEF TableInv
<1>6. KeptInv'
  <2> SUFFICES ASSUME kept # NoFrame PROVE KeptInv'
    BY <1>1 DEF KeptInv
  <2>1. ASSUME NEW i \in Rows, RowFits(i) PROVE RowFits(i)'
    <3>1. CASE frame'[i] = frame[i]
      BY <1>1, <1>3, <2>1, <3>1 DEF RowFits
    <3>2. CASE frame[i] = NoFrame /\ frame'[i] = DefaultFrame
      BY <1>1, <1>3, <3>2 DEF RowFits, FrameInv, KeptInv
    <3> QED BY <1>3, <3>1, <3>2
  <2>2. \A i \in Rows \ cut' : frame'[i] = NoFrame => kept' = DefaultFrame
    BY <1>1, <1>3, DefaultFrameType, WindowsAssumption DEF FrameInv, KeptInv
  <2>3. ASSUME NEW v \in Processes, Closing(v)'
        PROVE  /\ shape'[v] = kept'
               /\ \A u \in Processes \ {v} : ~Closing(u)'
               /\ \A i \in Rows : i < step'[v] => RowFits(i)'
    <3>1. Closing(v) /\ v # w
      BY <1>1, <1>4, <2>3 DEF Closing, Creating
    <3> QED BY <1>1, <1>2, <1>4, <2>1, <3>1 DEF FrameInv, KeptInv
  <2>4. ASSUME \A v \in Processes : ~Closing(v)' PROVE \A i \in Rows : RowFits(i)'
    BY <1>4, <2>1, <2>4 DEF FrameInv, KeptInv
  <2> QED BY <2>2, <2>3, <2>4 DEF KeptInv
<1> QED BY <1>5, <1>6 DEF FrameInv

LEMMA BeginCloseFrame ==
  ASSUME TypeOK, FrameInv, NEW w \in Processes, NEW f \in Frames, BeginClose(w, f)
  PROVE  FrameInv'
<1>1. /\ pc[w] = "up" /\ pc' = [pc EXCEPT ![w] = "closing"]
      /\ step' = [step EXCEPT ![w] = 1] /\ shape' = [shape EXCEPT ![w] = f]
      /\ kept' = (IF Disturbed(w) THEN NoFrame ELSE f) /\ UNCHANGED <<made, frame, cut>>
  BY DEF BeginClose, Become, tableVars
<1>2. made \/ cut = Rows
  BY <1>1 DEF FrameInv, TableInv
<1>3. \A v \in Processes : Creating(v)' <=> Creating(v)
  BY <1>1 DEF Creating, TypeOK
<1>4. \A v \in Processes \ {w} : /\ pc'[v] = pc[v] /\ step'[v] = step[v]
                                 /\ Closing(v)' <=> Closing(v)
  BY <1>1 DEF Closing, TypeOK
<1>5. pc'[w] = "closing" /\ step'[w] = 1 /\ shape'[w] = f /\ 1 \in Rows
  BY <1>1, WindowsAssumption DEF TypeOK, Rows
<1>6. TableInv'
  <2>1. \A i \in Rows : \A v \in Processes :
          Creating(v) /\ step[v] <= i => Creating(v)' /\ step'[v] <= i
    BY <1>1, <1>3, <1>4 DEF Creating
  <2>2. \A v \in Processes : Closing(v)' => step'[v] \in Rows /\ shape'[v] \in Frames
    BY <1>1, <1>4, <1>5 DEF FrameInv, TableInv
  <2>3. made' => \A i \in Rows \ cut' : frame'[i] = NoFrame =>
          \E v \in Processes : Creating(v)' /\ step'[v] <= i
    BY <1>1, <2>1 DEF FrameInv, TableInv
  <2> QED BY <1>1, <1>2, <2>2, <2>3 DEF FrameInv, TableInv
<1>7. KeptInv'
  <2> SUFFICES ASSUME kept' # NoFrame PROVE KeptInv'
    BY DEF KeptInv
  <2>1. kept' = f /\ \A v \in Processes \ {w} : ~Creating(v) /\ ~Closing(v)
    BY <1>1 DEF Disturbed, Creating, Closing
  <2>2. \A v \in Processes \ {w} : ~Creating(v)' /\ ~Closing(v)'
    BY <1>3, <1>4, <2>1
  <2>3. ~Creating(w)' /\ Closing(w)'
    BY <1>5 DEF Creating, Closing
  <2>4. \A i \in Rows : ~(i < step'[w])
    BY <1>5 DEF Rows
  <2>5. \A i \in Rows \ cut : frame[i] # NoFrame
    <3> SUFFICES ASSUME NEW i \in Rows \ cut, frame[i] = NoFrame PROVE FALSE
      OBVIOUS
    <3>1. made
      BY <1>2
    <3>2. PICK v \in Processes : Creating(v)
      BY <3>1 DEF FrameInv, TableInv
    <3> QED BY <1>1, <2>1, <3>2 DEF Creating
  <2> QED BY <1>1, <1>5, <2>1, <2>2, <2>3, <2>4, <2>5 DEF KeptInv
<1> QED BY <1>6, <1>7 DEF FrameInv

\* What the end of w leaves of the processes that write the table.
LEMMA EndedPlaces ==
  ASSUME TypeOK, NEW w \in Processes, Ended(w)
  PROVE  /\ ~Creating(w)' /\ ~Closing(w)' /\ pc'[w] = "off" /\ step'[w] = 0
         /\ \A v \in Processes \ {w} :
              /\ pc'[v] = pc[v] /\ step'[v] = step[v] /\ shape'[v] = shape[v]
              /\ (Creating(v)' <=> Creating(v)) /\ (Closing(v)' <=> Closing(v))
  BY DEF Ended, Become, Creating, Closing, TypeOK

LEMMA SaveFrameFrame ==
  ASSUME TypeOK, FrameInv, NEW w \in Processes, SaveFrame(w)
  PROVE  FrameInv'
<1>1. PICK done \in Outcome(w) :
        /\ frame' = IF done /\ frame[step[w]] # NoFrame
                    THEN [frame EXCEPT ![step[w]] = shape[w]] ELSE frame
        /\ kept' = IF done THEN kept ELSE NoFrame
        /\ cut' = IF frame'[step[w]] = shape[w] THEN cut \ {step[w]} ELSE cut
  BY DEF SaveFrame
<1>2. /\ Closing(w) /\ UNCHANGED made /\ (made \/ cut = Rows)
      /\ step[w] \in Rows /\ shape[w] \in Frames
  BY DEF SaveFrame, FrameInv, TableInv, Closing
<1>3. \A i \in Rows : /\ frame'[i] = NoFrame <=> frame[i] = NoFrame
                      /\ i \in cut /\ frame[i] = NoFrame => i \in cut'
                      /\ i # step[w] => frame'[i] = frame[i] /\ (i \in cut' <=> i \in cut)
  BY <1>1, <1>2, WindowsAssumption DEF TypeOK
<1>4. \A v \in Processes \ {w} :
        /\ pc'[v] = pc[v] /\ step'[v] = step[v] /\ shape'[v] = shape[v]
        /\ (Creating(v)' <=> Creating(v)) /\ (Closing(v)' <=> Closing(v))
  <2>1. CASE step[w] < FrameRows
    BY <2>1 DEF SaveFrame, Creating, Closing, TypeOK
  <2>2. CASE ~(step[w] < FrameRows)
    BY <2>2, EndedPlaces DEF SaveFrame
  <2> QED BY <2>1, <2>2
<1>5. \/ /\ step[w] < FrameRows /\ step'[w] = step[w] + 1
         /\ pc'[w] = "closing" /\ shape'[w] = shape[w]
      \/ /\ step[w] = FrameRows /\ pc'[w] = "off" /\ step'[w] = 0
  <2>1. CASE step[w] < FrameRows
    BY <1>2, <2>1 DEF SaveFrame, Closing, TypeOK
  <2>2. CASE ~(step[w] < FrameRows)
    <3>1. step[w] = FrameRows
      BY <1>2, <2>2, WindowsAssumption DEF Rows
    <3> QED BY <2>2, <3>1, EndedPlaces DEF SaveFrame
  <2> QED BY <2>1, <2>2
<1>6. TableInv'
  <2>1. \A i \in Rows : \A v \in Processes :
          Creating(v) /\ step[v] <= i => Creating(v)' /\ step'[v] <= i
    BY <1>2, <1>4 DEF Creating, Closing
  <2>2. \A v \in Processes : Closing(v)' => step'[v] \in Rows /\ shape'[v] \in Frames
    BY <1>2, <1>4, <1>5, WindowsAssumption DEF FrameInv, TableInv, Closing, Rows
  <2>3. made' => \A i \in Rows \ cut' : frame'[i] = NoFrame =>
          \E v \in Processes : Creating(v)' /\ step'[v] <= i
    BY <1>2, <1>3, <2>1 DEF FrameInv, TableInv
  <2>4. ~made => cut' = Rows /\ \A i \in Rows : frame'[i] = NoFrame
    <3>1. ASSUME ~made PROVE cut = Rows /\ \A i \in Rows : frame[i] = NoFrame
      BY <1>2, <3>1 DEF FrameInv, TableInv
    <3>2. cut' \subseteq Rows
      BY <1>1 DEF TypeOK
    <3> QED BY <1>3, <3>1, <3>2
  <2> QED BY <1>2, <2>2, <2>3, <2>4 DEF TableInv
<1>7. KeptInv'
  <2> SUFFICES ASSUME kept' # NoFrame PROVE KeptInv'
    BY DEF KeptInv
  <2>1. kept' = kept /\ kept # NoFrame /\ shape[w] = kept
    BY <1>1, <1>2 DEF FrameInv, KeptInv
  <2>2. frame'[step[w]] \in {kept', NoFrame}
    BY <1>1, <1>2, <2>1 DEF TypeOK
  <2>3. \A i \in Rows \ cut' : frame'[i] = NoFrame => kept' = DefaultFrame
    BY <1>3, <2>1 DEF FrameInv, KeptInv
  <2>4. \A i \in Rows : i <= step[w] => RowFits(i)'
    <3> SUFFICES ASSUME NEW i \in Rows, i <= step[w] PROVE RowFits(i)'
      OBVIOUS
    <3>1. CASE i = step[w]
      BY <2>2, <3>1 DEF RowFits
    <3>2. CASE i # step[w]
      <4>1. i < step[w]
        BY <1>2, <3>2 DEF Rows
      <4>2. RowFits(i)
        BY <1>2, <2>1, <4>1 DEF FrameInv, KeptInv
      <4> QED BY <1>3, <2>1, <3>2, <4>2 DEF RowFits
    <3> QED BY <3>1, <3>2
  <2>5. \A v \in Processes \ {w} : ~Closing(v)'
    BY <1>2, <1>4, <2>1 DEF FrameInv, KeptInv
  <2>7. CASE step[w] < FrameRows
    <3>1. step'[w] = step[w] + 1 /\ Closing(w)' /\ shape'[w] = kept
      BY <1>5, <2>1, <2>7, WindowsAssumption DEF Closing, TypeOK
    <3>2. \A i \in Rows : i < step'[w] => i <= step[w]
      BY <1>2, <3>1 DEF Rows
    <3> QED BY <2>1, <2>3, <2>4, <2>5, <3>1, <3>2 DEF KeptInv
  <2>8. CASE ~(step[w] < FrameRows)
    <3>1. ~Closing(w)' /\ step[w] = FrameRows
      BY <1>2, <1>5, <2>8 DEF Closing
    <3>2. \A i \in Rows : i <= step[w]
      BY <3>1, WindowsAssumption DEF Rows
    <3> QED BY <2>1, <2>3, <2>4, <2>5, <3>1, <3>2 DEF KeptInv
  <2> QED BY <2>7, <2>8
<1> QED BY <1>6, <1>7 DEF FrameInv

LEMMA CrashFrame ==
  ASSUME TypeOK, FrameInv, NEW w \in Processes, Crash(w)
  PROVE  FrameInv'
<1>1. /\ Ended(w) /\ UNCHANGED <<made, frame>>
      /\ cut' = IF Creating(w) THEN cut \cup Missing ELSE cut
      /\ kept' = IF Closing(w) THEN NoFrame ELSE kept
  BY DEF Crash, Creating, Closing, tableVars
<1>2. cut \subseteq cut' /\ cut' \subseteq Rows
  BY <1>1 DEF Missing, TypeOK
<1>3. TableInv'
  <2>1. ~made => kept' = DefaultFrame \/ cut' = Rows
    BY <1>1, <1>2 DEF FrameInv, TableInv, Closing
  <2>2. ASSUME made, NEW i \in Rows \ cut', frame[i] = NoFrame
        PROVE  \E v \in Processes : Creating(v)' /\ step'[v] <= i
    <3>1. PICK v \in Processes : Creating(v) /\ step[v] <= i
      BY <1>2, <2>2 DEF FrameInv, TableInv
    <3>2. v # w
      BY <1>1, <2>2, <3>1 DEF Missing
    <3> QED BY <1>1, <3>1, <3>2, EndedPlaces
  <2>3. made \/ cut = Rows => made' \/ cut' = Rows
    BY <1>1, <1>2
  <2>4. \A v \in Processes : pc'[v] \notin {"off", "creating"} \/ step'[v] # 0 => made' \/ cut' = Rows
    <3> SUFFICES ASSUME NEW v \in Processes \ {w}, pc'[v] \notin {"off", "creating"} \/ step'[v] # 0
                 PROVE  made' \/ cut' = Rows
      BY <1>1, EndedPlaces
    <3>1. pc'[v] = pc[v] /\ step'[v] = step[v]
      BY <1>1, EndedPlaces
    <3> QED BY <2>3, <3>1 DEF FrameInv, TableInv
  <2>5. \A v \in Processes : Closing(v)' => step'[v] \in Rows /\ shape'[v] \in Frames
    <3> SUFFICES ASSUME NEW v \in Processes, Closing(v)' PROVE step'[v] \in Rows /\ shape'[v] \in Frames
      OBVIOUS
    <3>1. Closing(v) /\ step'[v] = step[v] /\ shape'[v] = shape[v]
      BY <1>1, EndedPlaces
    <3> QED BY <3>1 DEF FrameInv, TableInv
  <2> QED BY <1>1, <2>1, <2>2, <2>4, <2>5 DEF FrameInv, TableInv
<1>4. KeptInv'
  <2> SUFFICES ASSUME kept' # NoFrame PROVE KeptInv'
    BY DEF KeptInv
  <2>1. kept' = kept /\ ~Closing(w)
    BY <1>1
  <2>2. \A i \in Rows : RowFits(i) => RowFits(i)'
    BY <1>1, <1>2, <2>1 DEF RowFits
  <2>3. \A i \in Rows \ cut' : frame'[i] = NoFrame => kept' = DefaultFrame
    BY <1>1, <1>2, <2>1 DEF FrameInv, KeptInv
  <2>4. ASSUME NEW v \in Processes, Closing(v)'
        PROVE  /\ shape'[v] = kept'
               /\ \A u \in Processes \ {v} : ~Closing(u)'
               /\ \A i \in Rows : i < step'[v] => RowFits(i)'
    <3>1. v # w /\ Closing(v) /\ shape'[v] = shape[v] /\ step'[v] = step[v]
      BY <1>1, <2>4, EndedPlaces
    <3>2. \A u \in Processes \ {v} : ~Closing(u)'
      BY <1>1, <2>1, <3>1, EndedPlaces DEF FrameInv, KeptInv
    <3> QED BY <2>1, <2>2, <3>1, <3>2 DEF FrameInv, KeptInv
  <2>5. ASSUME \A v \in Processes : ~Closing(v)' PROVE \A i \in Rows : RowFits(i)'
    <3>1. \A v \in Processes : ~Closing(v)
      BY <1>1, <2>1, <2>5, EndedPlaces
    <3> QED BY <2>1, <2>2, <3>1 DEF FrameInv, KeptInv
  <2> QED BY <2>3, <2>4, <2>5 DEF KeptInv
<1> QED BY <1>3, <1>4 DEF FrameInv

\* Everything else happens in processes that are up, or leads there.
LEMMA NextFrame == TypeOK /\ FrameInv /\ [Next]_vars => FrameInv'
<1> SUFFICES ASSUME TypeOK, FrameInv, [Next]_vars PROVE FrameInv'
  OBVIOUS
<1>1. ASSUME NEW w \in Processes, StartStep(w) PROVE FrameInv'
  <2>1. CASE Start(w)
    BY <2>1, BeginFrame DEF Start, tableVars
  <2>2. CASE CreateFrame(w)
    BY <2>2, CreateFrameFrame
  <2>3. CASE Load(w)
    <3>1. made \/ cut = Rows
      BY <2>3 DEF Load, FrameInv, TableInv
    <3> QED BY <2>3, <3>1, QuietFrame DEF Load, Become, TypeOK, tableVars
  <2> QED BY <1>1, <2>1, <2>2, <2>3 DEF StartStep
<1>2. ASSUME NEW w \in Processes, SessionStep(w) PROVE FrameInv'
  <2>1. /\ pc[w] \in {"up", "inserting"}
        /\ pc' = pc \/ Become(w, "up") \/ Become(w, "inserting")
    BY <1>2 DEF SessionStep, Put, Login, Remember, Delete, Rename, InsertOne, ToggleAutoSave,
                SaveOne, Unsaved
  <2>2. UNCHANGED <<made, frame, step, shape, kept, cut>>
    BY <1>2 DEF SessionStep, Put, Login, Remember, Delete, Rename, InsertOne, ToggleAutoSave,
                tableVars, historyVars
  <2>3. made \/ cut = Rows
    BY <2>1 DEF FrameInv, TableInv
  <2> QED BY <2>1, <2>2, <2>3, QuietFrame DEF Become, TypeOK
<1>3. ASSUME NEW w \in Processes, TabStep(w) PROVE FrameInv'
  <2>1. ASSUME NEW n \in Names, OpenTab(w, n) PROVE FrameInv'
    BY <2>1, QuietFrame DEF OpenTab, tableVars, historyVars
  <2>2. ASSUME NEW child, CloseTab(w, child) PROVE FrameInv'
    BY <2>2, QuietFrame DEF CloseTab, tableVars, historyVars
  <2>3. ASSUME NEW v \in Processes, NEW n \in Names, NewWindow(w, v, n) PROVE FrameInv'
    BY <2>3, BeginFrame DEF NewWindow, tableVars
  <2>4. ASSUME NEW v \in Processes, CopyOfItself(w, v) PROVE FrameInv'
    <3>1. made \/ cut = Rows
      BY <2>4 DEF CopyOfItself, FrameInv, TableInv
    <3> QED BY <2>4, <3>1, QuietFrame DEF CopyOfItself, Become, TypeOK, tableVars
  <2> QED BY <1>3, <2>1, <2>2, <2>3, <2>4 DEF TabStep
<1>4. ASSUME NEW w \in Processes, EndStep(w) PROVE FrameInv'
  BY <1>4, BeginCloseFrame, SaveFrameFrame, CrashFrame DEF EndStep
<1>5. CASE UNCHANGED vars
  BY <1>5, QuietFrame DEF vars, tableVars, ownVars, historyVars
<1> QED BY <1>1, <1>2, <1>3, <1>4, <1>5 DEF Next

\* The window table holds all of the frame of the window that was closed last, but
\* for rows that a first start has left unwritten and no end has saved since.
THEOREM WindowsComeBack == Spec => []WindowComesBack
<1>1. TypeOK /\ FrameInv => WindowComesBack
  <2> SUFFICES ASSUME TypeOK, FrameInv, made, kept # NoFrame,
                      \A w \in Processes : pc[w] \notin {"creating", "closing"},
                      NEW i \in Rows
               PROVE  frame[i] = kept \/ (i \in cut /\ frame[i] \in {NoFrame, DefaultFrame})
    BY DEF WindowComesBack
  <2>1. \A w \in Processes : ~Creating(w) /\ ~Closing(w)
    BY DEF Creating, Closing
  <2>2. RowFits(i)
    BY <2>1 DEF FrameInv, KeptInv
  <2>3. frame[i] = NoFrame => i \in cut
    BY <2>1 DEF FrameInv, TableInv
  <2> QED BY <2>2, <2>3 DEF RowFits
<1> QED BY <1>1, InitType, NextType, InitFrame, NextFrame, PTL DEF Spec

-----------------------------------------------------------------------------
(* SessionStore.                                                           *)
(***************************************************************************)
LEMMA LowestNumber ==
  ASSUME NEW S \in SUBSET Nat, S # {}
  PROVE  \E f \in S : \A g \in S : f <= g
<1> DEFINE R == OpToRel(<, Nat)
<1>1. IsWellFoundedOn(R, Nat)
  BY NatLessThanWellFounded
<1>2. \A x, y \in Nat : x < y => <<x, y>> \in R
  BY DEF OpToRel
<1> HIDE DEF R
<1>3. PICK f \in S : \A g \in S : ~(<<g, f>> \in R)
  BY <1>1, WFMin
<1>4. \A g \in S : f <= g
  <2>1. ASSUME NEW g \in S PROVE ~(g < f)
    BY <1>2, <1>3
  <2> QED BY <2>1
<1> QED BY <1>4

-----------------------------------------------------------------------------
(* Labels and rows.                                                        *)
(***************************************************************************)
LEMMA LabelFacts ==
  /\ NoFolder \notin Labels
  /\ ShellName \in SessionLabels /\ HostLabels \subseteq SessionLabels
  /\ SessionLabels \subseteq Labels /\ FolderLabels \subseteq Labels
<1>1. \A h \in Hosts \cup Folders \cup {"shell"} : h # ""
  BY StoreAssumption
<1>2. \A l \in Labels : \E h \in Hosts \cup Folders \cup {"shell"}, i \in Nat : l = <<h, i>>
  <2>1. 0 .. MaxLabel \subseteq Nat
    OBVIOUS
  <2> QED BY <2>1 DEF Labels, SessionLabels, HostLabels, FolderLabels, ShellName, Label
<1>3. NoFolder \notin Labels
  <2>1. ASSUME NoFolder \in Labels PROVE FALSE
    <3>1. PICK h \in Hosts \cup Folders \cup {"shell"}, i \in Nat : NoFolder = <<h, i>>
      BY <1>2, <2>1
    <3>2. h = ""
      BY <3>1 DEF NoFolder, Label
    <3> QED BY <3>2, <1>1
  <2> QED BY <2>1
<1> QED BY <1>3 DEF Labels, SessionLabels

LEMMA Bounds == MaxRecords \in Nat /\ MaxRecords >= 1 /\ MaxLabel \in Nat /\ NoStruct \notin Structs
<1>1. MaxRecords \in Nat \ {0} /\ MaxLabel \in Nat /\ NoStruct \notin 1 .. MaxRecords
  BY Zenon, StoreAssumption
<1> QED BY <1>1 DEF Structs

LEMMA BlankIsRow == Blank \in TableRows /\ Shaped(Blank)
BY LabelFacts DEF Blank, TableRows, Parents, Shaped

LEMMA AllocatedType ==
  ASSUME StoreTypeOK
  PROVE  /\ Allocated \subseteq Structs
         /\ Len(users) \in Nat
         /\ \A i \in 1 .. Len(users) : users[i] \in Allocated /\ users[i] \in Structs
         /\ IsFiniteSet(Structs) /\ Cardinality(Structs) = MaxRecords
         /\ IsFiniteSet(Allocated)
<1>1. Allocated \subseteq Structs /\ Len(users) \in Nat
  BY LenProperties, ElementOfSeq DEF StoreTypeOK, ListOK, TableOK, Allocated
<1>2. IsFiniteSet(Structs) /\ Cardinality(Structs) = MaxRecords
  <2>1. 1 \in Int /\ MaxRecords \in Int /\ ~(1 > MaxRecords) /\ MaxRecords - 1 + 1 = MaxRecords
    BY Bounds
  <2>2. IsFiniteSet(1 .. MaxRecords) /\ Cardinality(1 .. MaxRecords) = MaxRecords
    BY <2>1, FS_Interval
  <2> QED BY <2>2 DEF Structs
<1>3. IsFiniteSet(Allocated)
  BY <1>1, <1>2, FS_Subset
<1> QED BY <1>1, <1>2, <1>3 DEF Allocated

-----------------------------------------------------------------------------
(* Looking a record up by its name.                                        *)
(***************************************************************************)
LEMMA FoundRecord ==
  ASSUME StoreTypeOK, NEW name, Find(name) # NoStruct
  PROVE  Find(name) \in Allocated /\ Find(name) \in Structs /\ rec[Find(name)].name = name
<1> DEFINE hits == {i \in 1 .. Len(users) : rec[users[i]].name = name}
<1>1. hits # {}
  BY DEF Find
<1>2. hits \in SUBSET Nat
  OBVIOUS
<1>3. \E i \in hits : \A j \in hits : i <= j
  <2> HIDE DEF hits
  <2> QED BY <1>1, <1>2, LowestNumber
<1>4. PICK i \in hits : Find(name) = users[i]
  BY <1>1, <1>3 DEF Find
<1> QED BY <1>4, AllocatedType

LEMMA NoRecordFound ==
  ASSUME StoreTypeOK, NEW name, Find(name) = NoStruct
  PROVE  \A r \in Allocated : rec[r].name # name
<1> DEFINE hits == {i \in 1 .. Len(users) : rec[users[i]].name = name}
<1>1. ASSUME hits # {} PROVE FALSE
  <2>1. hits \in SUBSET Nat
    OBVIOUS
  <2>2. \E i \in hits : \A j \in hits : i <= j
    <3> HIDE DEF hits
    <3> QED BY <1>1, <2>1, LowestNumber
  <2>3. PICK i \in hits : Find(name) = users[i]
    BY <1>1, <2>2 DEF Find
  <2>4. users[i] \in Structs
    BY <2>3, AllocatedType
  <2> QED BY <2>3, <2>4, Bounds DEF Structs
<1> QED BY <1>1 DEF Allocated

\* A label that is free is found: there are more labels than records in the list.
LEMMA UnusedLabelIsFree ==
  ASSUME StoreTypeOK, LabelsSuffice, NEW host \in Hosts, NEW spare \in Structs \ Allocated
  PROVE  \A r \in Allocated : rec[r].name # UnusedLabel(host)
<1> DEFINE free == {i \in 0 .. MaxLabel : Find(Label(host, i)) = NoStruct}
           F == [i \in 0 .. MaxLabel |-> Find(Label(host, i))]
<1>1. ASSUME free = {} PROVE FALSE
  <2>1. F \in [0 .. MaxLabel -> Allocated]
    BY <1>1, FoundRecord
  <2>2. \A i, j \in 0 .. MaxLabel : F[i] = F[j] => i = j
    BY <1>1, FoundRecord DEF Label
  <2>3. IsFiniteSet(0 .. MaxLabel) /\ Cardinality(0 .. MaxLabel) = MaxLabel + 1
    <3>1. 0 \in Int /\ MaxLabel \in Int /\ ~(0 > MaxLabel) /\ MaxLabel - 0 + 1 = MaxLabel + 1
      BY Bounds
    <3> QED BY <3>1, FS_Interval
  <2>4. IsFiniteSet(Allocated) /\ Cardinality(Allocated) < MaxLabel + 1
    <3>1. Allocated \subseteq Structs /\ IsFiniteSet(Structs) /\ Cardinality(Structs) = MaxRecords
      BY AllocatedType
    <3>2. Allocated \in SUBSET (Structs \ {spare})
      BY <3>1
    <3>3. IsFiniteSet(Structs \ {spare}) /\ Cardinality(Structs \ {spare}) = MaxRecords - 1
      BY <3>1, FS_RemoveElement
    <3>4. IsFiniteSet(Allocated) /\ Cardinality(Allocated) <= MaxRecords - 1
      BY <3>2, <3>3, FS_Subset
    <3>5. Cardinality(Allocated) \in Nat
      BY <3>4, FS_CardinalityType
    <3>6. MaxRecords - 1 < MaxLabel + 1 /\ MaxRecords \in Nat /\ MaxLabel \in Nat
      BY Bounds DEF LabelsSuffice
    <3> HIDE DEF F
    <3>7. ASSUME NEW c \in Nat, c <= MaxRecords - 1 PROVE c < MaxLabel + 1
      BY <3>6, <3>7
    <3> QED BY <3>4, <3>5, <3>7
  <2>5. \E i, j \in 0 .. MaxLabel : i # j /\ F[i] = F[j]
    <3> HIDE DEF F
    <3>1. Cardinality(Allocated) < Cardinality(0 .. MaxLabel)
      BY <2>3, <2>4
    <3> QED BY <2>1, <2>3, <2>4, <3>1, FS_PigeonHole
  <2> QED BY <2>2, <2>5
<1>2. \E i \in free : \A j \in free : i <= j
  <2>1. free \in SUBSET Nat
    OBVIOUS
  <2> HIDE DEF free
  <2> QED BY <1>1, <2>1, LowestNumber
<1>3. PICK i \in free : UnusedLabel(host) = Label(host, i)
  BY <1>1, <1>2 DEF UnusedLabel
<1> QED BY <1>3, NoRecordFound

LEMMA UnusedLabelType ==
  ASSUME NEW host \in Hosts
  PROVE  UnusedLabel(host) \in HostLabels
<1> DEFINE free == {i \in 0 .. MaxLabel : Find(Label(host, i)) = NoStruct}
<1>1. CASE free = {}
  BY <1>1, Bounds DEF UnusedLabel, HostLabels, Label
<1>2. CASE free # {}
  <2>1. free \in SUBSET Nat
    OBVIOUS
  <2>2. \E i \in free : \A j \in free : i <= j
    <3> HIDE DEF free
    <3> QED BY <1>2, <2>1, LowestNumber
  <2>3. PICK i \in free : UnusedLabel(host) = Label(host, i)
    BY <1>2, <2>2 DEF UnusedLabel
  <2> QED BY <2>3 DEF HostLabels, Label
<1> QED BY <1>1, <1>2

-----------------------------------------------------------------------------
(* The list and the table.                                                 *)
(***************************************************************************)
\* A record at the head of the list is in it besides the others.
LEMMA AddEffect ==
  ASSUME StoreTypeOK, NEW r \in Structs, NEW content \in TableRows, Add(r, content)
  PROVE  /\ r \in Structs \ Allocated
         /\ users' \in Seq(Structs)
         /\ \A i, j \in 1 .. Len(users') : users'[i] = users'[j] => i = j
         /\ Allocated' = Allocated \cup {r}
         /\ rec' \in [Structs -> TableRows]
         /\ rec'[r] = content /\ \A x \in Structs \ {r} : rec'[x] = rec[x]
<1> DEFINE u == <<r>> \o users
<1>1. users' = u /\ r \in Structs \ Allocated
  BY DEF Add
<1>2. /\ u \in Seq(Structs) /\ Len(users) \in Nat /\ Len(u) = Len(users) + 1
      /\ \A i \in 1 .. Len(u) : u[i] = IF i = 1 THEN r ELSE users[i - 1]
  <2>1. <<r>> \in Seq(Structs) /\ Len(<<r>>) = 1 /\ <<r>>[1] = r /\ users \in Seq(Structs)
    BY DEF StoreTypeOK, ListOK, TableOK
  <2> QED BY <2>1, ConcatProperties, LenProperties
<1> HIDE DEF u
<1>3. \A i, j \in 1 .. Len(u) : u[i] = u[j] => i = j
  <2>1. \A i \in 1 .. Len(users) : users[i] # r
    BY <1>1 DEF Allocated
  <2>2. \A i, j \in 1 .. Len(users) : users[i] = users[j] => i = j
    BY DEF StoreTypeOK, ListOK, TableOK
  <2>3. ASSUME NEW i \in 2 .. Len(u) PROVE i - 1 \in 1 .. Len(users) /\ u[i] = users[i - 1]
    BY <1>2
  <2>4. ASSUME NEW i \in 1 .. Len(u), NEW j \in 1 .. Len(u), u[i] = u[j] PROVE i = j
    <3>1. CASE i = 1 \/ j = 1
      BY <1>2, <2>1, <2>3, <2>4, <3>1
    <3>2. CASE i # 1 /\ j # 1
      <4>1. i \in 2 .. Len(u) /\ j \in 2 .. Len(u) /\ Len(u) \in Nat
        BY <1>2, <3>2
      <4>2. i - 1 \in 1 .. Len(users) /\ j - 1 \in 1 .. Len(users) /\ users[i - 1] = users[j - 1]
        BY <2>3, <2>4, <4>1
      <4>3. i - 1 = j - 1
        BY <2>2, <4>2
      <4> QED BY <4>1, <4>3
    <3> QED BY <3>1, <3>2
  <2> QED BY <2>4
<1>4. {u[i] : i \in 1 .. Len(u)} = Allocated \cup {r}
  <2>1. ASSUME NEW i \in 1 .. Len(u) PROVE u[i] \in Allocated \cup {r}
    BY <1>2 DEF Allocated
  <2>2. ASSUME NEW x \in Allocated PROVE \E i \in 1 .. Len(u) : u[i] = x
    <3>1. PICK i \in 1 .. Len(users) : users[i] = x
      BY DEF Allocated
    <3>2. i + 1 \in 1 .. Len(u) /\ u[i + 1] = x
      BY <1>2, <3>1
    <3> QED BY <3>2
  <2>3. 1 \in 1 .. Len(u) /\ u[1] = r
    BY <1>2
  <2> QED BY <2>1, <2>2, <2>3
<1>5. rec' = [rec EXCEPT ![r] = content]
  BY DEF Add
<1>6. Allocated' = {u[i] : i \in 1 .. Len(u)}
  BY <1>1 DEF Allocated
<1>7. rec' \in [Structs -> TableRows] /\ rec'[r] = content /\ \A x \in Structs \ {r} : rec'[x] = rec[x]
  BY <1>5 DEF StoreTypeOK, ListOK, TableOK
<1>8. users' \in Seq(Structs) /\ \A i, j \in 1 .. Len(users') : users'[i] = users'[j] => i = j
  BY <1>1, <1>2, <1>3
<1> QED BY <1>1, <1>4, <1>6, <1>7, <1>8

\* What stays in the list is there once, and nothing else is.
LEMMA WithoutEffect ==
  ASSUME StoreTypeOK, NEW gone, NEW s, s = Without(gone)
  PROVE  /\ s \in Seq(Structs)
         /\ \A i, j \in 1 .. Len(s) : s[i] = s[j] => i = j
         /\ {s[i] : i \in 1 .. Len(s)} = Allocated \ gone
<1> DEFINE stay == {i \in 1 .. Len(users) : users[i] \notin gone}
           Below(i) == {j \in stay : j <= i}
           UpTo(i) == Cardinality(Below(i))
           n == Cardinality(stay)
           Chosen(k) == CHOOSE i \in stay : UpTo(i) = k
<1>1. s = [k \in 1 .. n |-> users[Chosen(k)]]
  BY DEF Without
<1>2. Len(users) \in Nat /\ stay \subseteq 1 .. Len(users) /\ stay \subseteq Nat
  BY AllocatedType
<1>3. IsFiniteSet(stay) /\ n \in Nat
  <2>1. IsFiniteSet(1 .. Len(users))
    BY <1>2, FS_Interval
  <2>2. IsFiniteSet(stay)
    BY <1>2, <2>1, FS_Subset
  <2> QED BY <2>2, FS_CardinalityType
<1>4. \A i \in stay : users[i] \in Allocated \ gone /\ users[i] \in Structs
  BY AllocatedType
<1>5. \A i, j \in stay : users[i] = users[j] => i = j
  BY <1>2 DEF StoreTypeOK, ListOK, TableOK
<1>6. Allocated \ gone = {users[i] : i \in stay}
  BY DEF Allocated
<1> HIDE DEF stay
<1>7. \A i \in stay : IsFiniteSet(Below(i)) /\ UpTo(i) \in 1 .. n
  <2> TAKE i \in stay
  <2>1. Below(i) \in SUBSET stay /\ i \in Below(i)
    BY <1>2
  <2>2. IsFiniteSet(Below(i)) /\ UpTo(i) <= n
    BY <1>3, <2>1, FS_Subset
  <2>3. UpTo(i) \in Nat /\ UpTo(i) # 0
    BY <2>1, <2>2, FS_CardinalityType, FS_EmptySet
  <2> HIDE DEF UpTo, n
  <2> QED BY <1>3, <2>2, <2>3
<1>8. \A i, k \in stay : UpTo(i) = UpTo(k) => i = k
  <2>1. ASSUME NEW i \in stay, NEW k \in stay, i < k, UpTo(i) = UpTo(k) PROVE FALSE
    <3>0. i \in Nat /\ k \in Nat /\ k <= k /\ ~(k <= i)
      <4> HIDE DEF UpTo
      <4> QED BY <1>2, <2>1
    <3>1. Below(i) \in SUBSET Below(k) /\ k \in Below(k) /\ k \notin Below(i)
      <4>1. \A j \in stay : j <= i => j <= k
        <5> HIDE DEF UpTo
        <5> QED BY <1>2, <2>1, <3>0
      <4> QED BY Zenon, <3>0, <4>1
    <3>2. Below(i) = Below(k)
      BY <1>7, <2>1, <3>1, FS_Subset
    <3> QED BY <3>1, <3>2
  <2> HIDE DEF UpTo
  <2> QED BY <1>2, <2>1
<1>9. \A k \in 1 .. n : \E i \in stay : UpTo(i) = k
  <2> DEFINE place == [i \in stay |-> UpTo(i)]
  <2>1. place \in Injection(stay, 1 .. n)
    <3>1. place \in [stay -> 1 .. n]
      <4> HIDE DEF UpTo, n
      <4> QED BY <1>7
    <3>2. \A i, k \in stay : place[i] = place[k] => i = k
      <4> HIDE DEF UpTo, n
      <4> QED BY <1>8
    <3> HIDE DEF place
    <3> QED BY <3>1, <3>2 DEF Injection, IsInjective
  <2>2. IsFiniteSet(1 .. n) /\ Cardinality(1 .. n) = n
    <3>1. 1 \in Int /\ n \in Int /\ n - 1 + 1 = n /\ (1 > n => n = 0)
      <4> HIDE DEF n
      <4> QED BY <1>3
    <3> HIDE DEF n
    <3> QED BY <3>1, FS_Interval
  <2>3. place \in Surjection(stay, 1 .. n)
    <3> HIDE DEF place
    <3> QED BY <1>3, <2>1, <2>2, FS_Injection
  <2> HIDE DEF UpTo, n
  <2> QED BY <2>3 DEF Surjection
<1>10. \A k \in 1 .. n : Chosen(k) \in stay /\ UpTo(Chosen(k)) = k
  <2> HIDE DEF UpTo, n
  <2> QED BY <1>9
<1>11. \A i \in stay : Chosen(UpTo(i)) = i
  <2> HIDE DEF UpTo, n, Chosen
  <2> QED BY <1>7, <1>8, <1>10
<1> HIDE DEF UpTo, n, Chosen, Below
<1>12. s \in Seq(Structs) /\ Len(s) = n
  <2>1. s \in [1 .. n -> Structs]
    BY <1>1, <1>4, <1>10
  <2> QED BY <1>3, <2>1, SeqDef, LenProperties
<1>13. ASSUME NEW i \in 1 .. Len(s), NEW j \in 1 .. Len(s), s[i] = s[j] PROVE i = j
  <2>1. i \in 1 .. n /\ j \in 1 .. n
    BY <1>12
  <2>2. s[i] = users[Chosen(i)] /\ s[j] = users[Chosen(j)]
    BY <1>1, <2>1
  <2>3. Chosen(i) \in stay /\ Chosen(j) \in stay
    BY <1>10, <2>1
  <2>4. Chosen(i) = Chosen(j)
    BY <1>5, <1>13, <2>2, <2>3
  <2>5. UpTo(Chosen(i)) = i /\ UpTo(Chosen(j)) = j
    BY <1>10, <2>1
  <2> QED BY <2>4, <2>5
<1>14. {s[i] : i \in 1 .. n} = {users[i] : i \in stay}
  <2>1. ASSUME NEW k \in 1 .. n PROVE \E i \in stay : s[k] = users[i]
    BY <1>1, <1>10
  <2>2. ASSUME NEW i \in stay PROVE \E k \in 1 .. n : s[k] = users[i]
    BY <1>1, <1>7, <1>11
  <2> QED BY <2>1, <2>2
<1> QED BY <1>6, <1>12, <1>13, <1>14

\* The image of a finite set is finite and no larger.
LEMMA ImageBound ==
  ASSUME NEW S, IsFiniteSet(S), NEW f, NEW T, f \in Surjection(S, T)
  PROVE  IsFiniteSet(T) /\ Cardinality(T) <= Cardinality(S)
BY FS_Surjection

\* A row is written over the one of its name, or added.
LEMMA SavedEffect ==
  ASSUME StoreTypeOK, NEW content \in TableRows
  PROVE  /\ Saved(content) \subseteq TableRows /\ IsFiniteSet(Saved(content))
         /\ \A x, y \in Saved(content) : x.name = y.name => x = y
         /\ content \in Saved(content)
         /\ \A x \in Saved(content) : x = content \/ (x \in db /\ x.name # content.name)
         /\ \A x \in db : x.name # content.name => x \in Saved(content)
<1>1. Saved(content) = (db \ RowsNamed(content.name)) \cup {content}
  BY DEF Saved
<1>2. IsFiniteSet(Saved(content))
  <2>1. db \ RowsNamed(content.name) \in SUBSET db /\ IsFiniteSet(db)
    BY DEF StoreTypeOK, ListOK, TableOK
  <2>2. IsFiniteSet(db \ RowsNamed(content.name))
    BY <2>1, FS_Subset
  <2> QED BY <1>1, <2>2, FS_AddElement
<1> QED BY <1>1, <1>2 DEF StoreTypeOK, ListOK, TableOK, RowsNamed

\* The row is written or the statement fails, and that is remembered.
LEMMA WriteEffect ==
  ASSUME NEW content, NEW quoted, alwaysSaved \in BOOLEAN,
         WriteRow(content, quoted) \/ Save(content, quoted)
  PROVE  /\ db' = db \/ (db' = Saved(content) /\ Cardinality(db') <= MaxRecords)
         /\ alwaysSaved' \in BOOLEAN
         /\ alwaysSaved' => alwaysSaved
         /\ alwaysSaved' /\ autoSave => db' = Saved(content)
<1> DEFINE fails == quoted \/ Broken(content.name) \/ Broken(content.folder)
<1>1. CASE WriteRow(content, quoted)
  <2>1. /\ IF fails THEN UNCHANGED db ELSE db' = Saved(content) /\ Cardinality(db') <= MaxRecords
        /\ alwaysSaved' = (alwaysSaved /\ ~fails)
    BY Zenon, <1>1 DEF WriteRow
  <2> HIDE DEF fails
  <2>2. /\ alwaysSaved' \in BOOLEAN /\ (alwaysSaved' => alwaysSaved /\ ~fails)
    BY Zenon, <2>1
  <2> QED BY Zenon, <2>1, <2>2
<1>2. CASE ~autoSave /\ UNCHANGED <<db, alwaysSaved>>
  BY <1>2
<1> QED BY <1>1, <1>2 DEF Save

\* Whether the table is written or not, it keeps its form.
LEMMA SaveType ==
  ASSUME StoreTypeOK, NEW content \in TableRows, NEW quoted,
         WriteRow(content, quoted) \/ Save(content, quoted)
  PROVE  TableOK'
<1>1. db' = db \/ (db' = Saved(content) /\ Cardinality(db') <= MaxRecords)
  BY WriteEffect DEF StoreTypeOK
<1>2. CASE db' = Saved(content) /\ Cardinality(db') <= MaxRecords
  BY <1>2, SavedEffect DEF TableOK
<1>3. CASE db' = db
  BY <1>3 DEF StoreTypeOK, TableOK
<1> QED BY <1>1, <1>2, <1>3

LEMMA FewerRows ==
  ASSUME StoreTypeOK, db' \subseteq db
  PROVE  TableOK'
<1>1. IsFiniteSet(db') /\ Cardinality(db') <= Cardinality(db)
  BY FS_Subset DEF StoreTypeOK, ListOK, TableOK
<1>2. Cardinality(db) \in Nat /\ Cardinality(db') \in Nat /\ MaxRecords \in Nat
  BY <1>1, FS_CardinalityType, Bounds DEF StoreTypeOK, ListOK, TableOK
<1>3. Cardinality(db') <= MaxRecords
  BY <1>1, <1>2 DEF StoreTypeOK, ListOK, TableOK
<1> QED BY <1>1, <1>3 DEF StoreTypeOK, ListOK, TableOK

-----------------------------------------------------------------------------
(* Renaming.                                                               *)
(***************************************************************************)
LEMMA RenamedRow ==
  ASSUME NEW x \in TableRows, NEW new \in Labels
  PROVE  /\ [x EXCEPT !.name = new] \in TableRows
         /\ [x EXCEPT !.name = new].name = new
         /\ [x EXCEPT !.name = new].folder = x.folder
         /\ [x EXCEPT !.name = new].isFolder = x.isFolder
BY DEF TableRows

\* Rows that change one by one, and keep their names apart, are a table again.
LEMMA ChangedRows ==
  ASSUME StoreTypeOK, NEW f, f \in [db -> TableRows], db' = {f[x] : x \in db},
         \A x, y \in db : f[x].name = f[y].name => x = y
  PROVE  TableOK'
<1>1. f \in Surjection(db, db')
  <2>1. f \in [db -> db']
    OBVIOUS
  <2>2. \A y \in db' : \E x \in db : f[x] = y
    OBVIOUS
  <2> QED BY <2>1, <2>2 DEF Surjection
<1>2. IsFiniteSet(db)
  BY DEF StoreTypeOK, TableOK
<1>3. IsFiniteSet(db') /\ Cardinality(db') <= Cardinality(db)
  BY <1>1, <1>2, ImageBound
<1>4. Cardinality(db) \in Nat /\ Cardinality(db') \in Nat /\ MaxRecords \in Nat
  BY <1>2, <1>3, FS_CardinalityType, Bounds
<1>5. Cardinality(db') <= MaxRecords
  BY <1>3, <1>4 DEF StoreTypeOK, TableOK
<1> QED BY <1>3, <1>5 DEF TableOK

LEMMA RelabelledType ==
  ASSUME tree \subseteq TreeRows, NEW row, NEW new \in Labels
  PROVE  Relabelled(row, new) \subseteq TreeRows
<1>1. \A x \in TreeRows : [x EXCEPT !.label = new] \in TreeRows /\ [x EXCEPT !.in = new] \in TreeRows
  BY DEF TreeRows, Parents
<1> QED BY <1>1 DEF Relabelled

\* A session's rename changes its record and its row, or neither.
SessionTakes(r, new) ==
  \/ rec' = rec /\ db' = db
  \/ /\ rec' = [rec EXCEPT ![r] = [rec[r] EXCEPT !.name = new]]
     /\ \A c \in Structs : /\ rec'[c].name = IF c = r THEN new ELSE rec[c].name
                           /\ rec'[c].folder = rec[c].folder
                           /\ rec'[c].isFolder = rec[c].isFolder
     /\ \/ ~alwaysSaved' /\ db' = db
        \/ db' = {IF x.name = rec[r].name THEN [x EXCEPT !.name = new] ELSE x : x \in db}

LEMMA RenameSessionEffect ==
  ASSUME StoreTypeOK, NEW row, NEW r \in Structs, NEW new \in Labels, NEW before \in BOOLEAN,
         RenameSession(row, r, new, before)
  PROVE  /\ rec' \in [Structs -> TableRows]
         /\ TableOK'
         /\ alwaysSaved' \in BOOLEAN /\ (alwaysSaved' => alwaysSaved)
         /\ tree' = tree \/ tree' = Relabelled(row, new)
         /\ SessionTakes(r, new)
<1> DEFINE mine == RowsNamed(rec[r].name)
           f == [x \in db |-> IF x \in mine THEN [x EXCEPT !.name = new] ELSE x]
<1>0. rec[r] \in TableRows
  BY DEF StoreTypeOK
<1>1. tree' = tree \/ tree' = Relabelled(row, new)
  BY DEF RenameSession
<1>8. /\ alwaysSaved' \in BOOLEAN /\ (alwaysSaved' => alwaysSaved)
      /\ alwaysSaved' => ~(Broken(new) \/ Broken(rec[r].name))
  BY DEF RenameSession, StoreTypeOK
<1>2. CASE rec' = rec /\ db' = db
  BY <1>1, <1>2, <1>8 DEF StoreTypeOK, TableOK, SessionTakes
<1>6. ASSUME rec' = [rec EXCEPT ![r].name = new]
      PROVE  /\ rec' \in [Structs -> TableRows]
             /\ rec' = [rec EXCEPT ![r] = [rec[r] EXCEPT !.name = new]]
             /\ \A c \in Structs : /\ rec'[c].name = IF c = r THEN new ELSE rec[c].name
                                   /\ rec'[c].folder = rec[c].folder
                                   /\ rec'[c].isFolder = rec[c].isFolder
  <2>1. rec' = [rec EXCEPT ![r] = [rec[r] EXCEPT !.name = new]]
    BY <1>6 DEF StoreTypeOK
  <2>2. PICK y : y = [rec[r] EXCEPT !.name = new]
    OBVIOUS
  <2>3. y \in TableRows /\ y.name = new /\ y.folder = rec[r].folder /\ y.isFolder = rec[r].isFolder
    BY <1>0, <2>2, RenamedRow
  <2> QED BY <2>1, <2>2, <2>3 DEF StoreTypeOK
<1>3. CASE rec' = [rec EXCEPT ![r].name = new] /\ db' = db /\ ~alwaysSaved'
  BY <1>1, <1>3, <1>6, <1>8 DEF StoreTypeOK, TableOK, SessionTakes
<1>4. CASE /\ rec' = [rec EXCEPT ![r].name = new]
           /\ db' = (db \ mine) \cup {[x EXCEPT !.name = new] : x \in mine}
           /\ RowsNamed(new) = {}
  <2>1. f \in [db -> TableRows]
    BY RenamedRow DEF StoreTypeOK, TableOK
  <2>2. db' = {f[x] : x \in db}
    BY <1>4 DEF RowsNamed
  <2>3. \A x \in db : f[x].name = IF x.name = rec[r].name THEN new ELSE x.name
    BY RenamedRow DEF StoreTypeOK, TableOK, RowsNamed
  <2>4. \A x \in db : x.name # new
    BY <1>4 DEF RowsNamed
  <2>5. \A x, y \in db : f[x].name = f[y].name => x = y
    <3> HIDE DEF f
    <3> QED BY <2>3, <2>4 DEF StoreTypeOK, TableOK
  <2>6. TableOK'
    <3> HIDE DEF f
    <3> QED BY <2>1, <2>2, <2>5, ChangedRows
  <2>7. db' = {IF x.name = rec[r].name THEN [x EXCEPT !.name = new] ELSE x : x \in db}
    BY <2>2 DEF RowsNamed
  <2> QED BY <1>1, <1>4, <1>6, <1>8, <2>6, <2>7 DEF SessionTakes
<1>5. \/ rec' = rec /\ db' = db
      \/ rec' = [rec EXCEPT ![r].name = new] /\ db' = db /\ ~alwaysSaved'
      \/ /\ rec' = [rec EXCEPT ![r].name = new]
         /\ db' = (db \ mine) \cup {[x EXCEPT !.name = new] : x \in mine}
         /\ RowsNamed(new) = {}
  <2> DEFINE fails == Broken(new) \/ Broken(rec[r].name)
             clash == mine # {} /\ RowsNamed(new) # {}
             changed == IF fails THEN before ELSE mine # {} /\ ~clash
             renamed == [rec EXCEPT ![r].name = new]
             rewritten == (db \ mine) \cup {[x EXCEPT !.name = new] : x \in mine}
  <2>1. /\ rec' = IF autoSave => changed THEN renamed ELSE rec
        /\ db' = IF autoSave /\ changed /\ ~fails THEN rewritten ELSE db
    BY Zenon DEF RenameSession
  <2>2. ~autoSave => ~alwaysSaved'
    BY <1>8 DEF StoreTypeOK
  <2>3. changed /\ ~fails => RowsNamed(new) = {}
    OBVIOUS
  <2>4. alwaysSaved' => ~fails
    BY <1>8
  <2> HIDE DEF renamed, rewritten, changed, fails
  <2>5. \/ rec' = rec /\ db' = db
        \/ rec' = renamed /\ db' = db /\ ~alwaysSaved'
        \/ rec' = renamed /\ db' = rewritten /\ RowsNamed(new) = {}
    BY <2>1, <2>2, <2>3, <2>4
  <2> QED BY <2>5 DEF renamed, rewritten
<1> QED BY <1>2, <1>3, <1>4, <1>5

FoldersInPlace == \A c \in Allocated : rec[c].isFolder => rec[c].folder = rec[c].name
NewToTheList(new) == \A c \in Allocated : rec[c].name # new

LEMMA HighestNumber ==
  ASSUME NEW n \in Nat, NEW S \in SUBSET (1 .. n), S # {}
  PROVE  \E f \in S : \A g \in S : g <= f
<1> DEFINE T == {n - i : i \in S}
<1>1. T \in SUBSET Nat /\ T # {}
  <2>1. \A i \in S : i \in 1 .. n
    OBVIOUS
  <2>2. \A i \in 1 .. n : n - i \in Nat
    OBVIOUS
  <2> QED BY <2>1, <2>2
<1>2. PICK t \in T : \A u \in T : t <= u
  <2> HIDE DEF T
  <2> QED BY <1>1, LowestNumber
<1>3. PICK f \in S : t = n - f
  OBVIOUS
<1>4. \A g \in S : n - f <= n - g
  BY <1>2, <1>3
<1>5. \A i, j \in 1 .. n : n - i <= n - j => j <= i
  OBVIOUS
<1>6. f \in 1 .. n /\ \A g \in S : g \in 1 .. n
  OBVIOUS
<1> HIDE DEF T
<1> QED BY <1>4, <1>5, <1>6

\* A folder's rename moves some records of the folder; the rows that move are
\* theirs, and at most one of them takes the new name, which no row has.
FolderTakes(row, r, new) ==
  /\ \A c \in Structs :
       /\ rec'[c].isFolder = rec[c].isFolder
       /\ \/ rec'[c] = rec[c]
          \/ /\ c \in Allocated /\ rec[c].folder = rec[r].folder
             /\ rec'[c].folder = new
             /\ rec'[c].name = IF rec[c].isFolder THEN new ELSE rec[c].name
  /\ \A y \in db' :
       \/ y \in db
       \/ \E x \in db, c \in Allocated :
            /\ y.isFolder = x.isFolder /\ y.folder = new /\ rec[c].name = x.name
            /\ y.name = IF rec[c].isFolder THEN new ELSE x.name
  /\ tree' = tree \/ tree' = Relabelled(row, new)

\* Where list and table agree the whole folder moves.
FolderMoves(row, r, new) ==
  /\ \A c \in Allocated : rec[c].folder = rec[r].folder =>
       rec'[c].folder = new /\ rec'[c].name = IF rec[c].isFolder THEN new ELSE rec[c].name
  /\ db' = {rec'[c] : c \in Allocated}
  /\ tree' = Relabelled(row, new)

LEMMA RenameFolderEffect ==
  ASSUME StoreTypeOK, NEW row, NEW r \in Allocated, NEW new \in Labels, NEW before \in BOOLEAN,
         RenameFolder(row, r, new, before)
  PROVE  /\ rec' \in [Structs -> TableRows]
         /\ TableOK'
         /\ alwaysSaved' \in BOOLEAN /\ (alwaysSaved' => alwaysSaved)
         /\ FolderTakes(row, r, new)
         /\ alwaysSaved' /\ rec[r].isFolder /\ FoldersInPlace /\ ListIsTable /\ NewToTheList(new)
              => FolderMoves(row, r, new)
<1> DEFINE members == {i \in 1 .. Len(users) : rec[users[i]].folder = rec[r].folder}
           Name(i) == rec[users[i]].name
           IsFolder(i) == rec[users[i]].isFolder
           HasRow(i) == RowsNamed(Name(i)) # {}
           Heir(i) == /\ IsFolder(i) /\ HasRow(i) /\ RowsNamed(new) = {}
                      /\ \A j \in members : j < i /\ IsFolder(j) => ~HasRow(j)
           Found(i) == HasRow(i) /\ \A j \in members : j < i /\ Heir(j) => Name(j) # Name(i)
           Fails(i) == Broken(new) \/ Broken(Name(i))
           written == {i \in members : ~Fails(i) /\ Found(i) /\ (IsFolder(i) => Heir(i))}
           Run(i) == {j \in members : j <= i /\ ~Fails(j)}
           Changed(i) == IF Run(i) = {} THEN before
                         ELSE \E j \in Run(i) \cap written : \A k \in Run(i) : k <= j
           moved == IF autoSave THEN {i \in members : Changed(i)} ELSE members
           M(x, isDir) == [x EXCEPT !.folder = new, !.name = IF isDir THEN new ELSE @]
           Moves(x) == \E i \in written : Name(i) = x.name
           Inherits(x) == \E i \in written : Name(i) = x.name /\ IsFolder(i)
           f == [x \in db |-> IF Moves(x) THEN M(x, Inherits(x)) ELSE x]
<1>0. \A x \in TableRows, isDir \in BOOLEAN :
        /\ M(x, isDir) \in TableRows
        /\ M(x, isDir).name = IF isDir THEN new ELSE x.name
        /\ M(x, isDir).folder = new /\ M(x, isDir).isFolder = x.isFolder
  <2> TAKE x \in TableRows, isDir \in BOOLEAN
  <2>1. PICK y : y = [x EXCEPT !.folder = new, !.name = IF isDir THEN new ELSE @]
    OBVIOUS
  <2>2. /\ y \in TableRows /\ y.name = IF isDir THEN new ELSE x.name
        /\ y.folder = new /\ y.isFolder = x.isFolder
    BY <2>1 DEF TableRows, Parents
  <2>3. M(x, isDir) = y
    BY Zenon, <2>1
  <2> HIDE DEF M
  <2> QED BY <2>2, <2>3
<1>1. rec' = [c \in Structs |-> IF \E i \in moved : users[i] = c THEN M(rec[c], rec[c].isFolder)
                                                                  ELSE rec[c]]
  BY Zenon DEF RenameFolder
<1>2. db' = IF ~autoSave THEN db ELSE {f[x] : x \in db}
  <2>1. ~autoSave => db' = db
    BY DEF RenameFolder
  <2>2. autoSave => db' = {IF Moves(x) THEN M(x, Inherits(x)) ELSE x : x \in db}
    BY Zenon DEF RenameFolder
  <2> HIDE DEF Moves, M, Inherits
  <2>3. {f[x] : x \in db} = {IF Moves(x) THEN M(x, Inherits(x)) ELSE x : x \in db}
    OBVIOUS
  <2> QED BY <2>1, <2>2, <2>3
<1>3. tree' = tree \/ tree' = Relabelled(row, new)
  BY DEF RenameFolder
<1>4. moved \subseteq members /\ written \subseteq members
  OBVIOUS
<1>5. \A i \in members : i \in Nat /\ users[i] \in Allocated /\ users[i] \in Structs
  BY AllocatedType
<1>6. \A i \in written : IsFolder(i) => Heir(i)
  OBVIOUS
<1>14. /\ alwaysSaved' \in BOOLEAN /\ (alwaysSaved' => alwaysSaved)
       /\ alwaysSaved' => \A i \in members : ~Fails(i)
  <2>1. alwaysSaved' = (alwaysSaved /\ \A i \in members : ~Fails(i))
    BY Zenon DEF RenameFolder
  <2> HIDE DEF members, Fails
  <2> QED BY Zenon, <2>1 DEF StoreTypeOK
<1>15. alwaysSaved' => autoSave
  BY <1>14 DEF StoreTypeOK
<1>7. \A i, j \in members : Heir(i) /\ Heir(j) => i = j
  <2>1. \A i, j \in members : Heir(i) /\ Heir(j) => ~(i < j) /\ ~(j < i)
    OBVIOUS
  <2> HIDE DEF Heir
  <2> QED BY <1>5, <2>1
<1>8. \A i \in members : Heir(i) => \A x \in db : x.name # new
  BY DEF RowsNamed
<1> HIDE DEF moved, written, Heir
<1>9. \A c \in Structs : rec[c] \in TableRows /\ rec[c].isFolder \in BOOLEAN
  BY DEF StoreTypeOK, TableRows
<1>10. /\ rec' \in [Structs -> TableRows]
       /\ \A c \in Structs : /\ rec'[c].isFolder = rec[c].isFolder
                             /\ \/ rec'[c] = rec[c]
                                \/ /\ c \in Allocated /\ rec[c].folder = rec[r].folder
                                   /\ rec'[c].folder = new
                                   /\ rec'[c].name = IF rec[c].isFolder THEN new ELSE rec[c].name
  <2>1. ASSUME NEW c \in Structs
        PROVE  /\ M(rec[c], rec[c].isFolder) \in TableRows
               /\ M(rec[c], rec[c].isFolder).name = IF rec[c].isFolder THEN new ELSE rec[c].name
               /\ M(rec[c], rec[c].isFolder).folder = new
               /\ M(rec[c], rec[c].isFolder).isFolder = rec[c].isFolder
    <3> HIDE DEF M
    <3> QED BY <1>0, <1>9
  <2>2. ASSUME NEW c \in Structs, NEW i \in moved, users[i] = c
        PROVE  c \in Allocated /\ rec[c].folder = rec[r].folder
    BY <1>4, <1>5, <2>2
  <2> HIDE DEF M, members
  <2> QED BY <1>1, <1>9, <2>1, <2>2
<1>11. ASSUME alwaysSaved', rec[r].isFolder, FoldersInPlace, ListIsTable, NewToTheList(new)
       PROVE  FolderMoves(row, r, new)
  <2>1. \A i \in members : HasRow(i)
    BY <1>5, <1>11 DEF ListIsTable, RowsNamed
  <2>2. RowsNamed(new) = {}
    BY <1>11 DEF ListIsTable, RowsNamed, NewToTheList
  <2>3. \A i, j \in members : Name(i) = Name(j) => i = j
    <3>1. \A i, j \in members : Name(i) = Name(j) => users[i] = users[j]
      BY <1>5, <1>11 DEF ListIsTable
    <3> QED BY <3>1 DEF StoreTypeOK, ListOK
  <2>4. \A i, j \in members : IsFolder(i) /\ IsFolder(j) => i = j
    <3>1. \A i \in members : IsFolder(i) => Name(i) = rec[r].folder
      BY <1>5, <1>11 DEF FoldersInPlace
    <3> QED BY <2>3, <3>1
  <2>5. \A i \in members : IsFolder(i) => Heir(i)
    <3>1. \A i, j \in members : IsFolder(i) /\ IsFolder(j) => ~(j < i)
      BY <1>5, <2>4
    <3> HIDE DEF members, IsFolder, HasRow
    <3> QED BY <2>1, <2>2, <3>1 DEF Heir
  <2>6. \A i \in members : Found(i)
    <3>1. \A i, j \in members : j < i => Name(j) # Name(i)
      BY <1>5, <2>3
    <3> HIDE DEF members, Name, HasRow
    <3> QED BY <2>1, <3>1
  <2>7. moved = members /\ written = members
    <3> HIDE DEF members, Found, IsFolder, Fails
    <3>1. written = members
      BY <1>11, <1>14, <2>5, <2>6 DEF written
    <3>2. ASSUME NEW i \in members PROVE Changed(i)
      <4>1. Run(i) \cap written = Run(i) /\ i \in Run(i) /\ \A k \in Run(i) : k <= i
        BY <1>5, <1>11, <1>14, <3>1
      <4> HIDE DEF Run
      <4> QED BY <4>1
    <3> HIDE DEF Changed
    <3> QED BY <1>11, <1>15, <3>1, <3>2 DEF moved
  <2>8. ASSUME NEW c \in Structs
        PROVE  (\E i \in moved : users[i] = c) <=> (c \in Allocated /\ rec[c].folder = rec[r].folder)
    BY <2>7 DEF Allocated
  <2>9. \A c \in Allocated : rec'[c] = IF rec[c].folder = rec[r].folder
                                      THEN M(rec[c], rec[c].isFolder) ELSE rec[c]
    <3>1. Allocated \subseteq Structs
      BY AllocatedType
    <3> HIDE DEF M
    <3> QED BY <1>1, <2>8, <3>1
  <2>10. ASSUME NEW c \in Allocated, rec[c].folder = rec[r].folder
         PROVE  rec'[c].folder = new /\ rec'[c].name = IF rec[c].isFolder THEN new ELSE rec[c].name
    <3>1. c \in Structs
      BY AllocatedType
    <3> HIDE DEF M
    <3> QED BY <1>0, <1>9, <2>9, <2>10, <3>1
  <2>11. ASSUME NEW c \in Allocated PROVE rec[c] \in db /\ f[rec[c]] = rec'[c]
    <3>1. rec[c] \in db
      BY <1>11 DEF ListIsTable
    <3>2. ASSUME NEW i \in members, Name(i) = rec[c].name PROVE users[i] = c
      BY <1>5, <1>11, <3>2 DEF ListIsTable
    <3>3. PICK k \in 1 .. Len(users) : users[k] = c
      BY DEF Allocated
    <3>4. CASE rec[c].folder = rec[r].folder
      <4>1. k \in members /\ Name(k) = rec[c].name
        BY <3>3, <3>4
      <4>2. Moves(rec[c]) /\ (Inherits(rec[c]) <=> rec[c].isFolder)
        BY <2>7, <3>2, <4>1
      <4>3. Inherits(rec[c]) = rec[c].isFolder
        <5>1. c \in Structs
          BY AllocatedType
        <5>2. Inherits(rec[c]) \in BOOLEAN
          OBVIOUS
        <5> HIDE DEF Inherits
        <5> QED BY <1>9, <4>2, <5>1, <5>2
      <4> HIDE DEF Inherits, Moves, M
      <4> QED BY <2>9, <3>1, <3>4, <4>2, <4>3
    <3>5. CASE rec[c].folder # rec[r].folder
      <4>1. ~Moves(rec[c])
        BY <2>7, <3>2, <3>5
      <4> HIDE DEF Moves, M
      <4> QED BY <2>9, <3>1, <3>5, <4>1
    <3> QED BY <3>4, <3>5
  <2>12. db' = {rec'[c] : c \in Allocated}
    <3>1. db' = {f[x] : x \in db} /\ db = {rec[c] : c \in Allocated}
      BY <1>2, <1>11, <1>15 DEF ListIsTable
    <3> HIDE DEF f
    <3> QED BY <2>11, <3>1
  <2>13. tree' = Relabelled(row, new)
    <3> DEFINE last == CHOOSE i \in members : \A j \in members : j <= i
    <3>1. members # {} /\ members \in SUBSET (1 .. Len(users)) /\ Len(users) \in Nat
      BY AllocatedType DEF Allocated
    <3>2. \E i \in members : \A j \in members : j <= i
      <4> HIDE DEF members
      <4> QED BY <3>1, HighestNumber
    <3>3. last \in members
      <4> HIDE DEF members
      <4> QED BY <3>2
    <3>4. IsFolder(last) => Heir(last)
      BY <2>5, <3>3
    <3>5. tree' = IF autoSave /\ (Fails(last) \/ (IsFolder(last) /\ Found(last) /\ ~Heir(last)))
                  THEN tree ELSE Relabelled(row, new)
      BY Zenon DEF RenameFolder, Heir
    <3>6. ~Fails(last)
      <4> HIDE DEF Fails, last, members
      <4> QED BY <1>11, <1>14, <3>3
    <3> HIDE DEF IsFolder, Found, Fails, last
    <3> QED BY <3>4, <3>5, <3>6
  <2> QED BY Zenon, <2>10, <2>12, <2>13 DEF FolderMoves
<1>12. CASE ~autoSave
  BY <1>2, <1>3, <1>10, <1>11, <1>12, <1>14 DEF StoreTypeOK, TableOK, FolderTakes
<1>13. CASE autoSave
  <2>1. ASSUME NEW x \in db
        PROVE  f[x] \in TableRows /\ f[x].name = IF Inherits(x) THEN new ELSE x.name
    <3>1. x \in TableRows /\ Inherits(x) \in BOOLEAN
      BY DEF StoreTypeOK, TableOK
    <3>2. Inherits(x) => Moves(x)
      OBVIOUS
    <3> HIDE DEF Inherits, Moves, M
    <3>3. /\ M(x, Inherits(x)) \in TableRows
          /\ M(x, Inherits(x)).name = IF Inherits(x) THEN new ELSE x.name
      BY <1>0, <3>1
    <3> QED BY <3>1, <3>2, <3>3
  <2>2. f \in [db -> TableRows]
    <3> HIDE DEF Inherits, Moves, M
    <3> QED BY <2>1
  <2>3. \A x, y \in db : Inherits(x) /\ Inherits(y) => x.name = y.name
    <3> TAKE x \in db, y \in db
    <3> HAVE Inherits(x) /\ Inherits(y)
    <3>1. PICK i \in written : Name(i) = x.name /\ IsFolder(i)
      OBVIOUS
    <3>2. PICK j \in written : Name(j) = y.name /\ IsFolder(j)
      OBVIOUS
    <3>3. i = j
      BY <1>4, <1>6, <1>7, <1>13, <3>1, <3>2
    <3> QED BY <3>1, <3>2, <3>3
  <2>4. \A x, y \in db : Inherits(x) => y.name # new
    BY <1>4, <1>6, <1>8, <1>13
  <2>5. \A x, y \in db : f[x].name = f[y].name => x = y
    <3> HIDE DEF Inherits, f
    <3> QED BY <2>1, <2>3, <2>4 DEF StoreTypeOK, TableOK
  <2>6. TableOK'
    <3> HIDE DEF f
    <3> QED BY <1>2, <1>13, <2>2, <2>5, ChangedRows
  <2>7. ASSUME NEW x \in db, Moves(x)
        PROVE  /\ f[x].isFolder = x.isFolder /\ f[x].folder = new
               /\ \E c \in Allocated : /\ rec[c].name = x.name
                                       /\ f[x].name = IF rec[c].isFolder THEN new ELSE x.name
    <3>1. x \in TableRows /\ Inherits(x) \in BOOLEAN
      BY DEF StoreTypeOK, TableOK
    <3>2. f[x] = M(x, Inherits(x))
      BY <2>7
    <3>3. f[x].isFolder = x.isFolder /\ f[x].folder = new
      <4> HIDE DEF Inherits, Moves, M, f
      <4> QED BY <1>0, <3>1, <3>2
    <3>4. \E i \in written : Name(i) = x.name /\ (Inherits(x) <=> IsFolder(i))
      BY <2>7
    <3>5. PICK i \in written : Name(i) = x.name /\ (Inherits(x) <=> IsFolder(i))
      BY <3>4
    <3>6. users[i] \in Allocated
      BY <1>4, <1>5
    <3>7. f[x].name = IF IsFolder(i) THEN new ELSE x.name
      <4> HIDE DEF Inherits, f
      <4> QED BY <2>1, <3>5
    <3> HIDE DEF f
    <3> QED BY <3>3, <3>5, <3>6, <3>7
  <2>8. \A x \in db : Moves(x) \/ f[x] = x
    OBVIOUS
  <2> HIDE DEF f, Moves
  <2>9. \A y \in db' :
          \/ y \in db
          \/ \E x \in db, c \in Allocated :
               /\ y.isFolder = x.isFolder /\ y.folder = new /\ rec[c].name = x.name
               /\ y.name = IF rec[c].isFolder THEN new ELSE x.name
    <3> TAKE y \in db'
    <3>1. PICK x \in db : y = f[x]
      BY <1>2, <1>13
    <3>2. CASE f[x] = x
      BY <3>1, <3>2
    <3>3. CASE Moves(x)
      <4>1. PICK c \in Allocated : rec[c].name = x.name /\ f[x].name = IF rec[c].isFolder THEN new ELSE x.name
        BY <2>7, <3>3
      <4> QED BY <2>7, <3>1, <3>3, <4>1
    <3> QED BY <2>8, <3>2, <3>3
  <2> QED BY Zenon, <1>3, <1>10, <1>11, <1>14, <2>6, <2>9 DEF FolderTakes
<1> QED BY <1>12, <1>13

-----------------------------------------------------------------------------
(* What the operations keep: the list with the table, and what is shown.   *)
(***************************************************************************)
AlwaysAgrees == NamesApart /\ LabelsSuffice /\ alwaysSaved

DataInv ==
  /\ ListOK /\ rec \in [Structs -> TableRows] /\ TableOK
  /\ autoSave \in BOOLEAN /\ alwaysSaved \in BOOLEAN /\ (alwaysSaved => autoSave)
  /\ LabelsSuffice => SessionsDistinct
  /\ NamesApart => RowsShaped
  /\ AlwaysAgrees => ListIsTable

ViewTypeOK ==
  /\ dialog \in {"none", "connect", "quick", "quick_in_connect"}
  /\ tree \subseteq TreeRows /\ into \in Parents
  /\ qStatus \in {"none", "ok", "cancel"}
  /\ tabUser \in [Terminals -> Structs \cup {NoStruct}]
  /\ currentUser \in Structs \cup {NoStruct}
  /\ app \in {"up", "freed", "spins", "segv"}

LEMMA StoreParts ==
  StoreInv <=> /\ DataInv /\ ViewTypeOK
               /\ NamesApart => TreeShaped
               /\ AlwaysAgrees => TreeHasFolders
BY DEF StoreInv, StoreTypeOK, DataInv, ViewTypeOK, AlwaysAgrees

LEMMA StorePartsNext ==
  ASSUME DataInv', ViewTypeOK', NamesApart => TreeShaped', AlwaysAgrees' => TreeHasFolders'
  PROVE  StoreInv'
BY DEF StoreInv, StoreTypeOK, DataInv, ViewTypeOK, AlwaysAgrees, NamesApart

LEMMA DataUnchanged ==
  ASSUME StoreInv, UNCHANGED <<listVars, db>>, autoSave' \in BOOLEAN, alwaysSaved' \in BOOLEAN,
         alwaysSaved' => autoSave' /\ (alwaysSaved \/ (users = <<>> /\ db = {}))
  PROVE  DataInv' /\ Allocated' = Allocated /\ rec' = rec
<1>1. users' = users /\ rec' = rec /\ db' = db
  BY DEF listVars
<1>2. Allocated' = Allocated
  BY <1>1 DEF Allocated
<1>3. AlwaysAgrees' => ListIsTable'
  <2>1. CASE alwaysSaved
    BY <1>1, <1>2, <2>1 DEF StoreInv, AlwaysAgrees, ListIsTable, LabelsSuffice, NamesApart
  <2>2. CASE users = <<>> /\ db = {}
    <3>1. Allocated = {}
      BY <2>2 DEF Allocated
    <3> QED BY <1>1, <1>2, <2>2, <3>1 DEF ListIsTable
  <2> QED BY <2>1, <2>2 DEF AlwaysAgrees
<1>4. /\ ListOK' /\ rec' \in [Structs -> TableRows] /\ TableOK'
      /\ LabelsSuffice => SessionsDistinct'
      /\ NamesApart => RowsShaped'
  BY <1>1, <1>2 DEF StoreInv, StoreTypeOK, ListOK, TableOK, SessionsDistinct, RowsShaped
<1> QED BY <1>1, <1>2, <1>3, <1>4 DEF DataInv

LEMMA DataWritten ==
  ASSUME StoreInv, UNCHANGED <<listVars, autoSave>>, NEW r \in Allocated, NEW quoted,
         WriteRow(rec[r], quoted) \/ Save(rec[r], quoted)
  PROVE  DataInv' /\ Allocated' = Allocated /\ rec' = rec /\ (alwaysSaved' => alwaysSaved)
<1>1. /\ users' = users /\ rec' = rec /\ autoSave' = autoSave
      /\ alwaysSaved' \in BOOLEAN /\ (alwaysSaved' => alwaysSaved)
  BY WriteEffect DEF listVars, StoreInv, StoreTypeOK
<1>2. Allocated' = Allocated
  BY <1>1 DEF Allocated
<1>3. StoreTypeOK /\ r \in Structs /\ rec[r] \in TableRows
  BY AllocatedType DEF StoreInv, StoreTypeOK
<1>4. TableOK'
  BY <1>3, SaveType
<1>5. db' = db \/ db' = Saved(rec[r])
  BY <1>3, WriteEffect DEF StoreTypeOK
<1>6. NamesApart => RowsShaped'
  BY <1>1, <1>3, <1>5, SavedEffect DEF StoreInv, RowsShaped
<1>7. AlwaysAgrees' => ListIsTable'
  <2>1. ASSUME NamesApart, LabelsSuffice, alwaysSaved PROVE db' = db
    <3>1. rec[r] \in db /\ ListIsTable
      BY <2>1 DEF StoreInv, ListIsTable
    <3>2. \A x \in db : x.name = rec[r].name => x = rec[r]
      BY <1>3, <3>1 DEF StoreTypeOK, TableOK
    <3>3. /\ rec[r] \in Saved(rec[r])
          /\ \A x \in Saved(rec[r]) : x = rec[r] \/ x \in db
          /\ \A x \in db : x.name # rec[r].name => x \in Saved(rec[r])
      BY <1>3, SavedEffect
    <3>4. Saved(rec[r]) = db
      BY <3>1, <3>2, <3>3
    <3> QED BY <1>5, <3>4
  <2> QED BY <1>1, <1>2, <2>1 DEF StoreInv, AlwaysAgrees, ListIsTable, LabelsSuffice, NamesApart
<1>8. LabelsSuffice => SessionsDistinct'
  BY <1>1, <1>2 DEF StoreInv, SessionsDistinct
<1> QED BY <1>1, <1>2, <1>4, <1>6, <1>7, <1>8 DEF StoreInv, StoreTypeOK, DataInv, ListOK

LEMMA DataAdded ==
  ASSUME StoreInv, UNCHANGED autoSave, NEW r \in Structs, NEW content \in TableRows, NEW quoted,
         Add(r, content), Save(content, quoted),
         NamesApart => Shaped(content),
         LabelsSuffice /\ ~content.isFolder => \A x \in Allocated : rec[x].name # content.name,
         AlwaysAgrees => \A x \in Allocated : rec[x].name # content.name
  PROVE  /\ DataInv' /\ r \notin Allocated /\ Allocated' = Allocated \cup {r}
         /\ rec'[r] = content /\ \A x \in Allocated : rec'[x] = rec[x]
         /\ alwaysSaved' => alwaysSaved
<1>1. /\ StoreTypeOK /\ autoSave' = autoSave
      /\ alwaysSaved' \in BOOLEAN /\ (alwaysSaved' => alwaysSaved)
  BY WriteEffect DEF StoreInv, StoreTypeOK
<1>2. /\ r \in Structs \ Allocated /\ ListOK'
      /\ Allocated' = Allocated \cup {r}
      /\ rec' \in [Structs -> TableRows]
      /\ rec'[r] = content /\ \A x \in Structs \ {r} : rec'[x] = rec[x]
  BY <1>1, AddEffect DEF ListOK
<1>3. \A x \in Allocated : x \in Structs /\ x # r /\ rec'[x] = rec[x]
  BY <1>1, <1>2, AllocatedType
<1>4. TableOK'
  BY <1>1, SaveType
<1>5. /\ db' = db \/ db' = Saved(content)
      /\ alwaysSaved' => db' = Saved(content)
  BY <1>1, WriteEffect DEF StoreTypeOK
<1>6. NamesApart => RowsShaped'
  BY <1>1, <1>2, <1>5, SavedEffect DEF StoreInv, RowsShaped
<1>7. LabelsSuffice => SessionsDistinct'
  BY <1>2, <1>3 DEF StoreInv, SessionsDistinct
<1>8. AlwaysAgrees' => ListIsTable'
  <2> SUFFICES ASSUME AlwaysAgrees, alwaysSaved' PROVE ListIsTable'
    BY <1>1 DEF AlwaysAgrees, LabelsSuffice, NamesApart
  <2>1. ListIsTable /\ db' = Saved(content)
    BY <1>5 DEF StoreInv, AlwaysAgrees
  <2>2. \A x \in db : x.name # content.name
    BY <2>1 DEF ListIsTable
  <2>3. Saved(content) = db \cup {content}
    BY <1>1, <2>2, SavedEffect
  <2>4. {rec'[x] : x \in Allocated'} = {rec[x] : x \in Allocated} \cup {content}
    BY <1>2, <1>3
  <2>5. \A x, y \in Allocated' : rec'[x].name = rec'[y].name => x = y
    BY <1>2, <1>3, <2>1 DEF ListIsTable
  <2> QED BY <2>1, <2>3, <2>4, <2>5 DEF ListIsTable
<1> QED BY <1>1, <1>2, <1>3, <1>4, <1>6, <1>7, <1>8 DEF StoreInv, StoreTypeOK, DataInv

\* The rows of the tree around a row that gets a new label.
LEMMA RelabelledRows ==
  ASSUME tree \subseteq TreeRows, NEW row \in tree, NEW new \in Labels
  PROVE  /\ \A x \in tree : x # row /\ x.in = NoFolder => x \in Relabelled(row, new)
         /\ row.in = NoFolder => [label |-> new, in |-> NoFolder] \in Relabelled(row, new)
         /\ \A y \in Relabelled(row, new) :
              \/ y \in tree
              \/ y.label = new /\ y.in = row.in
              \/ \E x \in tree : x.label = y.label /\ x.in = row.label
<1> DEFINE g(x) == IF x = row THEN [x EXCEPT !.label = new]
                   ELSE IF row.in = NoFolder /\ x.in = row.label THEN [x EXCEPT !.in = new]
                   ELSE x
<1>1. Relabelled(row, new) = {g(x) : x \in tree}
  BY Zenon DEF Relabelled
<1>2. \A x \in tree : x.label \in Labels /\ NoFolder \notin Labels
  BY LabelFacts DEF TreeRows
<1>3. ASSUME NEW x \in tree, x # row, x.in = NoFolder PROVE g(x) = x
  BY <1>2, <1>3
<1>4. ASSUME row.in = NoFolder PROVE g(row) = [label |-> new, in |-> NoFolder]
  <2>1. row \in TreeRows
    OBVIOUS
  <2> QED BY <1>4, <2>1 DEF TreeRows
<1>5. ASSUME NEW x \in tree
      PROVE  \/ g(x) \in tree
             \/ g(x).label = new /\ g(x).in = row.in
             \/ x.label = g(x).label /\ x.in = row.label
  <2>1. x \in TreeRows
    OBVIOUS
  <2> QED BY <2>1 DEF TreeRows
<1> HIDE DEF g
<1> QED BY <1>1, <1>3, <1>4, <1>5

LEMMA RelabelledShaped ==
  ASSUME tree \subseteq TreeRows, TreeShaped, NEW row \in tree, NEW new \in Labels,
         new \in FolderLabels => row.in = NoFolder,
         tree' = tree \/ tree' = Relabelled(row, new)
  PROVE  tree' \subseteq TreeRows /\ TreeShaped'
<1>1. tree' \subseteq TreeRows
  BY RelabelledType
<1>2. row.label # NoFolder
  BY LabelFacts DEF TreeRows
<1>3. \A y \in tree' : \/ y \in tree
                       \/ y.label = new /\ y.in = row.in
                       \/ \E x \in tree : x.label = y.label /\ x.in = row.label
  BY RelabelledRows
<1>4. \A y \in tree' : y.label \in FolderLabels => y.in = NoFolder
  BY <1>2, <1>3 DEF TreeShaped
<1> QED BY <1>1, <1>4 DEF TreeShaped

LEMMA SessionRenamed ==
  ASSUME StoreInv, ConnectDialog, NEW row \in tree, NEW r \in Allocated, NEW new \in HostLabels,
         rec[r].name = row.label, ~rec[r].isFolder, NewToTheList(new),
         NEW before \in BOOLEAN, RenameSession(row, r, new, before),
         UNCHANGED <<users, autoSave, dialog, into, qStatus, tabVars, app>>
  PROVE  StoreInv'
<1>1. StoreTypeOK /\ r \in Structs /\ new \in Labels /\ new \in SessionLabels /\ tree \subseteq TreeRows
  BY AllocatedType, LabelFacts DEF StoreInv, StoreTypeOK
<1>2. /\ rec' \in [Structs -> TableRows] /\ TableOK'
      /\ tree' = tree \/ tree' = Relabelled(row, new)
      /\ SessionTakes(r, new)
      /\ alwaysSaved' \in BOOLEAN /\ (alwaysSaved' => alwaysSaved)
  BY <1>1, RenameSessionEffect
<1>3. Allocated' = Allocated /\ Allocated \subseteq Structs /\ autoSave' = autoSave
  BY <1>1, AllocatedType DEF Allocated
<1>4. NamesApart => row.label \in SessionLabels /\ row.label \notin FolderLabels /\ new \notin FolderLabels
  BY <1>1 DEF StoreInv, RowsShaped, Shaped, NamesApart
<1>5. DataInv'
  <2>1. CASE rec' = rec /\ db' = db
    <3>1. UNCHANGED <<listVars, db>> /\ autoSave' \in BOOLEAN /\ alwaysSaved' \in BOOLEAN
          /\ (alwaysSaved' => autoSave' /\ alwaysSaved)
      BY <1>1, <1>2, <1>3, <2>1 DEF listVars, StoreTypeOK
    <3> QED BY <3>1, DataUnchanged
  <2>2. CASE /\ rec' = [rec EXCEPT ![r] = [rec[r] EXCEPT !.name = new]]
             /\ \A c \in Structs : /\ rec'[c].name = IF c = r THEN new ELSE rec[c].name
                                   /\ rec'[c].folder = rec[c].folder
                                   /\ rec'[c].isFolder = rec[c].isFolder
             /\ \/ ~alwaysSaved' /\ db' = db
                \/ db' = {IF x.name = rec[r].name THEN [x EXCEPT !.name = new] ELSE x : x \in db}
    <3>1. LabelsSuffice => SessionsDistinct'
      <4>1. ASSUME LabelsSuffice, NEW x \in Allocated, NEW y \in Allocated,
                   rec'[x].name = rec'[y].name, ~rec'[x].isFolder, ~rec'[y].isFolder
            PROVE  x = y
        BY <1>3, <2>2, <4>1 DEF StoreInv, SessionsDistinct, NewToTheList
      <4> QED BY <1>3, <4>1 DEF SessionsDistinct
    <3>2. ASSUME NEW x \in TableRows
          PROVE  /\ [x EXCEPT !.name = new].name = new
                 /\ [x EXCEPT !.name = new].isFolder = x.isFolder
      BY <1>1, RenamedRow
    <3>3. NamesApart => RowsShaped'
      <4> SUFFICES ASSUME NamesApart PROVE RowsShaped'
        OBVIOUS
      <4>1. RowsShaped /\ db \subseteq TableRows
        BY <1>1 DEF StoreInv, StoreTypeOK, TableOK
      <4>2. \A c \in Structs : Shaped(rec'[c])
        BY <1>1, <2>2, <4>1 DEF RowsShaped, Shaped
      <4>3. ASSUME NEW x \in db, x.name = rec[r].name PROVE ~x.isFolder
        BY <1>4, <4>1, <4>3 DEF RowsShaped, Shaped
      <4>4. ASSUME NEW x \in db, x.name = rec[r].name PROVE Shaped([x EXCEPT !.name = new])
        <5>1. PICK z : z = [x EXCEPT !.name = new]
          OBVIOUS
        <5>2. z.name = new /\ ~z.isFolder
          BY <3>2, <4>1, <4>3, <4>4, <5>1
        <5>3. Shaped(z)
          BY <1>1, <5>2 DEF Shaped
        <5> QED BY <5>1, <5>3
      <4>5. \A x \in db' : Shaped(x)
        BY <2>2, <4>1, <4>4 DEF RowsShaped
      <4> QED BY <4>2, <4>5 DEF RowsShaped
    <3>4. AlwaysAgrees' => ListIsTable'
      <4> SUFFICES ASSUME AlwaysAgrees, alwaysSaved' PROVE ListIsTable'
        BY <1>2 DEF AlwaysAgrees, NamesApart, LabelsSuffice
      <4>1. autoSave /\ ListIsTable
        BY <1>1 DEF StoreInv, StoreTypeOK, AlwaysAgrees
      <4>2. \A x, y \in Allocated : rec'[x].name = rec'[y].name => x = y
        BY <1>3, <2>2, <4>1 DEF ListIsTable, NewToTheList
      <4>3. ASSUME NEW c \in Allocated
            PROVE  rec'[c] = IF rec[c].name = rec[r].name THEN [rec[c] EXCEPT !.name = new] ELSE rec[c]
        <5>1. CASE c = r
          BY <1>1, <2>2, <5>1 DEF StoreTypeOK
        <5>2. CASE c # r
          BY <1>1, <1>3, <2>2, <4>1, <5>2 DEF StoreTypeOK, ListIsTable
        <5> QED BY <5>1, <5>2
      <4>4. db' = {rec'[c] : c \in Allocated}
        BY <2>2, <4>1, <4>3 DEF ListIsTable
      <4> QED BY <1>3, <4>2, <4>4 DEF ListIsTable
    <3> QED BY <1>1, <1>2, <1>3, <3>1, <3>3, <3>4 DEF DataInv, StoreTypeOK, ListOK
  <2> QED BY Zenon, <1>2, <2>1, <2>2 DEF SessionTakes
<1>6. tree' \subseteq TreeRows /\ (NamesApart => TreeShaped')
  <2>1. tree' \subseteq TreeRows
    BY <1>1, <1>2, RelabelledType
  <2> QED BY <1>1, <1>2, <1>4, <2>1, RelabelledShaped DEF StoreInv
<1>7. AlwaysAgrees' => TreeHasFolders'
  <2> SUFFICES ASSUME AlwaysAgrees PROVE TreeHasFolders'
    BY <1>2 DEF AlwaysAgrees, NamesApart, LabelsSuffice
  <2>1. RowsShaped /\ TreeHasFolders /\ NamesApart
    BY DEF StoreInv, AlwaysAgrees
  <2>2. ASSUME NEW c \in Allocated, rec'[c].isFolder
        PROVE  [label |-> rec'[c].name, in |-> NoFolder] \in tree'
    <3>1. c \in Structs /\ rec[c].isFolder /\ rec'[c].name = rec[c].name
      BY <1>2, <1>3, <2>2 DEF SessionTakes
    <3>2. [label |-> rec[c].name, in |-> NoFolder] \in tree
      BY <2>1, <3>1 DEF TreeHasFolders, ConnectDialog
    <3>3. rec[c].name # row.label
      BY <1>4, <2>1, <3>1 DEF RowsShaped, Shaped
    <3>4. PICK x \in tree : x = [label |-> rec[c].name, in |-> NoFolder]
      BY <3>2
    <3>5. x # row /\ x.in = NoFolder
      BY <3>3, <3>4
    <3>6. x \in tree'
      <4>1. x \in Relabelled(row, new)
        BY <1>1, <3>5, RelabelledRows
      <4> QED BY <1>2, <4>1
    <3> QED BY <3>1, <3>4, <3>6
  <2> QED BY <1>3, <2>2 DEF TreeHasFolders
<1>8. ViewTypeOK'
  BY <1>1, <1>6 DEF StoreTypeOK, ViewTypeOK, tabVars
<1> QED BY <1>5, <1>6, <1>7, <1>8, StorePartsNext

LEMMA FolderRenamed ==
  ASSUME StoreInv, ConnectDialog, NEW row \in tree, NEW r \in Allocated, NEW new \in FolderLabels,
         rec[r].name = row.label, rec[r].isFolder, NewToTheList(new),
         NEW before \in BOOLEAN, RenameFolder(row, r, new, before),
         UNCHANGED <<users, autoSave, dialog, into, qStatus, tabVars, app>>
  PROVE  StoreInv'
<1>1. StoreTypeOK /\ r \in Structs /\ new \in Labels /\ tree \subseteq TreeRows /\ row.label \in Labels
  BY AllocatedType, LabelFacts DEF StoreInv, StoreTypeOK, TreeRows
<1>2. /\ rec' \in [Structs -> TableRows] /\ TableOK' /\ FolderTakes(row, r, new)
      /\ alwaysSaved' \in BOOLEAN /\ (alwaysSaved' => alwaysSaved)
      /\ alwaysSaved' /\ rec[r].isFolder /\ FoldersInPlace /\ ListIsTable /\ NewToTheList(new)
           => FolderMoves(row, r, new)
  BY <1>1, RenameFolderEffect
<1>3. Allocated' = Allocated /\ Allocated \subseteq Structs /\ autoSave' = autoSave
  BY <1>1, AllocatedType DEF Allocated
<1>4. NamesApart => row.label \in FolderLabels /\ rec[r].folder = row.label /\ FoldersInPlace
  BY <1>1, <1>3 DEF StoreInv, RowsShaped, Shaped, FoldersInPlace
<1>5. NamesApart => row.in = NoFolder
  BY <1>4 DEF StoreInv, TreeShaped
<1>6. LabelsSuffice => SessionsDistinct'
  <2>1. ASSUME NEW c \in Allocated, ~rec'[c].isFolder PROVE rec'[c].name = rec[c].name /\ ~rec[c].isFolder
    BY <1>2, <1>3, <2>1 DEF FolderTakes
  <2> QED BY <1>3, <2>1 DEF StoreInv, SessionsDistinct
<1>7. NamesApart => RowsShaped'
  <2> SUFFICES ASSUME NamesApart PROVE RowsShaped'
    OBVIOUS
  <2>1. RowsShaped
    BY DEF StoreInv
  <2>2. \A c \in Structs : Shaped(rec'[c])
    BY <1>2, <2>1 DEF RowsShaped, Shaped, FolderTakes
  <2>3. ASSUME NEW y \in db' PROVE Shaped(y)
    <3>1. CASE y \in db
      BY <2>1, <3>1 DEF RowsShaped
    <3>2. ASSUME NEW x \in db, NEW c \in Allocated, y.isFolder = x.isFolder, y.folder = new,
                 rec[c].name = x.name, y.name = IF rec[c].isFolder THEN new ELSE x.name
          PROVE  Shaped(y)
      <4>1. Shaped(x) /\ Shaped(rec[c]) /\ x \in TableRows /\ rec[c] \in TableRows
        BY <1>1, <1>3, <2>1 DEF RowsShaped, StoreTypeOK, TableOK
      <4>2. x.isFolder \in BOOLEAN /\ rec[c].isFolder \in BOOLEAN
        BY <4>1 DEF TableRows
      <4>3. x.isFolder <=> rec[c].isFolder
        BY <3>2, <4>1 DEF Shaped, NamesApart
      <4> QED BY <3>2, <4>1, <4>2, <4>3 DEF Shaped
    <3> QED BY <1>2, <3>1, <3>2 DEF FolderTakes
  <2> QED BY <2>2, <2>3 DEF RowsShaped
<1>8. AlwaysAgrees /\ alwaysSaved' => FolderMoves(row, r, new)
  BY <1>1, <1>2, <1>4 DEF AlwaysAgrees, StoreInv, StoreTypeOK
<1>9. ASSUME AlwaysAgrees, alwaysSaved'
      PROVE  \A c \in Allocated :
               \/ rec[c].folder # rec[r].folder /\ rec'[c] = rec[c]
               \/ rec[c].folder = rec[r].folder /\ rec'[c].name = IF rec[c].isFolder THEN new ELSE rec[c].name
  BY <1>2, <1>3, <1>8, <1>9 DEF FolderTakes, FolderMoves
<1>10. AlwaysAgrees' => ListIsTable'
  <2> SUFFICES ASSUME AlwaysAgrees, alwaysSaved' PROVE ListIsTable'
    BY <1>2 DEF AlwaysAgrees, NamesApart, LabelsSuffice
  <2>1. ListIsTable /\ NamesApart
    BY DEF StoreInv, AlwaysAgrees
  <2>2. ASSUME NEW x \in Allocated, rec[x].isFolder, rec[x].folder = rec[r].folder PROVE x = r
    BY <1>4, <2>1, <2>2 DEF ListIsTable, FoldersInPlace
  <2>3. ASSUME NEW x \in Allocated PROVE rec'[x].name = IF x = r THEN new ELSE rec[x].name
    <3>1. CASE x = r
      BY <1>9, <3>1
    <3>2. CASE x # r
      BY <1>9, <2>2, <3>2
    <3> QED BY <3>1, <3>2
  <2>4. \A x, y \in Allocated : rec'[x].name = rec'[y].name => x = y
    BY <2>1, <2>3 DEF ListIsTable, NewToTheList
  <2> QED BY <1>3, <1>8, <2>4 DEF ListIsTable, FolderMoves
<1>11. tree' \subseteq TreeRows /\ (NamesApart => TreeShaped')
  <2>1. tree' = tree \/ tree' = Relabelled(row, new)
    BY <1>2 DEF FolderTakes
  <2>2. tree' \subseteq TreeRows
    BY <1>1, <2>1, RelabelledType
  <2> QED BY <1>1, <1>5, <2>1, <2>2, RelabelledShaped DEF StoreInv
<1>12. AlwaysAgrees' => TreeHasFolders'
  <2> SUFFICES ASSUME AlwaysAgrees, alwaysSaved' PROVE TreeHasFolders'
    BY <1>2 DEF AlwaysAgrees, NamesApart, LabelsSuffice
  <2>1. ListIsTable /\ TreeHasFolders /\ NamesApart
    BY DEF StoreInv, AlwaysAgrees
  <2>2. tree' = Relabelled(row, new)
    BY <1>8 DEF FolderMoves
  <2>3. ASSUME NEW c \in Allocated, rec'[c].isFolder
        PROVE  [label |-> rec'[c].name, in |-> NoFolder] \in tree'
    <3>1. rec[c].isFolder
      BY <1>2, <1>3, <2>3 DEF FolderTakes
    <3>2. CASE rec[c].folder = rec[r].folder
      <4>1. rec'[c].name = new
        BY <1>9, <3>1, <3>2
      <4> QED BY <1>1, <1>5, <2>1, <2>2, <4>1, RelabelledRows
    <3>3. CASE rec[c].folder # rec[r].folder
      <4>1. rec'[c] = rec[c] /\ rec[c].name # row.label
        BY <1>4, <1>9, <2>1, <3>1, <3>3 DEF FoldersInPlace
      <4>2. PICK x \in tree : x = [label |-> rec[c].name, in |-> NoFolder]
        BY <2>1, <3>1 DEF TreeHasFolders, ConnectDialog
      <4>3. x # row /\ x.in = NoFolder
        BY <4>1, <4>2
      <4>4. x \in Relabelled(row, new)
        BY <1>1, <4>3, RelabelledRows
      <4> QED BY <2>2, <4>1, <4>2, <4>4
    <3> QED BY <3>2, <3>3
  <2> QED BY <1>3, <2>3 DEF TreeHasFolders
<1>13. ViewTypeOK'
  BY <1>1, <1>11 DEF StoreTypeOK, ViewTypeOK, tabVars
<1>14. DataInv'
  BY <1>1, <1>2, <1>3, <1>6, <1>7, <1>10 DEF DataInv, StoreTypeOK, ListOK
<1> QED BY <1>11, <1>12, <1>13, <1>14, StorePartsNext

LEMMA RenameKeeps ==
  ASSUME StoreInv, NEW row \in tree, NEW new \in HostLabels \cup FolderLabels, RenameRecord(row, new)
  PROVE  StoreInv'
<1> DEFINE r == Find(row.label)
<1>1. StoreTypeOK /\ r # NoStruct /\ ConnectDialog /\ Find(new) = NoStruct
  BY DEF StoreInv, RenameRecord, NameIsFree
<1>2. r \in Allocated /\ rec[r].name = row.label
  BY <1>1, FoundRecord
<1>3. NewToTheList(new)
  BY <1>1, NoRecordFound DEF NewToTheList
<1>4. UNCHANGED <<users, autoSave, dialog, into, qStatus, tabVars, app>>
  BY DEF RenameRecord
<1>5. ASSUME NEW before \in BOOLEAN, rec[r].isFolder, new \in FolderLabels, RenameFolder(row, r, new, before)
      PROVE  StoreInv'
  <2> HIDE DEF r
  <2> QED BY <1>1, <1>2, <1>3, <1>4, <1>5, FolderRenamed
<1>6. ASSUME NEW before \in BOOLEAN, ~rec[r].isFolder, new \in HostLabels, RenameSession(row, r, new, before)
      PROVE  StoreInv'
  <2> HIDE DEF r
  <2> QED BY <1>1, <1>2, <1>3, <1>4, <1>6, SessionRenamed
<1> QED BY <1>5, <1>6 DEF RenameRecord

-----------------------------------------------------------------------------
(* Deleting, starting.                                                     *)
(***************************************************************************)
LEMMA EraseKeeps ==
  ASSUME StoreInv, NEW row \in tree, Erase(row)
  PROVE  StoreInv'
<1>1. PICK r : r = Find(row.label)
  OBVIOUS
<1>2. PICK gone : gone = IF rec[r].isFolder THEN InFolder(rec[r].folder) ELSE {r}
  OBVIOUS
<1>3. /\ ConnectDialog /\ r # NoStruct
      /\ users' = Without(gone)
      /\ rec' = [c \in Structs |-> IF c \in gone THEN Blank ELSE rec[c]]
      /\ DeleteRows(r) /\ tree' = Removed(row)
      /\ UNCHANGED <<saveVars, dialog, into, qStatus, tabVars, app>>
  BY <1>1, <1>2 DEF Erase
<1>4. StoreTypeOK /\ tree \subseteq TreeRows /\ row.label \in Labels
  BY DEF StoreInv, StoreTypeOK, TreeRows
<1>5. r \in Allocated /\ r \in Structs /\ rec[r].name = row.label /\ Allocated \subseteq Structs
  BY <1>1, <1>3, <1>4, FoundRecord, AllocatedType
<1>6. r \in gone /\ (\A c \in gone : c = r \/ (rec[r].isFolder /\ rec[c].folder = rec[r].folder))
      /\ (\A c \in Allocated : rec[r].isFolder /\ rec[c].folder = rec[r].folder => c \in gone)
  BY <1>2, <1>5 DEF InFolder
<1>7. ListOK' /\ Allocated' = Allocated \ gone
  <2>1. PICK s : s = Without(gone)
    OBVIOUS
  <2>2. /\ s \in Seq(Structs) /\ \A i, j \in 1 .. Len(s) : s[i] = s[j] => i = j
        /\ {s[i] : i \in 1 .. Len(s)} = Allocated \ gone
    BY <1>4, <2>1, WithoutEffect
  <2>3. users' = s
    BY <1>3, <2>1
  <2> QED BY <2>2, <2>3 DEF ListOK, Allocated
<1>8. rec' \in [Structs -> TableRows] /\ \A c \in Allocated' : c \in Allocated /\ rec'[c] = rec[c]
  BY <1>3, <1>4, <1>5, <1>7, BlankIsRow DEF StoreTypeOK
<1>9. db' \subseteq db
  BY <1>3 DEF DeleteRows
<1>10. TableOK'
  BY <1>4, <1>9, FewerRows
<1>11. autoSave' = autoSave /\ alwaysSaved' = alwaysSaved
  BY <1>3 DEF saveVars
<1>12. LabelsSuffice => SessionsDistinct'
  BY <1>8 DEF StoreInv, SessionsDistinct
<1>13. NamesApart => RowsShaped'
  BY <1>3, <1>9, BlankIsRow DEF StoreInv, RowsShaped
<1>14. AlwaysAgrees' => ListIsTable'
  <2> SUFFICES ASSUME AlwaysAgrees PROVE ListIsTable'
    BY <1>11 DEF AlwaysAgrees, NamesApart, LabelsSuffice
  <2>1. ListIsTable /\ autoSave
    BY <1>4 DEF StoreInv, StoreTypeOK, AlwaysAgrees
  <2>2. \A c \in Allocated : rec[c] \in db' <=> c \notin gone
    <3>1. CASE rec[r].isFolder
      BY <1>3, <1>5, <1>6, <2>1, <3>1 DEF ListIsTable, DeleteRows
    <3>2. CASE ~rec[r].isFolder
      BY <1>3, <1>5, <1>6, <2>1, <3>2 DEF ListIsTable, DeleteRows, RowsNamed
    <3> QED BY <3>1, <3>2
  <2>3. db' = {rec'[c] : c \in Allocated'}
    BY <1>7, <1>8, <1>9, <2>1, <2>2 DEF ListIsTable
  <2>4. \A x, y \in Allocated' : rec'[x].name = rec'[y].name => x = y
    BY <1>8, <2>1 DEF ListIsTable
  <2> QED BY <2>3, <2>4 DEF ListIsTable
<1>15. tree' \subseteq tree
  BY <1>3 DEF Removed
<1>16. tree' \subseteq TreeRows /\ (NamesApart => TreeShaped')
  BY <1>4, <1>15 DEF StoreInv, TreeShaped
<1>17. AlwaysAgrees' => TreeHasFolders'
  <2> SUFFICES ASSUME AlwaysAgrees, NEW c \in Allocated', rec'[c].isFolder
               PROVE  [label |-> rec'[c].name, in |-> NoFolder] \in tree'
    BY <1>11 DEF AlwaysAgrees, NamesApart, LabelsSuffice, TreeHasFolders
  <2>1. ListIsTable /\ TreeHasFolders
    BY DEF StoreInv, AlwaysAgrees
  <2>2. c \in Allocated /\ rec'[c] = rec[c] /\ rec[c].name # row.label
    BY <1>5, <1>6, <1>7, <1>8, <2>1 DEF ListIsTable
  <2>3. PICK x \in tree : x = [label |-> rec[c].name, in |-> NoFolder]
    BY <1>3, <2>1, <2>2 DEF TreeHasFolders, ConnectDialog
  <2>4. x # row /\ x.in # row.label
    BY <1>4, <2>2, <2>3, LabelFacts
  <2>5. x \in tree'
    BY <1>3, <2>4 DEF Removed
  <2> QED BY <2>2, <2>3, <2>5
<1>18. ViewTypeOK'
  BY <1>3, <1>4, <1>16 DEF StoreTypeOK, ViewTypeOK, tabVars
<1>19. DataInv'
  BY <1>4, <1>7, <1>8, <1>10, <1>11, <1>12, <1>13, <1>14 DEF DataInv, StoreTypeOK
<1> QED BY <1>16, <1>17, <1>18, <1>19, StorePartsNext

LEMMA RestartKeeps ==
  ASSUME StoreInv, Restart
  PROVE  StoreInv'
<1> DEFINE n == Cardinality(db)
<1>1. StoreTypeOK /\ IsFiniteSet(db) /\ n \in Nat /\ n <= MaxRecords /\ MaxRecords \in Nat
  BY FS_CardinalityType, Bounds DEF StoreInv, StoreTypeOK, TableOK
<1>2. 1 .. n \subseteq Structs
  <2> HIDE DEF n
  <2> QED BY <1>1 DEF Structs
<1>3. /\ users' = [i \in 1 .. n |-> i] /\ db' = db
      /\ UNCHANGED saveVars
      /\ dialog' = "none" /\ tree' = {} /\ into' = NoFolder /\ qStatus' = "none"
      /\ tabUser' = [t \in Terminals |-> NoStruct] /\ currentUser' = NoStruct /\ app' = "up"
  BY DEF Restart, CloseDialogs
<1>4. PICK row \in [1 .. n -> db] :
        /\ {row[i] : i \in DOMAIN row} = db
        /\ rec' = [c \in Structs |-> IF c \in DOMAIN row THEN row[c] ELSE Blank]
  BY DEF Restart
<1> HIDE DEF n
<1>5. users' \in Seq(Structs) /\ Len(users') = n /\ \A i \in 1 .. n : users'[i] = i
  <2>1. users' \in [1 .. n -> Structs]
    BY <1>2, <1>3
  <2> QED BY <1>1, <1>3, <2>1, SeqDef, LenProperties
<1>6. ListOK' /\ Allocated' = 1 .. n
  BY <1>5 DEF ListOK, Allocated
<1>7. \A i, j \in 1 .. n : row[i] = row[j] => i = j
  <2>1. IsFiniteSet(1 .. n) /\ Cardinality(1 .. n) = n
    <3>1. 1 \in Int /\ n \in Int /\ n - 1 + 1 = n /\ (1 > n => n = 0)
      BY <1>1
    <3> QED BY <3>1, FS_Interval
  <2>2. row \in Surjection(1 .. n, db)
    BY <1>4 DEF Surjection
  <2>3. row \in Injection(1 .. n, db)
    BY <2>1, <2>2, FS_SurjSameCardinalityImpliesInj DEF n
  <2> QED BY <2>3 DEF Injection, IsInjective
<1>8. /\ rec' \in [Structs -> TableRows]
      /\ \A i \in 1 .. n : rec'[i] = row[i] /\ row[i] \in db
      /\ \A c \in Structs : rec'[c] \in db \/ rec'[c] = Blank
  BY <1>1, <1>2, <1>4, BlankIsRow DEF StoreTypeOK, TableOK
<1>9. db' = {rec'[c] : c \in Allocated'}
  BY <1>3, <1>4, <1>6, <1>8
<1>10. \A x, y \in Allocated' : rec'[x].name = rec'[y].name => x = y
  BY <1>1, <1>6, <1>7, <1>8 DEF StoreTypeOK, TableOK
<1>11. ListIsTable' /\ SessionsDistinct'
  BY <1>9, <1>10 DEF ListIsTable, SessionsDistinct
<1>12. NamesApart => RowsShaped'
  BY <1>3, <1>8, BlankIsRow DEF StoreInv, RowsShaped
<1>13. DataInv'
  BY <1>1, <1>3, <1>6, <1>8, <1>11, <1>12 DEF DataInv, StoreTypeOK, TableOK, saveVars
<1>14. ViewTypeOK' /\ TreeShaped' /\ TreeHasFolders'
  BY <1>3 DEF ViewTypeOK, TreeShaped, TreeHasFolders, Parents
<1> QED BY <1>13, <1>14, StorePartsNext

LEMMA InitKeeps == StoreInit => StoreInv
<1> SUFFICES ASSUME StoreInit PROVE StoreInv
  OBVIOUS
<1>1. Allocated = {} /\ ListOK
  BY DEF StoreInit, Allocated, ListOK
<1>2. rec \in [Structs -> TableRows] /\ \A r \in Structs : rec[r] = Blank
  BY BlankIsRow DEF StoreInit
<1>3. TableOK
  <2>1. IsFiniteSet(db) /\ Cardinality(db) = 0
    BY FS_EmptySet DEF StoreInit
  <2> QED BY <2>1, Bounds DEF TableOK, StoreInit
<1>4. autoSave \in BOOLEAN /\ alwaysSaved = autoSave
  <2>1. AutoSaves \subseteq BOOLEAN
    BY Zenon, StoreAssumption
  <2> QED BY <2>1 DEF StoreInit
<1>5. SessionsDistinct /\ RowsShaped /\ ListIsTable
  BY <1>1, <1>2, BlankIsRow DEF StoreInit, SessionsDistinct, RowsShaped, ListIsTable
<1>6. DataInv
  BY <1>1, <1>2, <1>3, <1>4, <1>5 DEF DataInv
<1>7. ViewTypeOK /\ TreeShaped /\ TreeHasFolders
  BY DEF StoreInit, ViewTypeOK, TreeShaped, TreeHasFolders, Parents
<1> QED BY <1>6, <1>7, StoreParts

-----------------------------------------------------------------------------
(* The other operations.                                                   *)
(***************************************************************************)
LEMMA ViewKept ==
  ASSUME StoreInv, DataInv', ViewTypeOK', Allocated' = Allocated, rec' = rec, tree' = tree,
         alwaysSaved' => alwaysSaved,
         dialog' \in {"connect", "quick_in_connect"} => dialog \in {"connect", "quick_in_connect"}
  PROVE  StoreInv'
<1>1. NamesApart => TreeShaped'
  BY DEF StoreInv, TreeShaped
<1>2. AlwaysAgrees' => TreeHasFolders'
  BY DEF StoreInv, AlwaysAgrees, NamesApart, LabelsSuffice, TreeHasFolders
<1> QED BY <1>1, <1>2, StorePartsNext

LEMMA ViewClosed ==
  ASSUME StoreInv, DataInv', ViewTypeOK', tree' = tree \/ tree' = {}, dialog' \in {"none", "quick"}
  PROVE  StoreInv'
<1>1. NamesApart => TreeShaped'
  BY DEF StoreInv, TreeShaped
<1>2. TreeHasFolders'
  BY DEF TreeHasFolders
<1> QED BY <1>1, <1>2, StorePartsNext

LEMMA SameData ==
  ASSUME StoreInv, UNCHANGED <<listVars, db, saveVars>>
  PROVE  DataInv' /\ Allocated' = Allocated /\ rec' = rec /\ alwaysSaved' = alwaysSaved
<1>1. /\ UNCHANGED <<listVars, db>> /\ autoSave' \in BOOLEAN /\ alwaysSaved' \in BOOLEAN
      /\ alwaysSaved' => autoSave' /\ alwaysSaved
      /\ alwaysSaved' = alwaysSaved
  BY DEF saveVars, StoreInv, StoreTypeOK
<1> QED BY <1>1, DataUnchanged

LEMMA FreshShell ==
  ASSUME StoreInv, UNCHANGED autoSave, NEW r \in Structs, Add(r, Blank), Save(Blank, FALSE),
         Find(ShellName) = NoStruct
  PROVE  DataInv'
<1>1. \A x \in Allocated : rec[x].name # ShellName
  BY NoRecordFound DEF StoreInv
<1>2. Blank.name = ShellName
  BY DEF Blank
<1> QED BY <1>1, <1>2, BlankIsRow, DataAdded

LEMMA LocalShellKeeps ==
  ASSUME StoreInv, NEW t \in Terminals, LocalShell(t)
  PROVE  StoreInv'
<1>1. StoreTypeOK /\ dialog = "none" /\ UNCHANGED <<autoSave, dialogVars, app>>
  BY DEF LocalShell, MainWindow, StoreInv
<1>2. ASSUME NEW r \in Structs, TabFor(t, r) PROVE ViewTypeOK'
  BY <1>1, <1>2 DEF TabFor, ViewTypeOK, StoreTypeOK, dialogVars
<1>3. ASSUME NEW quoted, Find(ShellName) # NoStruct, TabFor(t, Find(ShellName)),
             Save(rec[Find(ShellName)], quoted), UNCHANGED listVars
      PROVE  StoreInv'
  <2>1. Find(ShellName) \in Allocated /\ Find(ShellName) \in Structs
    BY <1>1, <1>3, FoundRecord
  <2>2. DataInv'
    BY <1>1, <1>3, <2>1, DataWritten
  <2>3. ViewTypeOK'
    BY <1>2, <1>3, <2>1
  <2> QED BY <1>1, <2>2, <2>3, ViewClosed DEF dialogVars
<1>4. ASSUME NEW r \in Structs, Find(ShellName) = NoStruct, Add(r, Blank), TabFor(t, r),
             Save(Blank, FALSE)
      PROVE  StoreInv'
  <2>1. DataInv'
    BY <1>1, <1>4, FreshShell
  <2>2. ViewTypeOK'
    BY <1>2, <1>4
  <2> QED BY <1>1, <2>1, <2>2, ViewClosed DEF dialogVars
<1> QED BY <1>3, <1>4 DEF LocalShell

LEMMA TabsKeep ==
  ASSUME StoreInv, TabsStep
  PROVE  StoreInv'
<1>1. ASSUME NEW t \in Terminals, DropTab(t) PROVE StoreInv'
  <2>1. UNCHANGED <<listVars, db, saveVars, dialogVars, app>>
    BY <1>1 DEF DropTab
  <2>2. tabUser' \in [Terminals -> Structs \cup {NoStruct}] /\ currentUser' \in Structs \cup {NoStruct}
    BY <1>1 DEF DropTab, StoreInv, StoreTypeOK
  <2>3. ViewTypeOK' /\ tree' = tree /\ dialog' = dialog
    BY <2>1, <2>2 DEF ViewTypeOK, StoreInv, StoreTypeOK, dialogVars
  <2> QED BY <2>1, <2>3, SameData, ViewKept
<1>2. CASE RememberLogin
  <2>1. UNCHANGED <<listVars, autoSave, dialogVars, tabVars>>
    BY <1>2 DEF RememberLogin
  <2>2. ViewTypeOK' /\ tree' = tree /\ dialog' = dialog
    BY <1>2, <2>1 DEF RememberLogin, ViewTypeOK, StoreInv, StoreTypeOK, dialogVars, tabVars
  <2>3. ASSUME currentUser \in Allocated, NEW quoted, WriteRow(rec[currentUser], quoted)
        PROVE  StoreInv'
    BY <2>1, <2>2, <2>3, DataWritten, ViewKept
  <2>4. CASE UNCHANGED <<db, alwaysSaved>>
    BY <2>1, <2>2, <2>4, SameData, ViewKept DEF saveVars
  <2> QED BY <1>2, <2>3, <2>4 DEF RememberLogin
<1> QED BY <1>1, <1>2, LocalShellKeeps DEF TabsStep

LEMMA QuickConnectKeeps ==
  ASSUME StoreInv, NEW host \in Hosts, NEW shell \in BOOLEAN, QuickConnect(host, shell)
  PROVE  StoreInv'
<1>1. PICK content : content = [name |-> UnusedLabel(host), folder |-> IF shell THEN NoFolder ELSE into,
                                isFolder |-> FALSE]
  OBVIOUS
<1>2. PICK r \in Structs :
        /\ Add(r, content)
        /\ \/ \E t \in Terminals : TabFor(t, r)
           \/ dialog = "quick_in_connect" /\ currentUser' = r /\ UNCHANGED tabUser
  BY <1>1 DEF QuickConnect
<1>3. qStatus' = "ok" /\ CloseDialogs /\ UNCHANGED <<autoSave, app>>
  BY DEF QuickConnect
<1>10. PICK quoted \in BOOLEAN : Save(content, quoted)
  BY <1>1 DEF QuickConnect
<1>4. StoreTypeOK
  BY DEF StoreInv
<1>5. /\ content \in TableRows /\ content.name = UnusedLabel(host) /\ ~content.isFolder
      /\ UnusedLabel(host) \in SessionLabels
  <2>1. UnusedLabel(host) \in HostLabels
    BY UnusedLabelType
  <2>2. UnusedLabel(host) \in SessionLabels /\ UnusedLabel(host) \in Labels
    BY <2>1, LabelFacts
  <2>3. NoFolder \in Parents /\ into \in Parents
    BY <1>4 DEF Parents, StoreTypeOK
  <2> QED BY <1>1, <2>2, <2>3 DEF TableRows
<1>6. Shaped(content)
  BY <1>5 DEF Shaped
<1>7. LabelsSuffice => \A x \in Allocated : rec[x].name # content.name
  <2>1. r \in Structs \ Allocated
    BY <1>2 DEF Add
  <2> QED BY <1>4, <1>5, <2>1, UnusedLabelIsFree
<1>8. DataInv'
  BY <1>2, <1>3, <1>5, <1>6, <1>7, <1>10, DataAdded DEF AlwaysAgrees
<1>9. ViewTypeOK'
  BY <1>2, <1>3, <1>4 DEF ViewTypeOK, StoreTypeOK, CloseDialogs, TabFor, Parents
<1> QED BY <1>3, <1>8, <1>9, ViewClosed DEF CloseDialogs

LEMMA QuickKeeps ==
  ASSUME StoreInv, QuickStep
  PROVE  StoreInv'
<1>1. StoreTypeOK /\ NoFolder \in Parents /\ \A row \in tree : row.label \in Parents
  BY DEF StoreInv, StoreTypeOK, Parents, TreeRows
<1>2. CASE OpenQuick
  <2>1. UNCHANGED <<listVars, db, saveVars>> /\ tree' = tree /\ dialog' = "quick"
    BY <1>2 DEF OpenQuick
  <2>2. ViewTypeOK'
    BY <1>1, <1>2 DEF OpenQuick, ViewTypeOK, StoreTypeOK, tabVars
  <2> QED BY <2>1, <2>2, SameData, ViewClosed
<1>3. CASE OpenQuickFromConnect
  <2>1. UNCHANGED <<listVars, db, saveVars>> /\ tree' = tree /\ dialog = "connect"
    BY <1>3 DEF OpenQuickFromConnect, ConnectDialog
  <2>2. \A row \in tree : FolderOfRow(row) \in Parents
    <3> TAKE row \in tree
    <3>1. Find(row.label) # NoStruct => rec[Find(row.label)].folder \in Parents
      BY <1>1, FoundRecord DEF StoreTypeOK, TableRows
    <3> QED BY <1>1, <3>1 DEF FolderOfRow
  <2>3. into' \in Parents
    BY <1>1, <1>3, <2>2 DEF OpenQuickFromConnect
  <2>4. ViewTypeOK'
    BY <1>1, <1>3, <2>3 DEF OpenQuickFromConnect, ViewTypeOK, StoreTypeOK, tabVars
  <2> QED BY <2>1, <2>4, SameData, ViewKept
<1>4. CASE QuickConnectFails
  <2>1. UNCHANGED <<listVars, db, saveVars>> /\ tree' = tree /\ dialog' = dialog
    BY <1>4 DEF QuickConnectFails
  <2>2. ViewTypeOK'
    BY <1>1, <1>4 DEF QuickConnectFails, ViewTypeOK, StoreTypeOK, tabVars
  <2> QED BY <2>1, <2>2, SameData, ViewKept
<1>5. CASE QuickCancel
  <2>1. UNCHANGED <<listVars, db, saveVars>> /\ tree' = tree
        /\ (dialog' = dialog \/ dialog' = "none" \/ (dialog = "quick_in_connect" /\ dialog' = "connect"))
    BY <1>5 DEF QuickCancel, QuickDialog, dialogVars
  <2>2. ViewTypeOK'
    BY <1>1, <1>5 DEF QuickCancel, ViewTypeOK, StoreTypeOK, tabVars, dialogVars
  <2> QED BY <2>1, <2>2, SameData, ViewKept
<1> QED BY <1>2, <1>3, <1>4, <1>5, QuickConnectKeeps DEF QuickStep

\* The tree is built from the list.
LEMMA OpenConnectKeeps ==
  ASSUME StoreInv, OpenConnect
  PROVE  StoreInv'
<1>1. /\ StoreTypeOK /\ Allocated \subseteq Structs
      /\ UNCHANGED <<listVars, db, saveVars, into, qStatus, tabVars, app>>
      /\ dialog' = "connect" /\ tree' = TreeOfList
  BY AllocatedType DEF OpenConnect, StoreInv
<1>2. \A r \in Allocated : rec[r].name \in Labels /\ rec[r].folder \in Parents
  BY <1>1 DEF StoreTypeOK, TableRows
<1>3. tree' \subseteq TreeRows
  BY <1>1, <1>2 DEF TreeOfList, TreeRows, Parents
<1>4. NamesApart => TreeShaped'
  <2> SUFFICES ASSUME NamesApart, NEW row \in TreeOfList, row.label \in FolderLabels PROVE row.in = NoFolder
    BY <1>1 DEF TreeShaped
  <2>1. \A r \in Allocated : ~rec[r].isFolder => rec[r].name \notin FolderLabels
    BY <1>1 DEF StoreInv, RowsShaped, Shaped, NamesApart
  <2> QED BY <2>1 DEF TreeOfList
<1>5. DataInv' /\ Allocated' = Allocated /\ rec' = rec /\ alwaysSaved' = alwaysSaved
  BY <1>1, SameData
<1>6. NamesApart => TreeHasFolders'
  <2> SUFFICES ASSUME NamesApart, NEW r \in Allocated, rec[r].isFolder
               PROVE  [label |-> rec[r].name, in |-> NoFolder] \in TreeOfList
    BY <1>1, <1>5 DEF TreeHasFolders
  <2>1. rec[r].folder = rec[r].name /\ rec[r].name # NoFolder
    BY <1>1, <1>2, LabelFacts DEF StoreInv, RowsShaped, Shaped
  <2> QED BY <2>1 DEF TreeOfList
<1>7. ViewTypeOK'
  BY <1>1, <1>3 DEF ViewTypeOK, StoreTypeOK, tabVars
<1> QED BY <1>4, <1>5, <1>6, <1>7, StorePartsNext DEF AlwaysAgrees

\* A new folder has the name of no folder that the tree shows.
LEMMA MkdirKeeps ==
  ASSUME StoreInv, NEW folder \in FolderLabels, Mkdir(folder)
  PROVE  StoreInv'
<1>1. PICK content : content = [name |-> folder, folder |-> folder, isFolder |-> TRUE]
  OBVIOUS
<1>2. PICK r \in Structs : Add(r, content)
  BY <1>1 DEF Mkdir
<1>3. /\ dialog = "connect" /\ ~FindFolder(folder) /\ Save(content, FALSE)
      /\ tree' = tree \cup {[label |-> folder, in |-> NoFolder]}
      /\ UNCHANGED <<autoSave, dialog, into, qStatus, tabVars, app>>
  BY <1>1 DEF Mkdir, ConnectDialog
<1>4. StoreTypeOK /\ folder \in Labels
  BY LabelFacts DEF StoreInv
<1>5. content \in TableRows /\ Shaped(content) /\ content.name = folder /\ content.isFolder
  BY <1>1, <1>4 DEF TableRows, Parents, Shaped
<1>6. AlwaysAgrees => \A x \in Allocated : rec[x].name # folder
  <2> SUFFICES ASSUME AlwaysAgrees, NEW x \in Allocated, rec[x].name = folder PROVE FALSE
    OBVIOUS
  <2>1. RowsShaped /\ NamesApart /\ TreeHasFolders /\ x \in Structs
    BY <1>4, AllocatedType DEF StoreInv, AlwaysAgrees
  <2>2. rec[x].isFolder
    BY <2>1 DEF RowsShaped, Shaped, NamesApart
  <2> QED BY <1>3, <2>1, <2>2 DEF TreeHasFolders, FindFolder
<1>7. /\ DataInv' /\ Allocated' = Allocated \cup {r}
      /\ rec'[r] = content /\ \A x \in Allocated : rec'[x] = rec[x]
      /\ alwaysSaved' => alwaysSaved
  BY <1>2, <1>3, <1>5, <1>6, DataAdded
<1>8. tree' \subseteq TreeRows
  BY <1>3, <1>4 DEF StoreTypeOK, TreeRows, Parents
<1>9. NamesApart => TreeShaped'
  BY <1>3 DEF StoreInv, TreeShaped
<1>10. AlwaysAgrees' => TreeHasFolders'
  <2>1. AlwaysAgrees' => TreeHasFolders
    BY <1>7 DEF AlwaysAgrees, NamesApart, LabelsSuffice, StoreInv
  <2> QED BY <1>3, <1>5, <1>7, <2>1 DEF TreeHasFolders
<1>11. ViewTypeOK'
  BY <1>3, <1>4, <1>8 DEF ViewTypeOK, StoreTypeOK, tabVars
<1> QED BY <1>7, <1>9, <1>10, <1>11, StorePartsNext

LEMMA ConnectKeeps ==
  ASSUME StoreInv, ConnectStep
  PROVE  StoreInv'
<1>1. StoreTypeOK
  BY DEF StoreInv
<1>2. CASE CloseConnect
  <2>1. UNCHANGED <<listVars, db, saveVars>> /\ tree' = {} /\ dialog' = "none"
    BY <1>2 DEF CloseConnect, CloseDialogs
  <2>2. ViewTypeOK'
    BY <1>1, <1>2 DEF CloseConnect, CloseDialogs, ViewTypeOK, StoreTypeOK, tabVars, Parents
  <2> QED BY <2>1, <2>2, SameData, ViewClosed
<1>3. ASSUME NEW row \in tree, Connect(row) PROVE StoreInv'
  <2>1. UNCHANGED <<listVars, db, saveVars, qStatus, app>> /\ CloseDialogs
    BY <1>3 DEF Connect
  <2>2. Find(row.label) \in Structs
    BY <1>1, <1>3, FoundRecord DEF Connect
  <2>3. tabUser' \in [Terminals -> Structs \cup {NoStruct}] /\ currentUser' \in Structs \cup {NoStruct}
    BY <1>1, <1>3, <2>2 DEF Connect, TabFor, StoreTypeOK
  <2>4. ViewTypeOK'
    BY <1>1, <2>1, <2>3 DEF CloseDialogs, ViewTypeOK, StoreTypeOK, Parents
  <2> QED BY <2>1, <2>4, SameData, ViewClosed DEF CloseDialogs
<1>4. ASSUME NEW row \in tree, SelectStaleRow(row) PROVE StoreInv'
  <2>1. UNCHANGED <<listVars, db, saveVars, dialogVars, tabVars>> /\ app' \in {"up", "segv"}
    BY <1>4 DEF SelectStaleRow
  <2>2. ViewTypeOK' /\ tree' = tree /\ dialog' = dialog
    BY <1>1, <2>1 DEF ViewTypeOK, StoreTypeOK, dialogVars, tabVars
  <2> QED BY <2>1, <2>2, SameData, ViewKept
<1>5. ASSUME NEW r \in Structs, EditSession(r) PROVE StoreInv'
  <2>1. PICK quoted \in BOOLEAN : /\ r \in Allocated /\ Save(rec[r], quoted)
                                 /\ UNCHANGED <<listVars, autoSave, dialogVars, tabVars, app>>
    BY <1>5 DEF EditSession
  <2>2. ViewTypeOK' /\ tree' = tree /\ dialog' = dialog
    BY <1>1, <2>1 DEF ViewTypeOK, StoreTypeOK, dialogVars, tabVars
  <2> QED BY <2>1, <2>2, DataWritten, ViewKept
<1> QED BY <1>2, <1>3, <1>4, <1>5, OpenConnectKeeps, EraseKeeps, RenameKeeps, MkdirKeeps DEF ConnectStep

LEMMA SwitchAutoSaveKeeps ==
  ASSUME StoreInv, SwitchAutoSave
  PROVE  StoreInv'
<1>1. StoreTypeOK /\ UNCHANGED <<listVars, db, dialogVars, tabVars, app>> /\ dialog = "none"
  BY DEF SwitchAutoSave, StoreInv, MainWindow
<1>2. AutoSaves \subseteq BOOLEAN
  BY Zenon, StoreAssumption
<1>3. autoSave' \in BOOLEAN /\ alwaysSaved' = (users = <<>> /\ db = {} /\ autoSave')
  BY <1>2 DEF SwitchAutoSave
<1>4. DataInv'
  BY <1>1, <1>3, DataUnchanged
<1>5. ViewTypeOK' /\ tree' = tree /\ dialog' = "none"
  BY <1>1 DEF ViewTypeOK, StoreTypeOK, dialogVars, tabVars
<1> QED BY <1>4, <1>5, ViewClosed

LEMMA StutterKeeps ==
  ASSUME StoreInv, UNCHANGED storeVars
  PROVE  StoreInv'
<1>1. UNCHANGED <<listVars, db, saveVars>> /\ tree' = tree /\ dialog' = dialog
  BY DEF storeVars, dialogVars
<1>2. ViewTypeOK'
  BY DEF storeVars, dialogVars, tabVars, StoreInv, StoreTypeOK, ViewTypeOK
<1> QED BY <1>1, <1>2, SameData, ViewKept

-----------------------------------------------------------------------------
(* The theorems.                                                           *)
(***************************************************************************)
\* The invariant of the saved sessions, for any number of records, names, tabs.
THEOREM StoreInvariant == StoreSpec => []StoreInv
<1>1. StoreInv /\ [StoreNext]_storeVars => StoreInv'
  BY TabsKeep, QuickKeeps, ConnectKeeps, SwitchAutoSaveKeeps, RestartKeeps, StutterKeeps DEF StoreNext
<1> QED BY <1>1, InitKeeps, PTL DEF StoreSpec

\* Sessions are told apart by their names, whatever folders are called; with auto
\* save on all along folders and sessions are.
THEOREM NamesTellRecordsApart == StoreSpec => []NamesUnique
<1>1. StoreInv => NamesUnique
  BY DEF StoreInv, NamesUnique, SessionsDistinct, ListIsTable
<1> QED BY <1>1, StoreInvariant, PTL

\* The row of a folder in the tree leads to the records in the folder.
THEOREM FoldersLieInThemselves == StoreSpec => []FoldersHoldThemselves
<1>1. StoreInv => FoldersHoldThemselves
  BY AllocatedType DEF StoreInv, FoldersHoldThemselves, RowsShaped, Shaped
<1> QED BY <1>1, StoreInvariant, PTL

\* With auto save on all along an exit at any moment loses nothing.
THEOREM TableIsList == StoreSpec => []SavedAsShown
<1>1. StoreInv => SavedAsShown
  BY DEF StoreInv, SavedAsShown, ListIsTable
<1> QED BY <1>1, StoreInvariant, PTL
=============================================================================

------------------------------ MODULE MCWindows ------------------------------
(* Small instances of Windows for TLC.                                     *)
EXTENDS Windows, TLC

CONSTANTS w1, w2, a, b, c1, c2, f1, f2

\* Processes, names and contents are interchangeable; frames are not, one of them
\* is the default.
Symmetry == Permutations(Processes) \cup Permutations(Names) \cup Permutations(Contents)

\* The two tables have nothing to do with each other: explore what becomes of one
\* while the other holds what it held first.
OneTableAtATime ==
  \/ rows = EmptyList /\ \A w \in Processes : list[w] = EmptyList
  \/ /\ \A i \in Rows : frame[i] = DefaultFrame
     /\ kept = DefaultFrame /\ cut = {}
     /\ \A w \in Processes : shape[w] \in {DefaultFrame, NoFrame}
=============================================================================

---------------------------- MODULE MCTabCommands ----------------------------
(* Small instances of TabCommands for TLC.                                 *)
EXTENDS TabCommands, TLC

CONSTANTS t1, t2, p1, p2

\* The terminals are interchangeable.
Symmetry == Permutations(Terminals)
=============================================================================

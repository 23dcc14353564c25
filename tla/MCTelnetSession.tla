--------------------------- MODULE MCTelnetSession ---------------------------
(* Small instances of TelnetSession for TLC.                               *)
EXTENDS TelnetSession, TLC

CONSTANTS t1, t2, u1

\* Tabs are interchangeable.
Symmetry == Permutations(Terminals)
=============================================================================

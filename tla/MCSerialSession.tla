--------------------------- MODULE MCSerialSession ---------------------------
(* Small instances of SerialSession for TLC.                               *)
EXTENDS SerialSession, TLC

CONSTANTS t1, t2, u1, u2

\* Tabs are interchangeable.
Symmetry == Permutations(Terminals)
=============================================================================

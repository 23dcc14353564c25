--------------------------- MODULE MCShellSession ---------------------------
(* Small instances of ShellSession for TLC.                                *)
EXTENDS ShellSession, TLC

CONSTANTS t1, t2, t3, u1

\* Tabs are interchangeable.
Symmetry == Permutations(Terminals)
=============================================================================

---------------------------- MODULE MCSshSession ----------------------------
(* Small instances of SshSession for TLC.                                  *)
EXTENDS SshSession, TLC

CONSTANTS t1, t2, u1, u2, n1, n2

\* Tabs and names are interchangeable.
Symmetry == Permutations(Terminals) \cup Permutations(Names)
=============================================================================

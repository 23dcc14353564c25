--------------------------- MODULE MCSessionStore ---------------------------
(* Small instances of SessionStore for TLC.                                *)
EXTENDS SessionStore, TLC

CONSTANTS t1, t2, f, g, h

\* Folders without an apostrophe are interchangeable.
Symmetry == Permutations(Folders \ Quoted)
=============================================================================

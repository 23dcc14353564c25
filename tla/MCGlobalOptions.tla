-------------------------- MODULE MCGlobalOptions --------------------------
(* Small instances of GlobalOptions for TLC.                               *)
EXTENDS GlobalOptions, TLC

CONSTANTS t1, t2

MCOrder == <<"toolbar", "font", "bell", "auto_save">>

\* A font whose name has an apostrophe.
MCQuoted == {<<"font", 0>>}

\* Tabs are interchangeable.
Symmetry == Permutations(Terminals)
=============================================================================

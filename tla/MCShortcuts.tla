---------------------------- MODULE MCShortcuts ----------------------------
(* Small instances of Shortcuts for TLC: an action of each kind, and one   *)
(* key more than there are actions.                                        *)
EXTENDS Shortcuts, Integers

MCDefault == [connect |-> 1, find |-> 2, clone |-> 3]
MCPosition == MCDefault
=============================================================================

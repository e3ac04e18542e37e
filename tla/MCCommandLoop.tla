---------------------------- MODULE MCCommandLoop ---------------------------
(***************************************************************************)
(* Instances of CommandLoop for TLC.  RESTART is left to the handlers,     *)
(* which send it as the user would.                                        *)
(***************************************************************************)
EXTENDS CommandLoopProperties

CONSTANTS h1, h2, s1, s2   \* handlers and goroutines of SyncToLatest

OneHandler    == {h1}
TwoHandlers   == {h1, h2}
OneSyncer     == {s1}
TwoSyncers    == {s1, s2}
Lists         == {"LIST_PEER"}
MiningOrLists == {"START", "STOP"} \cup Lists
=============================================================================

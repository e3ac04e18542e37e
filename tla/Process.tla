------------------------------- MODULE Process --------------------------------
(***************************************************************************)
(* One of the two programs from its start to its end, as the two main.go   *)
(* files put it together: the terminal is listened to, then the key is     *)
(* read, then HandleCommand takes commands; the node's command "network"   *)
(* starts a probe.  Meanwhile another program starts with the same key     *)
(* file.                                                                   *)
(***************************************************************************)
EXTENDS KeyFile, Terminal, NetworkProbe

CONSTANT ME   \* this program, the one with the terminal

ASSUME ProcessAssumption == ME \in Procs

vars == <<keyVars, termVars, probeVars>>

Others == Procs \ {ME}

Init == KeyInit /\ TermInit /\ ProbeInit

-----------------------------------------------------------------------------
\* The process ends with all its goroutines.
Dies ==
  /\ TermReset
  /\ is_probing' = FALSE
  /\ probe' = [g \in Probers |-> NoProbe]
  /\ UNCHANGED <<peersOf, changes>>

Main ==
  \/ Launch(ME) /\ ListenOnInput /\ UNCHANGED probeVars
  \/ (StatKeyFile(ME) \/ CreateKeyFile(ME)) /\ UNCHANGED <<termVars, probeVars>>
  \/ WriteKeyFile(ME) /\ LoopStarts /\ UNCHANGED probeVars
  \/ ReadKeyFromPath(ME) /\ file # EMPTY /\ LoopStarts /\ UNCHANGED probeVars
  \/ ReadKeyFromPath(ME) /\ file = EMPTY /\ Dies

Input ==
  \/ (Edit \/ Layout \/ ParseCommand) /\ UNCHANGED <<keyVars, probeVars>>
  \/ Quits /\ Ends(ME) /\ Dies

\* HandleCommand; "network" starts a goroutine (one of Probers, which bounds them).
HandleCommand ==
  \/ LoopTakes /\ UNCHANGED <<keyVars, probeVars>>
  \/ LoopReturns /\ loop # "network" /\ UNCHANGED <<keyVars, probeVars>>
  \/ LoopReturns /\ loop = "network" /\ (\E g \in Probers : ProbeStarts(g)) /\ UNCHANGED keyVars

Probing == \E g \in Probers : ProbeStep(g) /\ UNCHANGED <<keyVars, termVars>>

Killed == Ends(ME) /\ Dies

User ==
  /\ \/ \E line \in Lines[flags.kind] : UserTypes(line)
     \/ UserQuits
  /\ UNCHANGED <<keyVars, probeVars>>

Elsewhere ==
  \/ /\ \E p \in Others : Launch(p) \/ ReadsKey(p) \/ Ends(p)
     /\ UNCHANGED <<termVars, probeVars>>
  \/ NetworkChanges /\ UNCHANGED <<keyVars, termVars>>

Next == Main \/ Input \/ HandleCommand \/ Probing \/ Killed \/ User \/ Elsewhere

Spec == Init /\ [][Next]_vars

(***************************************************************************)
(* The goroutines of the process go on when they can, and a call that asks *)
(* a node for its peers ends, with its timeout if need be.  Nobody need    *)
(* start a program, type, or change the network.                           *)
(***************************************************************************)
FairSpec ==
  /\ Spec
  /\ WF_vars(Main /\ Started(ME))
  /\ WF_vars(Input)
  /\ WF_vars(HandleCommand)
  /\ \A g \in Probers : WF_vars(ProbeStep(g) /\ UNCHANGED <<keyVars, termVars>>)
=============================================================================

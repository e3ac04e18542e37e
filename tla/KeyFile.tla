------------------------------- MODULE KeyFile --------------------------------
(***************************************************************************)
(* How a program gets its key pair when it starts: ParseKeyFile of         *)
(* src/utils/file_utils.go.  Node and wallet have the same default path,   *)
(* and nothing keeps them, or two of a kind, from starting together; any   *)
(* of them may be ended at any step (Ctrl-C works before the key is read). *)
(* Creating the file empties one that is there; of two that write, the     *)
(* last one's key stays.                                                   *)
(***************************************************************************)
EXTENDS Integers, Sequences, FiniteSets

CONSTANTS
  Procs,    \* programs that use the file
  Keys,     \* key pairs; also a bound on how many are made
  NOFILE,   \* the file does not exist
  EMPTY,    \* it is empty
  NOKEY,    \* the program has no key yet
  MaxStarts \* bound: starts of programs

ASSUME KeyAssumption ==
  /\ {NOFILE, EMPTY, NOKEY} \cap Keys = {}
  /\ NOFILE # EMPTY
  /\ MaxStarts \in Nat

VARIABLES
  file,      \* what is in the file
  proc,      \* [pc, key] of each program
  made,      \* history: keys made
  overwrote, \* history: a file that was there has been created again
  starts     \* history: how many starts

keyVars == <<file, proc, made, overwrote, starts>>

Down == [pc |-> "down", key |-> NOKEY]

KeyInit ==
  /\ file = NOFILE
  /\ proc = [p \in Procs |-> Down]
  /\ made = {} /\ overwrote = FALSE /\ starts = 0

Up(p) == proc[p].pc = "up"

Started(p) == proc[p].pc # "down"

Launch(p) ==
  /\ ~Started(p)
  /\ starts < MaxStarts
  /\ starts' = starts + 1
  /\ proc' = [proc EXCEPT ![p].pc = "stat"]
  /\ UNCHANGED <<file, made, overwrote>>

\* ParseKeyFile looks for the file; without one, it makes a key.
StatKeyFile(p) ==
  /\ proc[p].pc = "stat"
  /\ \/ /\ file = NOFILE
        /\ \E k \in Keys \ made :
             /\ made' = made \cup {k}
             /\ proc' = [proc EXCEPT ![p] = [pc |-> "create", key |-> k]]
     \/ /\ file # NOFILE
        /\ proc' = [proc EXCEPT ![p].pc = "read"]
        /\ UNCHANGED made
  /\ UNCHANGED <<file, overwrote, starts>>

\* WritePrivateKeyToFile.
CreateKeyFile(p) ==
  /\ proc[p].pc = "create"
  /\ file' = EMPTY
  /\ overwrote' = (overwrote \/ file # NOFILE)
  /\ proc' = [proc EXCEPT ![p].pc = "write"]
  /\ UNCHANGED <<made, starts>>

WriteKeyFile(p) ==
  /\ proc[p].pc = "write"
  /\ file' = proc[p].key
  /\ proc' = [proc EXCEPT ![p].pc = "up"]
  /\ UNCHANGED <<made, overwrote, starts>>

\* ReadKeyFromPath: an empty file is fatal.  (Faulty version: it is taken for
\* no file, and a key made that is never written.)
ReadOrMakeKey(p) ==
  /\ proc[p].pc = "read"
  /\ \E k \in Keys :
       /\ k = file \/ (file = EMPTY /\ k \notin made)
       /\ made' = made \cup {k}
       /\ proc' = [proc EXCEPT ![p] = [pc |-> "up", key |-> k]]
  /\ UNCHANGED <<file, overwrote, starts>>

ReadKeyFromPath(p) ==
  /\ proc[p].pc = "read"
  /\ proc' = [proc EXCEPT ![p] = IF file = EMPTY THEN Down ELSE [pc |-> "up", key |-> file]]
  /\ UNCHANGED <<file, made, overwrote, starts>>

\* Ctrl-C, a kill, a crash of the machine.
Ends(p) ==
  /\ Started(p)
  /\ proc' = [proc EXCEPT ![p] = Down]
  /\ UNCHANGED <<file, made, overwrote, starts>>

ReadsKey(p) ==
  StatKeyFile(p) \/ CreateKeyFile(p) \/ WriteKeyFile(p) \/ ReadKeyFromPath(p)
=============================================================================

-------------------------- MODULE ProcessProperties ---------------------------
(***************************************************************************)
(* What a program promises to the user at its terminal.                    *)
(***************************************************************************)
EXTENDS Process, Encodings

(***************************************************************************)
(* Types; HandleCommand runs exactly when the key is there, and the key of *)
(* a program that runs is one that was made once.                          *)
(***************************************************************************)
TypeOK ==
  /\ file \in Keys \cup {NOFILE, EMPTY}
  /\ \A p \in Procs :
       /\ proc[p].pc \in {"down", "stat", "create", "write", "read", "up"}
       /\ Up(p) => proc[p].key \in made
  /\ made \subseteq Keys
  /\ (loop # "off") = Up(ME)
  /\ (front.pc # "off") = Started(ME)
  /\ front.pc \in {"off", "wait", "send", "drain"}
  /\ Range(events) \subseteq Lines[flags.kind] \cup {CTRL_C}
  /\ \A g \in Probers :
       /\ probe[g].pc \in {"off", "test", "set", "ask", "draw"}
       /\ probe[g].pc # "off" => Up(ME)

(***************************************************************************)
(* The coins a program earns can be spent after a restart: the key it runs *)
(* with is the one in the file.  (Unless the file was created over one     *)
(* that was there, when two programs start for the first time together:    *)
(* then the one that wrote first runs with a key that is lost.)            *)
(***************************************************************************)
KeyIsKept == ~overwrote => \A p \in Procs : Up(p) => file = proc[p].key

\* Lines that wait, lines that were read, places of the valid ones among them.
Unread == Cardinality({i \in DOMAIN events : events[i] # CTRL_C})

Consumed == SubSeq(typed, 1, Len(typed) - Unread)

ValidAt == {k \in DOMAIN Consumed : Valid(Consumed[k])}

\* Commands taken, and the one in front of the channel.
Passed == taken \o (IF front.pc = "send" THEN <<front.line>> ELSE <<>>)

\* s has elements of t from the places At, each once, in the order of t.
Picks(s, t, At) ==
  \E at \in [DOMAIN s -> At] :
    /\ \A i \in DOMAIN s : s[i] = t[at[i]]
    /\ \A i, j \in DOMAIN s : i < j => at[i] < at[j]

(***************************************************************************)
(* HandleCommand gets the valid lines, all of them, in the order typed,    *)
(* from the GUI and from the node's ParseCommand; from the wallet's some   *)
(* of them, in that order.                                                 *)
(***************************************************************************)
CommandsInOrder ==
  /\ Picks(Passed, Consumed, ValidAt)
  /\ flags.gui \/ flags.kind = "node" => Len(Passed) = Cardinality(ValidAt)

(***************************************************************************)
(* The view of past commands ("the ViewManager that logs past command",    *)
(* layout.go) shows lines in the order typed, none twice, and the last one *)
(* when the GUI rests.  Of lines that come together it shows only one.     *)
(***************************************************************************)
EchoFollows ==
  flags.gui =>
    /\ Picks(shown, Consumed, DOMAIN Consumed)
    /\ front.pc = "wait" /\ Consumed # <<>> => /\ shown # <<>>
                                               /\ Last(shown) = Last(Consumed)

(***************************************************************************)
(* A probe has asked the node itself and every node that one it asked      *)
(* named, and no other, once each: it follows the answers to the end,      *)
(* however many nodes do not answer and however the lists change meanwhile.*)
(***************************************************************************)
HeardOf(graph) ==
  LET closed(S) == /\ SELF_ADDR \in S
                   /\ \A a \in S \cap DOMAIN graph : Range(graph[a]) \subseteq S
  IN  {a \in Addresses : \A S \in SUBSET Addresses : closed(S) => a \in S}

ProbeComplete ==
  \A g \in Probers :
    probe[g].pc = "draw" =>
      /\ probe[g].seen = HeardOf(probe[g].graph)
      /\ DOMAIN probe[g].graph \subseteq probe[g].seen

-----------------------------------------------------------------------------
(***************************************************************************)
(* Three promises about functions.  No step can change them, so they are   *)
(* looked at before anything starts.                                       *)
(*                                                                         *)
(* HandleCommand never takes an argument out of Args that is not there, or *)
(* that fails the test it needs: it does not look itself, an index out of  *)
(* range ends the process, and what Atoi and ParseFloat return is used     *)
(* whatever their error.                                                   *)
(***************************************************************************)
ArgumentsThere == starts = 0 => ArgumentsSuffice(flags.kind)

(***************************************************************************)
(* Numbers that Int64ToBytes puts into a hash stay apart, within the range *)
(* in which it does not panic.                                             *)
(***************************************************************************)
NumbersStayApart == starts = 0 => CodesDiffer

(***************************************************************************)
(* ByteHasLeadingZeros finds the digests with enough zero bits and no      *)
(* other, and panics only for a difficulty of all the digest's bits.       *)
(***************************************************************************)
LeadingZerosCounted == starts = 0 => ZerosCounted

-----------------------------------------------------------------------------
(***************************************************************************)
(* A probe comes to its end (or the process does), in a network whose      *)
(* nodes list each other, and which answers or not.                        *)
(***************************************************************************)
ProbesEnd == \A g \in Probers : (probe[g].pc = "ask") ~> (probe[g].pc \in {"draw", "off"})

(***************************************************************************)
(* Ctrl-C ends the program, though the GUI may stand in front of the       *)
(* channel then: as long as HandleCommand always comes back.  (While it    *)
(* does not - LoopComesBack of CommandLoop - the next command keeps the    *)
(* GUI from seeing Ctrl-C.)                                                *)
(***************************************************************************)
CtrlCQuits == Contains(events, CTRL_C) ~> ~Started(ME)
=============================================================================

------------------------------- MODULE Terminal -------------------------------
(***************************************************************************)
(* How a line that a user types becomes a command: the GUI of              *)
(* src/layout/layout.go, or without it (-debug_mode) ParseCommand of the   *)
(* two main.go files, up to the loop HandleCommand that takes commands     *)
(* from an unbuffered channel.                                             *)
(*                                                                         *)
(* gocui's main loop takes an event, then all others that are pending,     *)
(* then lays out the views.  Enter checks the line, leaves it for the      *)
(* layout of the past commands - which shows one line at most - and, if it *)
(* is valid, waits in the GUI's own goroutine until HandleCommand takes    *)
(* the command.  Ctrl-C is an event like the others.                       *)
(*                                                                         *)
(* Without the GUI a goroutine reads lines, the wallet's through a new     *)
(* buffered reader each time: what the old one had read ahead is lost.     *)
(***************************************************************************)
EXTENDS Commands, SequencesExt

CONSTANTS
  Lines,     \* the lines that users of each program type
  CTRL_C,    \* the key that ends the program
  MaxLines   \* bound: lines typed in a session

ASSUME TerminalAssumption ==
  /\ DOMAIN Lines = {"node", "wallet"}
  /\ \A kind \in DOMAIN Lines : CTRL_C \notin Lines[kind]
  /\ MaxLines \in Nat

VARIABLES
  flags,   \* [kind, gui]: which program, and how it was started
  typed,   \* history: lines typed in this session
  events,  \* lines and keys that wait to be read
  front,   \* [pc, line] of the goroutine that reads them
  echo,    \* command: [line, ready]
  shown,   \* lines in the view of past commands
  loop,    \* "off", "recv", or the line HandleCommand works on
  taken    \* history: commands HandleCommand has taken

termVars == <<flags, typed, events, front, echo, shown, loop, taken>>

Valid(line) == CommandValid(flags.kind, line)

NoLine == [word |-> "", args |-> <<>>]

TermReset ==
  /\ typed' = <<>> /\ events' = <<>>
  /\ front' = [pc |-> "off", line |-> NoLine]
  /\ echo' = [line |-> NoLine, ready |-> FALSE]
  /\ shown' = <<>>
  /\ loop' = "off" /\ taken' = <<>>
  /\ UNCHANGED flags

TermInit ==
  /\ flags \in [kind : {"node", "wallet"}, gui : BOOLEAN]
  /\ typed = <<>> /\ events = <<>>
  /\ front = [pc |-> "off", line |-> NoLine]
  /\ echo = [line |-> NoLine, ready |-> FALSE]
  /\ shown = <<>>
  /\ loop = "off" /\ taken = <<>>

\* ListenOnInput comes before the key is read, HandleCommand after.  (Faulty
\* version: together.)
ListenAndHandle ==
  /\ front' = [front EXCEPT !.pc = "wait"]
  /\ loop' = "recv"
  /\ UNCHANGED <<flags, typed, events, echo, shown, taken>>

ListenOnInput ==
  /\ front' = [front EXCEPT !.pc = "wait"]
  /\ UNCHANGED <<flags, typed, events, echo, shown, loop, taken>>

LoopStarts ==
  /\ loop' = "recv"
  /\ UNCHANGED <<flags, typed, events, front, echo, shown, taken>>

UserTypes(line) ==
  /\ front.pc # "off"
  /\ Len(typed) < MaxLines
  /\ ~Contains(events, CTRL_C)
  /\ typed' = Append(typed, line)
  /\ events' = Append(events, line)
  /\ UNCHANGED <<flags, front, echo, shown, loop, taken>>

UserQuits ==
  /\ flags.gui
  /\ front.pc # "off"
  /\ ~Contains(events, CTRL_C)
  /\ events' = Append(events, CTRL_C)
  /\ UNCHANGED <<flags, typed, front, echo, shown, loop, taken>>

-----------------------------------------------------------------------------
\* Edit, on Enter.
Edit ==
  /\ flags.gui
  /\ front.pc \in {"wait", "drain"}
  /\ events # <<>>
  /\ Head(events) # CTRL_C
  /\ events' = Tail(events)
  /\ echo' = [line |-> Head(events), ready |-> TRUE]
  /\ front' = IF Valid(Head(events)) THEN [pc |-> "send", line |-> Head(events)]
              ELSE [front EXCEPT !.pc = "drain"]
  /\ UNCHANGED <<flags, typed, shown, loop, taken>>

\* PastCmd.Layout, once nothing is pending, and after any other key as well.
\* (Faulty version: the line stays ready and is shown again.)
LayoutAgain ==
  /\ front.pc \in {"wait", "drain"}
  /\ events = <<>>
  /\ shown' = IF echo.ready THEN Append(shown, echo.line) ELSE shown
  /\ front' = [front EXCEPT !.pc = "wait"]
  /\ UNCHANGED <<flags, typed, events, echo, loop, taken>>

Layout ==
  /\ front.pc \in {"wait", "drain"}
  /\ events = <<>>
  /\ shown' = IF echo.ready THEN Append(shown, echo.line) ELSE shown
  /\ echo' = [line |-> NoLine, ready |-> FALSE]
  /\ front' = [front EXCEPT !.pc = "wait"]
  /\ UNCHANGED <<flags, typed, events, loop, taken>>

\* ParseCommand.  (Faulty version: the node's reader is made anew, too.)
ReadAhead == 1..Len(events)

ParseCommandReading(ahead) ==
  \E n \in ahead :
    /\ events' = SubSeq(events, n + 1, Len(events))
    /\ front' = IF Valid(Head(events)) THEN [pc |-> "send", line |-> Head(events)] ELSE front

ParseCommandAnew ==
  /\ ~flags.gui
  /\ front.pc = "wait"
  /\ events # <<>>
  /\ ParseCommandReading(ReadAhead)
  /\ UNCHANGED <<flags, typed, echo, shown, loop, taken>>

ParseCommand ==
  /\ ~flags.gui
  /\ front.pc = "wait"
  /\ events # <<>>
  /\ ParseCommandReading(IF flags.kind = "wallet" THEN ReadAhead ELSE {1})
  /\ UNCHANGED <<flags, typed, echo, shown, loop, taken>>

\* The command goes over the channel.
LoopTakes ==
  /\ front.pc = "send"
  /\ loop = "recv"
  /\ loop' = front.line.word
  /\ taken' = Append(taken, front.line)
  /\ front' = [pc |-> IF flags.gui THEN "drain" ELSE "wait", line |-> NoLine]
  /\ UNCHANGED <<flags, typed, events, echo, shown>>

\* The command is done, or has failed.  (Faulty version: an error ends the loop.)
LoopMayEnd ==
  /\ loop \notin {"off", "recv"}
  /\ loop' \in {"recv", "off"}
  /\ UNCHANGED <<flags, typed, events, front, echo, shown, taken>>

LoopReturns ==
  /\ loop \notin {"off", "recv"}
  /\ loop' = "recv"
  /\ UNCHANGED <<flags, typed, events, front, echo, shown, taken>>

\* The GUI sees Ctrl-C.
Quits == flags.gui /\ front.pc \in {"wait", "drain"} /\ events # <<>> /\ Head(events) = CTRL_C
=============================================================================

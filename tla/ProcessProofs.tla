---------------------------- MODULE ProcessProofs ----------------------------
(***************************************************************************)
(* Theorems about Process, for any number of programs, keys, starts,       *)
(* lines, nodes, probes and changes of the network.                        *)
(***************************************************************************)
EXTENDS ProcessProperties, FiniteSetTheorems, SequenceTheorems, TLAPS

-----------------------------------------------------------------------------
(***************************************************************************)
(* The key file.  What KeyIsKept rests on: as long as nobody has created   *)
(* the file over one that was there, it is empty only while one program    *)
(* is about to write it, and then no other has a key from it.              *)
(***************************************************************************)
KeyState == [pc : {"down", "stat", "create", "write", "read", "up"}, key : Keys \cup {NOKEY}]

KeysTyped ==
  /\ file \in Keys \cup {NOFILE, EMPTY}
  /\ proc \in [Procs -> KeyState]
  /\ made \subseteq Keys
  /\ overwrote \in BOOLEAN

KeysMade ==
  /\ file \in made \cup {NOFILE, EMPTY}
  /\ \A p \in Procs : proc[p].pc \in {"create", "write", "up"} => proc[p].key \in made

FileStays == \A p \in Procs : proc[p].pc \in {"write", "read", "up"} => file # NOFILE

OneWrites ==
  ~overwrote => \A p \in Procs : proc[p].pc = "write" =>
                  /\ file = EMPTY
                  /\ \A q \in Procs : proc[q].pc = "write" => q = p

KeyInv == KeysTyped /\ KeysMade /\ FileStays /\ OneWrites /\ KeyIsKept

KeyStep(p) == Launch(p) \/ ReadsKey(p) \/ Ends(p)

LEMMA KeysDiffer == NOFILE \notin Keys /\ EMPTY \notin Keys /\ NOKEY \notin Keys /\ NOFILE # EMPTY
BY KeyAssumption DEF KeyAssumption

LEMMA KeyStart == KeyInit => KeyInv
<1> SUFFICES ASSUME KeyInit PROVE KeyInv
  OBVIOUS
<1>1. /\ file = NOFILE /\ made = {} /\ overwrote = FALSE
      /\ proc = [p \in Procs |-> Down]
      /\ Down \in KeyState /\ Down.pc = "down"
  BY DEF KeyInit, Down, KeyState
<1> QED
  BY <1>1 DEF KeyInv, KeysTyped, KeysMade, FileStays, OneWrites, KeyIsKept, Up

\* A program that goes on without touching the file, and to no key of it.
LEMMA ProgramMoves ==
  ASSUME KeyInv, NEW p \in Procs, NEW s \in KeyState, proc' = [proc EXCEPT ![p] = s],
         s.pc \in {"down", "stat", "create", "read"},
         UNCHANGED <<file, overwrote>>, made \subseteq made', made' \subseteq Keys,
         s.pc = "create" => s.key \in made',
         s.pc = "read" => file # NOFILE
  PROVE  KeyInv'
<1>1. /\ proc' \in [Procs -> KeyState]
      /\ proc'[p] = s
      /\ \A q \in Procs \ {p} : proc'[q] = proc[q]
  BY DEF KeyInv, KeysTyped
<1> QED
  BY <1>1 DEF KeyInv, KeysTyped, KeysMade, FileStays, OneWrites, KeyIsKept, Up

LEMMA KeyStepKeeps ==
  ASSUME KeyInv, NEW p \in Procs, KeyStep(p)
  PROVE  KeyInv'
<1>0. proc[p] \in KeyState /\ Down \in KeyState
  BY DEF KeyInv, KeysTyped, KeyState, Down
<1>1. CASE Launch(p)
  <2> DEFINE s == [proc[p] EXCEPT !.pc = "stat"]
  <2>1. s \in KeyState /\ s.pc = "stat" /\ proc' = [proc EXCEPT ![p] = s]
    BY <1>0, <1>1 DEF Launch, KeyState
  <2> HIDE DEF s
  <2> QED
    BY <1>1, <2>1, ProgramMoves DEF Launch, KeyInv, KeysTyped
<1>2. CASE StatKeyFile(p)
  <2>1. CASE file = NOFILE
    <3>1. PICK k \in Keys \ made :
            /\ made' = made \cup {k}
            /\ proc' = [proc EXCEPT ![p] = [pc |-> "create", key |-> k]]
      BY <1>2, <2>1 DEF StatKeyFile
    <3> DEFINE s == [pc |-> "create", key |-> k]
    <3>2. s \in KeyState /\ s.pc = "create" /\ s.key = k
      BY DEF KeyState
    <3>3. proc' = [proc EXCEPT ![p] = s]
      BY <3>1
    <3>4. made' = made \cup {k} /\ k \in Keys \ made
      BY <3>1
    <3>5. UNCHANGED <<file, overwrote>>
      BY <1>2 DEF StatKeyFile
    <3> HIDE DEF s
    <3> QED
      BY <3>2, <3>3, <3>4, <3>5, ProgramMoves DEF KeyInv, KeysTyped
  <2>2. CASE file # NOFILE
    <3> DEFINE s == [proc[p] EXCEPT !.pc = "read"]
    <3>1. s \in KeyState /\ s.pc = "read" /\ proc' = [proc EXCEPT ![p] = s]
      BY <1>0, <1>2, <2>2 DEF StatKeyFile, KeyState
    <3> HIDE DEF s
    <3> QED
      BY <1>2, <2>2, <3>1, ProgramMoves DEF StatKeyFile, KeyInv, KeysTyped
  <2> QED
    BY <2>1, <2>2
<1>3. CASE CreateKeyFile(p)
  <2> DEFINE s == [proc[p] EXCEPT !.pc = "write"]
  <2>1. /\ s \in KeyState /\ s.pc = "write" /\ s.key = proc[p].key
        /\ proc' = [proc EXCEPT ![p] = s]
        /\ proc[p].pc = "create"
        /\ file' = EMPTY /\ overwrote' = (overwrote \/ file # NOFILE) /\ made' = made
    BY <1>0, <1>3 DEF CreateKeyFile, KeyState
  <2> HIDE DEF s
  <2>2. /\ proc' \in [Procs -> KeyState]
        /\ proc'[p] = s
        /\ \A q \in Procs \ {p} : proc'[q] = proc[q]
    BY <2>1 DEF KeyInv, KeysTyped
  <2>3. KeysTyped' /\ KeysMade' /\ FileStays'
    BY <2>1, <2>2, KeysDiffer DEF KeyInv, KeysTyped, KeysMade, FileStays
  <2>4. OneWrites'
    BY <2>1, <2>2 DEF KeyInv, OneWrites, FileStays
  <2>5. KeyIsKept'
    BY <2>1, <2>2 DEF KeyInv, KeyIsKept, FileStays, Up
  <2> QED
    BY <2>3, <2>4, <2>5 DEF KeyInv
<1>4. CASE WriteKeyFile(p)
  <2> DEFINE s == [proc[p] EXCEPT !.pc = "up"]
  <2>1. /\ s \in KeyState /\ s.pc = "up" /\ s.key = proc[p].key
        /\ proc' = [proc EXCEPT ![p] = s]
        /\ proc[p].pc = "write"
        /\ file' = proc[p].key /\ UNCHANGED <<made, overwrote>>
    BY <1>0, <1>4 DEF WriteKeyFile, KeyState
  <2> HIDE DEF s
  <2>2. /\ proc' \in [Procs -> KeyState]
        /\ proc'[p] = s
        /\ \A q \in Procs \ {p} : proc'[q] = proc[q]
    BY <2>1 DEF KeyInv, KeysTyped
  <2>a. proc[p].key \in made /\ proc[p].key \in Keys
    BY <2>1 DEF KeyInv, KeysMade, KeysTyped
  <2>3. KeysTyped' /\ KeysMade' /\ FileStays'
    BY <2>1, <2>2, <2>a, KeysDiffer DEF KeyInv, KeysTyped, KeysMade, FileStays
  <2>4. OneWrites'
    BY <2>1, <2>2 DEF KeyInv, OneWrites
  <2>5. KeyIsKept'
    <3>1. ASSUME ~overwrote, NEW q \in Procs \ {p}, Up(q) PROVE FALSE
      <4>1. proc[q].key \in Keys /\ file = proc[q].key /\ file = EMPTY
        BY <2>1, <3>1 DEF KeyInv, KeysMade, KeysTyped, KeyIsKept, OneWrites, Up
      <4> QED
        BY <4>1, KeysDiffer
    <3> QED
      BY <2>1, <2>2, <3>1 DEF KeyIsKept, Up
  <2> QED
    BY <2>3, <2>4, <2>5 DEF KeyInv
<1>5. CASE ReadKeyFromPath(p)
  <2>1. CASE file = EMPTY
    <3>1. proc' = [proc EXCEPT ![p] = Down] /\ Down.pc = "down"
      BY <1>5, <2>1 DEF ReadKeyFromPath, Down
    <3> QED
      BY <1>0, <1>5, <3>1, ProgramMoves DEF ReadKeyFromPath, KeyInv, KeysTyped
  <2>2. CASE file # EMPTY
    <3> DEFINE s == [pc |-> "up", key |-> file]
    <3>1. /\ proc[p].pc = "read"
          /\ proc' = [proc EXCEPT ![p] = s]
          /\ UNCHANGED <<file, made, overwrote>>
      BY <1>5, <2>2 DEF ReadKeyFromPath
    <3>2. file \in made
      BY <2>2, <3>1 DEF KeyInv, KeysMade, FileStays
    <3>3. s \in KeyState /\ s.pc = "up" /\ s.key = file
      BY <3>2 DEF KeyState, KeyInv, KeysTyped
    <3> HIDE DEF s
    <3>4. /\ proc' \in [Procs -> KeyState]
          /\ proc'[p] = s
          /\ \A q \in Procs \ {p} : proc'[q] = proc[q]
      BY <3>1, <3>3 DEF KeyInv, KeysTyped
    <3>5. KeysTyped' /\ KeysMade' /\ FileStays'
      BY <3>1, <3>2, <3>3, <3>4, KeysDiffer DEF KeyInv, KeysTyped, KeysMade, FileStays
    <3>6. OneWrites'
      BY <3>1, <3>3, <3>4 DEF KeyInv, OneWrites
    <3>7. KeyIsKept'
      BY <3>1, <3>3, <3>4 DEF KeyInv, KeyIsKept, Up
    <3> QED
      BY <3>5, <3>6, <3>7 DEF KeyInv
  <2> QED
    BY <2>1, <2>2
<1>6. CASE Ends(p)
  <2>1. Down.pc = "down"
    BY DEF Down
  <2> QED
    BY <1>0, <1>6, <2>1, ProgramMoves DEF Ends, KeyInv, KeysTyped
<1> QED
  BY <1>1, <1>2, <1>3, <1>4, <1>5, <1>6 DEF KeyStep, ReadsKey

LEMMA KeysUntouched ==
  ASSUME KeyInv, UNCHANGED keyVars
  PROVE  KeyInv'
BY DEF keyVars, KeyInv, KeysTyped, KeysMade, FileStays, OneWrites, KeyIsKept, Up

LEMMA KeyInductive == KeyInv /\ [Next]_vars => KeyInv'
<1> SUFFICES ASSUME KeyInv, [Next]_vars PROVE KeyInv'
  OBVIOUS
<1>0. ME \in Procs
  BY ProcessAssumption DEF ProcessAssumption
<1>1. CASE Main
  BY <1>0, <1>1, KeyStepKeeps DEF Main, KeyStep, ReadsKey
<1>2. CASE Input \/ Killed
  BY <1>0, <1>2, KeyStepKeeps, KeysUntouched DEF Input, Killed, KeyStep
<1>3. CASE HandleCommand \/ Probing \/ User \/ UNCHANGED vars
  BY <1>3, KeysUntouched DEF HandleCommand, Probing, User, vars
<1>4. CASE Elsewhere
  BY <1>4, KeyStepKeeps, KeysUntouched DEF Elsewhere, Others, KeyStep
<1> QED
  BY <1>1, <1>2, <1>3, <1>4 DEF Next

(***************************************************************************)
(* The key a program runs with is the one in the file, whatever programs   *)
(* start and end meanwhile, and at whatever step: unless the file was      *)
(* created over one that was there.                                        *)
(***************************************************************************)
THEOREM KeysAreKept == Spec => []KeyIsKept
<1>1. Init => KeyInv
  BY KeyStart DEF Init
<1>2. KeyInv => KeyIsKept
  BY DEF KeyInv
<1> QED
  BY <1>1, <1>2, KeyInductive, PTL DEF Spec

-----------------------------------------------------------------------------
(***************************************************************************)
(* Probes.  What ProbeComplete rests on: while a probe asks, the addresses *)
(* it has seen or has still to look at are closed under the answers it     *)
(* got, and it has heard of all of them.                                   *)
(***************************************************************************)
Graphs == UNION {[A -> Seq(Addresses)] : A \in SUBSET Addresses}

ProbeState ==
  [pc : {"off", "test", "set", "ask", "draw"}, todo : Seq(Addresses),
   seen : SUBSET Addresses, graph : Graphs]

Follows(todo, seen, graph) ==
  /\ SELF_ADDR \in seen \cup Range(todo)
  /\ DOMAIN graph \subseteq seen
  /\ \A a \in DOMAIN graph : Range(graph[a]) \subseteq seen \cup Range(todo)
  /\ seen \cup Range(todo) \subseteq HeardOf(graph)

ProbeOK(pr) ==
  /\ pr.pc \in {"ask", "draw"} => Follows(pr.todo, pr.seen, pr.graph)
  /\ pr.pc = "draw" => pr.todo = <<>>

ProbeInv ==
  /\ peersOf \in [Addresses -> Seq(Addresses)]
  /\ probe \in [Probers -> ProbeState]
  /\ \A g \in Probers : ProbeOK(probe[g])

\* A set that is closed under the answers of a graph.
Closed(S, graph) ==
  /\ SELF_ADDR \in S
  /\ \A a \in S \cap DOMAIN graph : Range(graph[a]) \subseteq S

LEMMA HeardOfMeans ==
  ASSUME NEW graph
  PROVE  HeardOf(graph) = {a \in Addresses : \A S \in SUBSET Addresses : Closed(S, graph) => a \in S}
BY DEF HeardOf, Closed

LEMMA SelfIsHeardOf ==
  ASSUME NEW graph
  PROVE  SELF_ADDR \in HeardOf(graph)
BY HeardOfMeans, ProbeAssumption DEF ProbeAssumption, Closed

\* One answer more: what had been heard of still is, and the answer, too.
LEMMA AnswerHeard ==
  ASSUME NEW graph \in Graphs, NEW a \in HeardOf(graph), a \notin DOMAIN graph,
         NEW list \in Seq(Addresses), NEW more, more = WithAnswer(graph, a, list)
  PROVE  /\ HeardOf(graph) \subseteq HeardOf(more)
         /\ Range(list) \subseteq HeardOf(more)
<1>1. /\ DOMAIN more = DOMAIN graph \cup {a}
      /\ more[a] = list
      /\ \A b \in DOMAIN graph : more[b] = graph[b]
  BY DEF WithAnswer, Graphs
<1>2. ASSUME NEW S \in SUBSET Addresses, Closed(S, more)
      PROVE  Closed(S, graph)
  BY <1>1, <1>2 DEF Closed
<1>3. HeardOf(graph) \subseteq HeardOf(more)
  BY <1>2, HeardOfMeans
<1>4. Range(list) \subseteq Addresses
  BY DEF Range
<1>5. ASSUME NEW S \in SUBSET Addresses, Closed(S, more)
      PROVE  Range(list) \subseteq S
  <2>1. a \in S
    BY <1>3, <1>5, HeardOfMeans
  <2> QED
    BY <1>1, <1>5, <2>1 DEF Closed
<1> QED
  BY <1>3, <1>4, <1>5, HeardOfMeans

\* The addresses in a list that is cut or made longer.
LEMMA ListRanges ==
  ASSUME NEW s \in Seq(Addresses), s # <<>>, NEW t \in Seq(Addresses)
  PROVE  /\ Head(s) \in Addresses
         /\ Tail(s) \in Seq(Addresses)
         /\ Range(s) = {Head(s)} \cup Range(Tail(s))
         /\ Tail(s) \o t \in Seq(Addresses)
         /\ Range(Tail(s) \o t) = Range(Tail(s)) \cup Range(t)
<1>1. Head(s) \in Addresses /\ Tail(s) \in Seq(Addresses) /\ Len(Tail(s)) = Len(s) - 1
  OBVIOUS
<1>2. Range(s) = {Head(s)} \cup Range(Tail(s))
  <2> DEFINE r == Tail(s)
  <2>1. /\ DOMAIN s = 1..Len(s) /\ Len(s) \in Nat /\ Len(s) # 0 /\ Head(s) = s[1]
        /\ DOMAIN r = 1..(Len(s) - 1) /\ \A i \in 1..(Len(s) - 1) : r[i] = s[i + 1]
    OBVIOUS
  <2> HIDE DEF r
  <2>2. ASSUME NEW i \in DOMAIN s PROVE s[i] = s[1] \/ \E j \in DOMAIN r : s[i] = r[j]
    <3>1. CASE i = 1
      BY <3>1
    <3>2. CASE i # 1
      <4>1. i - 1 \in 1..(Len(s) - 1) /\ (i - 1) + 1 = i
        BY <2>1, <3>2
      <4> QED
        BY <2>1, <4>1
    <3> QED
      BY <3>1, <3>2
  <2>3. ASSUME NEW j \in DOMAIN r PROVE \E i \in DOMAIN s : r[j] = s[i]
    <3>1. j + 1 \in DOMAIN s
      BY <2>1
    <3> QED
      BY <2>1, <3>1
  <2>4. 1 \in DOMAIN s
    BY <2>1
  <2>5. Range(s) = {s[1]} \cup Range(r)
    BY <2>2, <2>3, <2>4 DEF Range
  <2> QED
    BY <2>1, <2>5 DEF r
<1>3. ASSUME NEW u \in Seq(Addresses)
      PROVE  u \o t \in Seq(Addresses) /\ Range(u \o t) = Range(u) \cup Range(t)
  <2>1. /\ u \o t \in Seq(Addresses)
        /\ Len(u \o t) = Len(u) + Len(t)
        /\ \A i \in 1..Len(u) : (u \o t)[i] = u[i]
        /\ \A i \in 1..Len(t) : (u \o t)[Len(u) + i] = t[i]
    OBVIOUS
  <2> DEFINE w == u \o t
  <2>2. DOMAIN w = 1..(Len(u) + Len(t)) /\ Len(u) \in Nat /\ Len(t) \in Nat
    BY <2>1
  <2>3. /\ \A i \in 1..Len(u) : w[i] = u[i]
        /\ \A i \in 1..Len(t) : w[Len(u) + i] = t[i]
    BY <2>1
  <2> HIDE DEF w
  <2>4. ASSUME NEW i \in DOMAIN w
        PROVE  (\E j \in 1..Len(u) : w[i] = u[j]) \/ (\E j \in 1..Len(t) : w[i] = t[j])
    <3>1. CASE i <= Len(u)
      <4>1. i \in 1..Len(u)
        BY <2>2, <3>1
      <4> QED
        BY <2>3, <4>1
    <3>2. CASE ~(i <= Len(u))
      <4>1. i - Len(u) \in 1..Len(t) /\ Len(u) + (i - Len(u)) = i
        BY <2>2, <3>2
      <4> QED
        BY <2>3, <4>1
    <3> QED
      BY <3>1, <3>2
  <2>5. ASSUME NEW j \in 1..Len(u) PROVE \E i \in DOMAIN w : u[j] = w[i]
    <3>1. j \in DOMAIN w
      BY <2>2
    <3> QED
      BY <2>3, <3>1
  <2>6. ASSUME NEW j \in 1..Len(t) PROVE \E i \in DOMAIN w : t[j] = w[i]
    <3>1. Len(u) + j \in DOMAIN w
      BY <2>2
    <3> QED
      BY <2>3, <3>1
  <2>7. DOMAIN u = 1..Len(u) /\ DOMAIN t = 1..Len(t)
    OBVIOUS
  <2>8. Range(w) = Range(u) \cup Range(t)
    <3>1. ASSUME NEW x \in Range(w) PROVE x \in Range(u) \cup Range(t)
      BY <2>4, <2>7 DEF Range
    <3>2. ASSUME NEW x \in Range(u) PROVE x \in Range(w)
      BY <2>5, <2>7 DEF Range
    <3>3. ASSUME NEW x \in Range(t) PROVE x \in Range(w)
      BY <2>6, <2>7 DEF Range
    <3> QED
      BY <3>1, <3>2, <3>3
  <2> QED
    BY <2>1, <2>8 DEF w
<1> QED
  BY <1>1, <1>2, <1>3

LEMMA ProbeFollows ==
  ASSUME NEW todo \in Seq(Addresses), NEW seen \in SUBSET Addresses, NEW graph \in Graphs,
         Follows(todo, seen, graph), todo # <<>>, NEW a, a = Head(todo),
         NEW list \in Seq(Addresses)
  PROVE  /\ a \in seen => Follows(Tail(todo), seen, graph)
         /\ Follows(Tail(todo), seen \cup {a}, graph)
         /\ a \notin seen => Follows(Tail(todo) \o list, seen \cup {a}, WithAnswer(graph, a, list))
<1>1. /\ Range(todo) = {a} \cup Range(Tail(todo))
      /\ Range(Tail(todo) \o list) = Range(Tail(todo)) \cup Range(list)
  BY ListRanges
<1>2. ASSUME a \notin seen
      PROVE  Follows(Tail(todo) \o list, seen \cup {a}, WithAnswer(graph, a, list))
  <2> DEFINE more == WithAnswer(graph, a, list)
  <2>1. a \in HeardOf(graph) /\ a \notin DOMAIN graph
    BY <1>1, <1>2 DEF Follows
  <2>2. HeardOf(graph) \subseteq HeardOf(more) /\ Range(list) \subseteq HeardOf(more)
    BY <2>1, AnswerHeard
  <2>3. /\ DOMAIN more = DOMAIN graph \cup {a}
        /\ more[a] = list
        /\ \A b \in DOMAIN graph : more[b] = graph[b]
    BY <2>1 DEF WithAnswer, Graphs
  <2> HIDE DEF more
  <2>4. Follows(Tail(todo) \o list, seen \cup {a}, more)
    BY <1>1, <2>2, <2>3 DEF Follows
  <2> QED
    BY <2>4 DEF more
<1> QED
  BY <1>1, <1>2 DEF Follows

LEMMA NoProbeTyped ==
  /\ NoProbe \in ProbeState
  /\ NoProbe.pc = "off" /\ NoProbe.seen = {} /\ DOMAIN NoProbe.graph = {}
<1>1. [a \in {} |-> a] \in Graphs
  BY DEF Graphs
<1> QED
  BY <1>1 DEF NoProbe, ProbeState

\* One probe goes on, or all end.
LEMMA ProbeGoesOn ==
  ASSUME ProbeInv, UNCHANGED peersOf, NEW g \in Probers, NEW s \in ProbeState, ProbeOK(s),
         probe' = [probe EXCEPT ![g] = s]
  PROVE  ProbeInv'
<1>1. /\ probe' \in [Probers -> ProbeState]
      /\ probe'[g] = s
      /\ \A h \in Probers \ {g} : probe'[h] = probe[h]
  BY DEF ProbeInv
<1>2. ASSUME NEW h \in Probers PROVE ProbeOK(probe'[h])
  BY <1>1 DEF ProbeInv
<1> QED
  BY <1>1, <1>2 DEF ProbeInv

LEMMA ProbeStepKeeps ==
  ASSUME ProbeInv, NEW g \in Probers, ProbeStep(g)
  PROVE  ProbeInv'
<1> DEFINE pr == probe[g]
<1>0. /\ pr \in ProbeState /\ ProbeOK(pr)
      /\ pr.todo \in Seq(Addresses) /\ pr.seen \in SUBSET Addresses /\ pr.graph \in Graphs
  BY DEF ProbeInv, ProbeState
<1>1. CASE TestFlag(g)
  <2> DEFINE s == [pr EXCEPT !.pc = IF is_probing THEN "off" ELSE "set"]
  <2>1. s \in ProbeState /\ s.pc \in {"off", "set"} /\ probe' = [probe EXCEPT ![g] = s]
    BY <1>0, <1>1 DEF TestFlag, ProbeState
  <2> HIDE DEF s
  <2> QED
    BY <1>1, <2>1, ProbeGoesOn DEF TestFlag, ProbeOK
<1>2. CASE SetFlag(g)
  <2> DEFINE s == [NoProbe EXCEPT !.pc = "ask", !.todo = <<SELF_ADDR>>]
  <2>0. SELF_ADDR \in Addresses
    BY ProbeAssumption DEF ProbeAssumption
  <2>a. <<SELF_ADDR>> \in Seq(Addresses)
    BY <2>0
  <2>b. /\ s \in ProbeState /\ s.pc = "ask" /\ s.todo = <<SELF_ADDR>>
        /\ s.seen = {} /\ DOMAIN s.graph = {}
    BY <2>a, NoProbeTyped DEF ProbeState
  <2>1. s.seen = {} /\ s.pc = "ask" /\ probe' = [probe EXCEPT ![g] = s]
    BY <1>2, <2>b DEF SetFlag
  <2> HIDE DEF s
  <2>2. Range(s.todo) = {SELF_ADDR}
    BY <2>b DEF Range
  <2>3. ProbeOK(s)
    BY <2>b, <2>2, SelfIsHeardOf DEF ProbeOK, Follows
  <2> QED
    BY <1>2, <2>1, <2>b, <2>3, ProbeGoesOn DEF SetFlag
<1>3. ASSUME Asking(g)
      PROVE  /\ Follows(pr.todo, pr.seen, pr.graph) /\ pr.todo # <<>>
             /\ Next1(g) = Head(pr.todo) /\ Next1(g) \in Addresses
             /\ Tail(pr.todo) \in Seq(Addresses)
             /\ pr.pc = "ask"
  <2>1. pr.pc = "ask" /\ pr.todo # <<>>
    BY <1>3 DEF Asking
  <2> QED
    BY <1>0, <2>1, ListRanges DEF Next1, ProbeOK
<1>4. CASE SkipSeen(g)
  <2> DEFINE s == [pr EXCEPT !.todo = Tail(@)]
  <2>1. Asking(g) /\ Next1(g) \in pr.seen /\ probe' = [probe EXCEPT ![g] = s]
    BY <1>4 DEF SkipSeen
  <2>2. Follows(Tail(pr.todo), pr.seen, pr.graph)
    BY <1>0, <1>3, <2>1, ProbeFollows
  <2>3. /\ s \in ProbeState /\ s.pc = "ask"
        /\ s.todo = Tail(pr.todo) /\ s.seen = pr.seen /\ s.graph = pr.graph
    BY <1>0, <1>3, <2>1 DEF ProbeState
  <2> HIDE DEF s
  <2>4. ProbeOK(s)
    BY <2>2, <2>3 DEF ProbeOK
  <2> QED
    BY <1>4, <2>1, <2>3, <2>4, ProbeGoesOn DEF SkipSeen
<1>5. CASE NoAnswer(g)
  <2> DEFINE s == [pr EXCEPT !.todo = Tail(@), !.seen = @ \cup {Next1(g)}]
  <2>1. Asking(g) /\ Next1(g) \notin pr.seen
    BY <1>5 DEF NoAnswer
  <2>a. probe' = [probe EXCEPT ![g] = s]
    BY <1>5 DEF NoAnswer
  <2>2. Follows(Tail(pr.todo), pr.seen \cup {Next1(g)}, pr.graph)
    BY <1>0, <1>3, <2>1, ProbeFollows
  <2>3. /\ s \in ProbeState /\ s.pc = "ask" /\ s.todo = Tail(pr.todo)
        /\ s.seen = pr.seen \cup {Next1(g)} /\ s.graph = pr.graph
    BY <1>0, <1>3, <2>1 DEF ProbeState
  <2> HIDE DEF s
  <2>4. ProbeOK(s)
    BY <2>2, <2>3 DEF ProbeOK
  <2> QED
    BY <1>5, <2>a, <2>3, <2>4, ProbeGoesOn DEF NoAnswer
<1>6. CASE Answer(g)
  <2> DEFINE a == Next1(g)
             list == peersOf[a]
             s == [pr EXCEPT !.todo = Tail(@) \o list, !.seen = @ \cup {a},
                             !.graph = WithAnswer(@, a, list)]
  <2>1. Asking(g) /\ a \notin pr.seen
    BY <1>6 DEF Answer
  <2>2. probe' = [probe EXCEPT ![g] = s]
    BY <1>6 DEF Answer
  <2>3. a \in Addresses /\ list \in Seq(Addresses) /\ a = Head(pr.todo)
    BY <1>3, <2>1 DEF ProbeInv
  <2> HIDE DEF a, list
  <2>4. Follows(Tail(pr.todo) \o list, pr.seen \cup {a}, WithAnswer(pr.graph, a, list))
    BY <1>0, <1>3, <2>1, <2>3, ProbeFollows
  <2>5. WithAnswer(pr.graph, a, list) \in Graphs
    <3>1. PICK A \in SUBSET Addresses : pr.graph \in [A -> Seq(Addresses)]
      BY <1>0 DEF Graphs
    <3>2. WithAnswer(pr.graph, a, list) \in [A \cup {a} -> Seq(Addresses)]
      BY <2>3, <3>1 DEF WithAnswer
    <3> QED
      BY <2>3, <3>2 DEF Graphs
  <2>6. Tail(pr.todo) \o list \in Seq(Addresses)
    BY <1>0, <1>3, <2>1, <2>3, ListRanges
  <2>7. /\ s \in ProbeState /\ s.pc = "ask" /\ s.todo = Tail(pr.todo) \o list
        /\ s.seen = pr.seen \cup {a} /\ s.graph = WithAnswer(pr.graph, a, list)
    BY <1>0, <1>3, <2>1, <2>3, <2>5, <2>6 DEF ProbeState
  <2> HIDE DEF s
  <2>8. ProbeOK(s)
    BY <2>4, <2>7 DEF ProbeOK
  <2> QED
    BY <1>6, <2>2, <2>7, <2>8, ProbeGoesOn DEF Answer
<1>7. CASE ProbeDraws(g)
  <2> DEFINE s == [pr EXCEPT !.pc = "draw"]
  <2>1. /\ s \in ProbeState /\ s.pc = "draw" /\ pr.pc = "ask" /\ pr.todo = <<>>
        /\ s.todo = pr.todo /\ s.seen = pr.seen /\ s.graph = pr.graph
        /\ probe' = [probe EXCEPT ![g] = s]
    BY <1>0, <1>7 DEF ProbeDraws, ProbeState
  <2> HIDE DEF s
  <2>2. ProbeOK(s)
    BY <1>0, <2>1 DEF ProbeOK
  <2> QED
    BY <1>7, <2>1, <2>2, ProbeGoesOn DEF ProbeDraws
<1>8. CASE ProbeEnds(g)
  BY <1>8, NoProbeTyped, ProbeGoesOn DEF ProbeEnds, ProbeOK
<1> QED
  BY <1>1, <1>2, <1>4, <1>5, <1>6, <1>7, <1>8 DEF ProbeStep

LEMMA ProbesUntouched ==
  ASSUME ProbeInv, UNCHANGED <<peersOf, probe>>
  PROVE  ProbeInv'
BY DEF ProbeInv

LEMMA ProbeStartKeeps ==
  ASSUME ProbeInv, NEW g \in Probers, ProbeStarts(g)
  PROVE  ProbeInv'
<1> DEFINE s == [probe[g] EXCEPT !.pc = "test"]
<1>1. s \in ProbeState /\ s.pc = "test" /\ probe' = [probe EXCEPT ![g] = s]
  BY DEF ProbeStarts, ProbeInv, ProbeState
<1> HIDE DEF s
<1> QED
  BY <1>1, ProbeGoesOn DEF ProbeStarts, ProbeOK

LEMMA DeathKeepsProbes ==
  ASSUME ProbeInv, Dies
  PROVE  ProbeInv'
BY NoProbeTyped DEF Dies, ProbeInv, ProbeOK

LEMMA ProbeInductive == ProbeInv /\ [Next]_vars => ProbeInv'
<1> SUFFICES ASSUME ProbeInv, [Next]_vars PROVE ProbeInv'
  OBVIOUS
<1>1. CASE Main
  BY <1>1, ProbesUntouched, DeathKeepsProbes DEF Main, probeVars
<1>2. CASE Input \/ Killed
  BY <1>2, ProbesUntouched, DeathKeepsProbes DEF Input, Killed, probeVars
<1>3. CASE HandleCommand
  BY <1>3, ProbesUntouched, ProbeStartKeeps DEF HandleCommand, probeVars
<1>4. CASE Probing
  BY <1>4, ProbeStepKeeps DEF Probing
<1>5. CASE User \/ UNCHANGED vars
  BY <1>5, ProbesUntouched DEF User, vars, probeVars
<1>6. CASE Elsewhere
  <2>1. CASE NetworkChanges
    BY <2>1, ProbeAssumption DEF NetworkChanges, ProbeInv, ProbeAssumption
  <2>2. CASE UNCHANGED probeVars
    BY <2>2, ProbesUntouched DEF probeVars
  <2> QED
    BY <1>6, <2>1, <2>2 DEF Elsewhere
<1> QED
  BY <1>1, <1>2, <1>3, <1>4, <1>5, <1>6 DEF Next

LEMMA ProbeStart == ProbeInit => ProbeInv
BY NoProbeTyped, ProbeAssumption DEF ProbeInit, ProbeInv, ProbeOK, ProbeAssumption

(***************************************************************************)
(* A probe that comes to its end has asked whom it should: what it has     *)
(* seen is closed under the answers, so it has everything that can be      *)
(* heard of, and it has seen nothing else.                                 *)
(***************************************************************************)
THEOREM ProbesAreComplete == Spec => []ProbeComplete
<1>1. Init => ProbeInv
  BY ProbeStart DEF Init
<1>2. ProbeInv => ProbeComplete
  <2> SUFFICES ASSUME ProbeInv, NEW g \in Probers, probe[g].pc = "draw"
               PROVE  /\ probe[g].seen = HeardOf(probe[g].graph)
                      /\ DOMAIN probe[g].graph \subseteq probe[g].seen
    BY DEF ProbeComplete
  <2> DEFINE seen == probe[g].seen
             graph == probe[g].graph
  <2>1. Follows(<<>>, seen, graph) /\ seen \in SUBSET Addresses
    BY DEF ProbeInv, ProbeOK, ProbeState
  <2>2. Range(<<>>) = {}
    BY DEF Range
  <2> HIDE DEF seen, graph
  <2>3. Closed(seen, graph)
    BY <2>1, <2>2 DEF Follows, Closed
  <2>4. HeardOf(graph) \subseteq seen
    BY <2>1, <2>3, HeardOfMeans
  <2>5. seen = HeardOf(graph) /\ DOMAIN graph \subseteq seen
    BY <2>1, <2>2, <2>4 DEF Follows
  <2> QED
    BY <2>5 DEF seen, graph
<1> QED
  BY <1>1, <1>2, ProbeInductive, PTL DEF Spec

-----------------------------------------------------------------------------
(***************************************************************************)
(* Types.  The terminal, the loop and the probes are there exactly while   *)
(* the program is; that HandleCommand does not switch itself off takes the *)
(* fact that only valid lines wait in front of its channel.                *)
(***************************************************************************)
Event == Lines[flags.kind] \cup {CTRL_C}

TermTyped ==
  /\ flags \in [kind : {"node", "wallet"}, gui : BOOLEAN]
  /\ events \in Seq(Event)
  /\ front \in [pc : {"off", "wait", "send", "drain"}, line : Event \cup {NoLine}]
  /\ front.pc = "send" => Valid(front.line)

Linked ==
  /\ loop # "off" <=> Up(ME)
  /\ front.pc # "off" <=> Started(ME)
  /\ \A g \in Probers : probe[g].pc # "off" => Up(ME)

TermInv == TermTyped /\ Linked

LEMMA ValidWord ==
  ASSUME NEW kind, NEW line, CommandValid(kind, line)
  PROVE  line.word # "off"
BY DEF CommandValid, NodeCommandValid, WalletCommandValid

\* What is left of the events is events.
LEMMA EventsLeft ==
  ASSUME TermTyped, events # <<>>
  PROVE  /\ Head(events) \in Event
         /\ Tail(events) \in Seq(Event)
         /\ \A n \in 1..Len(events) : SubSeq(events, n + 1, Len(events)) \in Seq(Event)
<1> DEFINE E == Event
<1>1. events \in Seq(E)
  BY DEF TermTyped
<1> HIDE DEF E
<1>2. /\ Head(events) \in E
      /\ Tail(events) \in Seq(E)
  BY <1>1
<1>3. ASSUME NEW n \in 1..Len(events) PROVE SubSeq(events, n + 1, Len(events)) \in Seq(E)
  BY <1>1
<1> QED
  BY <1>2, <1>3 DEF E

\* The terminal goes on by itself: the reader of lines reads, or does not.
LEMMA ReaderMoves ==
  ASSUME TermTyped, UNCHANGED flags, events' \in Seq(Event),
         NEW pc \in {"wait", "send", "drain"}, NEW line \in Event \cup {NoLine},
         front' = [pc |-> pc, line |-> line], pc = "send" => Valid(line)
  PROVE  TermTyped'
<1>1. UNCHANGED Event
  BY DEF Event
<1>2. \A l : Valid(l)' <=> Valid(l)
  BY DEF Valid
<1>3. front' \in [pc : {"off", "wait", "send", "drain"}, line : Event \cup {NoLine}]
  OBVIOUS
<1> QED
  BY <1>1, <1>2, <1>3 DEF TermTyped

LEMMA TermUntouched ==
  ASSUME TermTyped, UNCHANGED <<flags, events, front>>
  PROVE  TermTyped'
BY DEF TermTyped, Event, Valid

LEMMA FrontFields ==
  ASSUME TermTyped
  PROVE  /\ front.line \in Event \cup {NoLine}
         /\ \A pc : [front EXCEPT !.pc = pc] = [pc |-> pc, line |-> front.line]
         /\ front = [pc |-> front.pc, line |-> front.line]
BY DEF TermTyped

LEMMA ReadingKeepsTypes ==
  ASSUME TermTyped, Edit \/ Layout \/ ParseCommand
  PROVE  TermTyped' /\ front.pc # "off" /\ front'.pc # "off" /\ UNCHANGED loop
<1>1. CASE Edit
  <2>1. /\ events # <<>> /\ events' = Tail(events) /\ UNCHANGED <<flags, loop>>
        /\ front.pc \in {"wait", "drain"}
        /\ front' = IF Valid(Head(events)) THEN [pc |-> "send", line |-> Head(events)]
                    ELSE [front EXCEPT !.pc = "drain"]
    BY <1>1 DEF Edit
  <2>2. CASE Valid(Head(events))
    <3>1. front' = [pc |-> "send", line |-> Head(events)]
      BY <2>1, <2>2
    <3> QED
      BY <2>1, <2>2, <3>1, EventsLeft, ReaderMoves
  <2>3. CASE ~Valid(Head(events))
    <3>1. front' = [pc |-> "drain", line |-> front.line]
      BY <2>1, <2>3, FrontFields
    <3> QED
      BY <2>1, <3>1, EventsLeft, FrontFields, ReaderMoves
  <2> QED
    BY <2>2, <2>3
<1>2. CASE Layout
  <2>1. /\ front.pc \in {"wait", "drain"} /\ UNCHANGED <<flags, events, loop>>
        /\ front' = [front EXCEPT !.pc = "wait"]
    BY <1>2 DEF Layout
  <2>2. front' = [pc |-> "wait", line |-> front.line] /\ events' \in Seq(Event)
    BY <2>1, FrontFields DEF TermTyped
  <2> QED
    BY <2>1, <2>2, FrontFields, ReaderMoves
<1>3. CASE ParseCommand
  <2>1. /\ events # <<>> /\ UNCHANGED <<flags, loop>> /\ front.pc = "wait"
        /\ ParseCommandReading(IF flags.kind = "wallet" THEN ReadAhead ELSE {1})
    BY <1>3 DEF ParseCommand
  <2>2. Len(events) \in Nat /\ Len(events) >= 1
    BY <2>1 DEF TermTyped
  <2>3. PICK n \in 1..Len(events) :
          /\ events' = SubSeq(events, n + 1, Len(events))
          /\ front' = IF Valid(Head(events)) THEN [pc |-> "send", line |-> Head(events)] ELSE front
    BY <2>1, <2>2 DEF ParseCommandReading, ReadAhead
  <2>4. events' \in Seq(Event) /\ Head(events) \in Event
    BY <2>1, <2>3, EventsLeft
  <2>5. CASE Valid(Head(events))
    <3>1. front' = [pc |-> "send", line |-> Head(events)]
      BY <2>3, <2>5
    <3> QED
      BY <2>1, <2>4, <2>5, <3>1, ReaderMoves
  <2>6. CASE ~Valid(Head(events))
    <3>1. front' = [pc |-> "wait", line |-> front.line]
      BY <2>1, <2>3, <2>6, FrontFields
    <3> QED
      BY <2>1, <2>4, <3>1, FrontFields, ReaderMoves
  <2> QED
    BY <2>5, <2>6
<1> QED
  BY <1>1, <1>2, <1>3

LEMMA TypingKeepsTypes ==
  ASSUME TermTyped, (\E line \in Lines[flags.kind] : UserTypes(line)) \/ UserQuits
  PROVE  TermTyped' /\ UNCHANGED <<front, loop>>
<1>1. PICK e \in Event : events' = Append(events, e)
  BY DEF UserTypes, UserQuits, Event
<1>2. UNCHANGED <<flags, front, loop>>
  BY DEF UserTypes, UserQuits
<1>3. events' \in Seq(Event)
  BY <1>1 DEF TermTyped
<1>4. UNCHANGED Event
  BY <1>2 DEF Event
<1> QED
  BY <1>2, <1>3, <1>4 DEF TermTyped, Valid

LEMMA ResetTypes ==
  ASSUME TermTyped, TermReset
  PROVE  TermTyped' /\ front'.pc = "off" /\ loop' = "off"
<1>1. UNCHANGED Event
  BY DEF TermReset, Event
<1>2. events' \in Seq(Event)'
  BY DEF TermReset
<1> QED
  BY <1>1, <1>2 DEF TermReset, TermTyped

LEMMA DeathLinks ==
  ASSUME TermInv, KeyInv, Dies, proc'[ME].pc = "down"
  PROVE  TermInv'
<1>1. TermTyped' /\ front'.pc = "off" /\ loop' = "off"
  BY ResetTypes DEF Dies, TermInv
<1>2. \A g \in Probers : probe'[g].pc = "off"
  BY NoProbeTyped DEF Dies
<1> QED
  BY <1>1, <1>2 DEF TermInv, Linked, Up, Started

\* What the steps of reading the key do to the program's place.
LEMMA KeyPlaces ==
  ASSUME KeyInv, NEW p \in Procs
  PROVE  /\ Launch(p) => proc[p].pc = "down" /\ proc'[p].pc = "stat"
         /\ StatKeyFile(p) => proc[p].pc = "stat" /\ proc'[p].pc \in {"create", "read"}
         /\ CreateKeyFile(p) => proc[p].pc = "create" /\ proc'[p].pc = "write"
         /\ WriteKeyFile(p) => proc[p].pc = "write" /\ proc'[p].pc = "up"
         /\ ReadKeyFromPath(p) => proc[p].pc = "read"
                                  /\ proc'[p].pc = (IF file = EMPTY THEN "down" ELSE "up")
         /\ Ends(p) => proc'[p].pc = "down"
         /\ KeyStep(p) => \A q \in Procs \ {p} : proc'[q] = proc[q]
<1>1. proc \in [Procs -> KeyState]
  BY DEF KeyInv, KeysTyped
<1>2. proc[p] \in KeyState
  BY <1>1
<1> QED
  BY <1>1, <1>2
  DEF KeyStep, ReadsKey, Launch, StatKeyFile, CreateKeyFile, WriteKeyFile, ReadKeyFromPath, Ends,
      Started, Down, KeyState

LEMMA ProbesStay ==
  ASSUME ProbeInv, NEW g \in Probers, ProbeStep(g)
  PROVE  \A h \in Probers : probe'[h].pc # "off" => probe[h].pc # "off"
<1>1. probe \in [Probers -> ProbeState]
  BY DEF ProbeInv
<1>2. /\ probe[g].pc # "off"
      /\ \A h \in Probers \ {g} : probe'[h] = probe[h]
  BY <1>1
  DEF ProbeStep, TestFlag, SetFlag, SkipSeen, NoAnswer, Answer, Asking, ProbeDraws, ProbeEnds
<1> QED
  BY <1>2

LEMMA TermStart == Init => TermInv
<1> SUFFICES ASSUME Init PROVE TermInv
  OBVIOUS
<1>1. /\ flags \in [kind : {"node", "wallet"}, gui : BOOLEAN]
      /\ events = <<>> /\ loop = "off" /\ front = [pc |-> "off", line |-> NoLine]
  BY DEF Init, TermInit
<1>2. TermTyped
  BY <1>1 DEF TermTyped
<1>3. proc[ME].pc = "down"
  BY ProcessAssumption DEF Init, KeyInit, Down, ProcessAssumption
<1>4. \A g \in Probers : probe[g].pc = "off"
  BY NoProbeTyped DEF Init, ProbeInit
<1> QED
  BY <1>1, <1>2, <1>3, <1>4 DEF TermInv, Linked, Up, Started

LEMMA TermInductive == TermInv /\ KeyInv /\ ProbeInv /\ [Next]_vars => TermInv'
<1> SUFFICES ASSUME TermInv, KeyInv, ProbeInv, [Next]_vars PROVE TermInv'
  OBVIOUS
<1>0. ME \in Procs
  BY ProcessAssumption DEF ProcessAssumption
<1>1. CASE Main
  <2>1. CASE Launch(ME) /\ ListenOnInput /\ UNCHANGED probeVars
    <3>1. front' = [pc |-> "wait", line |-> front.line] /\ UNCHANGED <<flags, events, loop, probe>>
      BY <2>1, FrontFields DEF ListenOnInput, TermInv, probeVars
    <3>2. TermTyped'
      BY <3>1, FrontFields, ReaderMoves DEF TermInv, TermTyped
    <3>3. proc[ME].pc = "down" /\ proc'[ME].pc = "stat"
      BY <1>0, <2>1, KeyPlaces
    <3> QED
      BY <3>1, <3>2, <3>3 DEF TermInv, Linked, Up, Started
  <2>2. CASE (StatKeyFile(ME) \/ CreateKeyFile(ME)) /\ UNCHANGED <<termVars, probeVars>>
    <3>1. /\ proc[ME].pc \notin {"down", "up"} /\ proc'[ME].pc \notin {"down", "up"}
      BY <1>0, <2>2, KeyPlaces
    <3>2. UNCHANGED <<flags, events, front, loop, probe>>
      BY <2>2 DEF termVars, probeVars
    <3> QED
      BY <3>1, <3>2, TermUntouched DEF TermInv, Linked, Up, Started
  <2>3. CASE WriteKeyFile(ME) /\ LoopStarts /\ UNCHANGED probeVars
    <3>1. proc[ME].pc = "write" /\ proc'[ME].pc = "up"
      BY <1>0, <2>3, KeyPlaces
    <3>2. UNCHANGED <<flags, events, front, probe>> /\ loop' = "recv"
      BY <2>3 DEF LoopStarts, probeVars
    <3> QED
      BY <3>1, <3>2, TermUntouched DEF TermInv, Linked, Up, Started
  <2>4. CASE ReadKeyFromPath(ME) /\ file # EMPTY /\ LoopStarts /\ UNCHANGED probeVars
    <3>1. proc[ME].pc = "read" /\ proc'[ME].pc = "up"
      BY <1>0, <2>4, KeyPlaces
    <3>2. UNCHANGED <<flags, events, front, probe>> /\ loop' = "recv"
      BY <2>4 DEF LoopStarts, probeVars
    <3> QED
      BY <3>1, <3>2, TermUntouched DEF TermInv, Linked, Up, Started
  <2>5. CASE ReadKeyFromPath(ME) /\ file = EMPTY /\ Dies
    BY <1>0, <2>5, KeyPlaces, DeathLinks
  <2> QED
    BY <1>1, <2>1, <2>2, <2>3, <2>4, <2>5 DEF Main
<1>2. CASE Input
  <2>1. CASE (Edit \/ Layout \/ ParseCommand) /\ UNCHANGED <<keyVars, probeVars>>
    <3>1. TermTyped' /\ front.pc # "off" /\ front'.pc # "off" /\ UNCHANGED loop
      BY <2>1, ReadingKeepsTypes DEF TermInv
    <3>2. UNCHANGED <<proc, probe>>
      BY <2>1 DEF keyVars, probeVars
    <3> QED
      BY <3>1, <3>2 DEF TermInv, Linked, Up, Started
  <2>2. CASE Quits /\ Ends(ME) /\ Dies
    BY <1>0, <2>2, KeyPlaces, DeathLinks
  <2> QED
    BY <1>2, <2>1, <2>2 DEF Input
<1>3. CASE HandleCommand
  <2>1. CASE LoopTakes /\ UNCHANGED <<keyVars, probeVars>>
    <3>1. /\ front.pc = "send" /\ loop = "recv" /\ loop' = front.line.word
          /\ front' = [pc |-> IF flags.gui THEN "drain" ELSE "wait", line |-> NoLine]
          /\ UNCHANGED <<flags, events, proc, probe>>
      BY <2>1 DEF LoopTakes, keyVars, probeVars
    <3>2. PICK pc \in {"wait", "drain"} : front' = [pc |-> pc, line |-> NoLine]
      BY <3>1
    <3>3. TermTyped'
      BY <3>1, <3>2, ReaderMoves DEF TermInv, TermTyped
    <3>4. loop' # "off"
      BY <3>1, ValidWord DEF TermInv, TermTyped, Valid
    <3> QED
      BY <3>1, <3>2, <3>3, <3>4 DEF TermInv, Linked, Up, Started
  <2>2. CASE LoopReturns /\ loop # "network" /\ UNCHANGED <<keyVars, probeVars>>
    <3>1. /\ loop # "off" /\ loop' = "recv"
          /\ UNCHANGED <<flags, events, front, proc, probe>>
      BY <2>2 DEF LoopReturns, keyVars, probeVars
    <3> QED
      BY <3>1, TermUntouched DEF TermInv, Linked, Up, Started
  <2>3. CASE LoopReturns /\ loop = "network" /\ (\E g \in Probers : ProbeStarts(g)) /\ UNCHANGED keyVars
    <3>1. /\ loop # "off" /\ loop' = "recv"
          /\ UNCHANGED <<flags, events, front, proc>>
      BY <2>3 DEF LoopReturns, keyVars
    <3> QED
      BY <3>1, TermUntouched DEF TermInv, Linked, Up, Started
  <2> QED
    BY <1>3, <2>1, <2>2, <2>3 DEF HandleCommand
<1>4. CASE Probing
  <2>1. PICK g \in Probers : ProbeStep(g)
    BY <1>4 DEF Probing
  <2>2. \A h \in Probers : probe'[h].pc # "off" => probe[h].pc # "off"
    BY <2>1, ProbesStay
  <2>3. UNCHANGED <<flags, events, front, loop, proc>>
    BY <1>4 DEF Probing, keyVars, termVars
  <2> QED
    BY <2>2, <2>3, TermUntouched DEF TermInv, Linked, Up, Started
<1>5. CASE Killed
  BY <1>0, <1>5, KeyPlaces, DeathLinks DEF Killed
<1>6. CASE User
  <2>1. TermTyped' /\ UNCHANGED <<front, loop>>
    BY <1>6, TypingKeepsTypes DEF TermInv, User
  <2>2. UNCHANGED <<proc, probe>>
    BY <1>6 DEF User, keyVars, probeVars
  <2> QED
    BY <2>1, <2>2 DEF TermInv, Linked, Up, Started
<1>7. CASE Elsewhere
  <2>1. UNCHANGED <<flags, events, front, loop, probe>>
    BY <1>7 DEF Elsewhere, NetworkChanges, termVars, probeVars
  <2>2. proc'[ME] = proc[ME]
    <3>1. CASE \E p \in Others : KeyStep(p)
      BY <1>0, <3>1, KeyPlaces DEF Others
    <3>2. CASE UNCHANGED keyVars
      BY <3>2 DEF keyVars
    <3> QED
      BY <1>7, <3>1, <3>2 DEF Elsewhere, KeyStep
  <2> QED
    BY <2>1, <2>2, TermUntouched DEF TermInv, Linked, Up, Started
<1>8. CASE UNCHANGED vars
  <2>1. UNCHANGED <<flags, events, front, loop, proc, probe>>
    BY <1>8 DEF vars, keyVars, termVars, probeVars
  <2> QED
    BY <2>1, TermUntouched DEF TermInv, Linked, Up, Started
<1> QED
  BY <1>1, <1>2, <1>3, <1>4, <1>5, <1>6, <1>7, <1>8 DEF Next

(***************************************************************************)
(* Types of a program: HandleCommand runs exactly when the key is there,   *)
(* the terminal exactly while the program runs, and probes only then.      *)
(***************************************************************************)
THEOREM TypesAreCorrect == Spec => []TypeOK
<1> DEFINE I == KeyInv /\ ProbeInv /\ TermInv
<1>1. Init => I
  BY KeyStart, ProbeStart, TermStart DEF Init
<1>2. I /\ [Next]_vars => I'
  BY KeyInductive, ProbeInductive, TermInductive
<1>3. I => TypeOK
  <2> SUFFICES ASSUME KeyInv, ProbeInv, TermInv PROVE TypeOK
    OBVIOUS
  <2>1. /\ file \in Keys \cup {NOFILE, EMPTY}
        /\ \A p \in Procs :
             /\ proc[p].pc \in {"down", "stat", "create", "write", "read", "up"}
             /\ Up(p) => proc[p].key \in made
        /\ made \subseteq Keys
    BY DEF KeyInv, KeysTyped, KeysMade, KeyState, Up
  <2>2. Range(events) \subseteq Event
    BY DEF TermInv, TermTyped, Range
  <2>3. /\ front.pc \in {"off", "wait", "send", "drain"}
        /\ Range(events) \subseteq Lines[flags.kind] \cup {CTRL_C}
    BY <2>2 DEF TermInv, TermTyped, Event
  <2>4. \A g \in Probers :
          /\ probe[g].pc \in {"off", "test", "set", "ask", "draw"}
          /\ probe[g].pc # "off" => Up(ME)
    BY DEF ProbeInv, ProbeState, TermInv, Linked
  <2>5. (loop # "off") = Up(ME) /\ (front.pc # "off") = Started(ME)
    BY DEF TermInv, Linked, Up, Started
  <2> QED
    BY <2>1, <2>3, <2>4, <2>5 DEF TypeOK
<1> HIDE DEF I
<1> QED
  BY <1>1, <1>2, <1>3, PTL DEF Spec

-----------------------------------------------------------------------------
(***************************************************************************)
(* Whatever line a user types, the command that gets through has its       *)
(* arguments: for lines with any number of tokens that the tests of IsValid *)
(* let through.                                                            *)
(***************************************************************************)
LEMMA ValidArguments ==
  ASSUME NEW kind, NEW line, CommandValid(kind, line),
         NEW tokens, NEW n \in Nat, line.args \in [1..n -> tokens]
  PROVE  /\ line.word \in Handled(kind) \cup {"remove_peer"}
         /\ Takes(line.word) \subseteq DOMAIN line.args
         /\ \A r \in ReliesOn(line.word) : r[2] \in line.args[r[1]]
<1> DEFINE args == line.args
<1>1. Len(args) = n /\ DOMAIN args = 1..n
  OBVIOUS
<1>2. CASE kind = "node"
  <2>1. NodeCommandValid(line)
    BY <1>2 DEF CommandValid
  <2>2. CASE line.word \in {"start", "restart", "stop", "list_peer", "key", "network"}
    BY <1>2, <2>2 DEF Handled, NodeWords, Takes, ReliesOn
  <2>3. CASE line.word \in {"add_peer", "remove_peer", "introduce"} /\ Endpoint(args)
    BY <1>1, <1>2, <2>3 DEF Handled, NodeWords, Takes, ReliesOn, Endpoint, Passes
  <2>4. CASE line.word = "show" /\ Len(args) = 1 /\ Passes(args, 1, "int")
    BY <1>1, <1>2, <2>4 DEF Handled, NodeWords, Takes, ReliesOn, Passes
  <2> QED
    BY <2>1, <2>2, <2>3, <2>4 DEF NodeCommandValid
<1>3. CASE kind # "node"
  <2>1. WalletCommandValid(line)
    BY <1>3 DEF CommandValid
  <2>2. CASE line.word = "transfer" /\ Len(args) = 2 /\ Passes(args, 2, "positive")
    BY <1>1, <1>3, <2>2 DEF Handled, WalletWords, Takes, ReliesOn, Passes
  <2>3. CASE line.word \in {"my_pk", "get_balance", "show_alias"}
    BY <1>3, <2>3 DEF Handled, WalletWords, Takes, ReliesOn
  <2>4. CASE line.word = "connect" /\ Endpoint(args)
    BY <1>1, <1>3, <2>4 DEF Handled, WalletWords, Takes, ReliesOn, Endpoint, Passes
  <2>5. CASE line.word = "alias" /\ Len(args) = 2 /\ Passes(args, 1, "hex")
    BY <1>1, <1>3, <2>5 DEF Handled, WalletWords, Takes, ReliesOn, Passes
  <2> QED
    BY <2>1, <2>2, <2>3, <2>4, <2>5 DEF WalletCommandValid
<1> QED
  BY <1>2, <1>3

\* Every command line that IsValid of commands/ops.go or client_ops.go lets
\* through carries the arguments its handler indexes and converts without
\* looking: HandleCommand and the wallet's loop never read past the end.
THEOREM ArgumentsAreThere == Spec => []ArgumentsThere
<1>1. \A kind : ArgumentsSuffice(kind)
  <2> SUFFICES ASSUME NEW kind, NEW words, NEW tokens, NEW line \in Line(words, tokens),
                      CommandValid(kind, line)
               PROVE  /\ line.word \in Handled(kind) \cup {"remove_peer"}
                      /\ Takes(line.word) \subseteq DOMAIN line.args
                      /\ \A r \in ReliesOn(line.word) : r[2] \in line.args[r[1]]
    BY DEF ArgumentsSuffice
  <2>1. PICK n \in 0..3 : line.args \in [1..n -> tokens]
    BY DEF Line
  <2>2. n \in Nat
    OBVIOUS
  <2> QED
    BY <2>1, <2>2, ValidArguments, Zenon
<1>2. ArgumentsThere
  BY <1>1 DEF ArgumentsThere
<1> QED
  BY <1>2, PTL

-----------------------------------------------------------------------------
(***************************************************************************)
(* Lines.  Lemmas about picking elements of a sequence in order.           *)
(***************************************************************************)
LEMMA PicksNone ==
  ASSUME NEW t, NEW At
  PROVE  Picks(<<>>, t, At)
<1>1. DOMAIN <<>> = {}
  OBVIOUS
<1>2. PICK at : at = [i \in DOMAIN <<>> |-> i]
  OBVIOUS
<1>3. at \in [DOMAIN <<>> -> At]
  BY <1>1, <1>2
<1> QED
  BY <1>1, <1>3 DEF Picks

\* Of a sequence that is as it was there, the same is picked, from more places.
LEMMA PicksFromMore ==
  ASSUME NEW s, NEW t, NEW u, NEW At, NEW Bt, Picks(s, t, At),
         \A k \in At : k \in Bt /\ u[k] = t[k]
  PROVE  Picks(s, u, Bt)
<1>1. PICK at \in [DOMAIN s -> At] :
        /\ \A i \in DOMAIN s : s[i] = t[at[i]]
        /\ \A i, j \in DOMAIN s : i < j => at[i] < at[j]
  BY DEF Picks
<1>2. at \in [DOMAIN s -> Bt]
  BY <1>1
<1>3. \A i \in DOMAIN s : s[i] = u[at[i]]
  BY <1>1
<1> QED
  BY <1>1, <1>2, <1>3 DEF Picks

\* One more is picked, from a place above the others.
LEMMA PicksNext ==
  ASSUME NEW S, NEW s \in Seq(S), NEW x \in S, NEW t, NEW u, NEW At \in SUBSET Nat, NEW Bt,
         Picks(s, t, At), \A k \in At : k \in Bt /\ u[k] = t[k],
         NEW n \in Bt, n \in Nat, \A k \in At : k < n, u[n] = x
  PROVE  Picks(Append(s, x), u, Bt)
<1> DEFINE v == Append(s, x)
<1>1. PICK at \in [DOMAIN s -> At] :
        /\ \A i \in DOMAIN s : s[i] = t[at[i]]
        /\ \A i, j \in DOMAIN s : i < j => at[i] < at[j]
  BY DEF Picks
<1>2. /\ Len(s) \in Nat /\ DOMAIN s = 1..Len(s)
      /\ DOMAIN v = 1..(Len(s) + 1)
      /\ v[Len(s) + 1] = x
      /\ \A i \in 1..Len(s) : v[i] = s[i]
  OBVIOUS
<1> HIDE DEF v
<1> DEFINE bt == [i \in DOMAIN v |-> IF i = Len(s) + 1 THEN n ELSE at[i]]
<1>3. \A i \in DOMAIN v : i \in DOMAIN s \/ i = Len(s) + 1
  BY <1>2
<1>4. /\ bt[Len(s) + 1] = n
      /\ \A i \in DOMAIN s : i \in DOMAIN v /\ bt[i] = at[i] /\ at[i] \in At
  BY <1>1, <1>2
<1>5. bt \in [DOMAIN v -> Bt]
  BY <1>1, <1>2, <1>3
<1> HIDE DEF bt
<1>6. ASSUME NEW i \in DOMAIN v PROVE v[i] = u[bt[i]]
  <2>1. CASE i \in DOMAIN s
    <3>1. v[i] = s[i] /\ bt[i] = at[i] /\ at[i] \in At
      BY <1>2, <1>4, <2>1
    <3>2. s[i] = t[at[i]] /\ u[at[i]] = t[at[i]]
      BY <1>1, <2>1, <3>1
    <3> QED
      BY <3>1, <3>2
  <2>2. CASE i = Len(s) + 1
    BY <1>2, <1>4, <2>2
  <2> QED
    BY <1>3, <2>1, <2>2
<1>7. ASSUME NEW i \in DOMAIN v, NEW j \in DOMAIN v, i < j PROVE bt[i] < bt[j]
  <2>1. i \in DOMAIN s
    BY <1>2, <1>3, <1>7
  <2>2. CASE j \in DOMAIN s
    BY <1>1, <1>4, <1>7, <2>1, <2>2
  <2>3. CASE j = Len(s) + 1
    BY <1>4, <2>1, <2>3
  <2> QED
    BY <1>3, <2>2, <2>3
<1> QED
  BY <1>5, <1>6, <1>7 DEF Picks, v

(***************************************************************************)
(* What waits to be read: the last n of the lines typed, and perhaps       *)
(* Ctrl-C behind them.                                                     *)
(***************************************************************************)
Waiting(n) ==
  /\ n \in 0..Len(typed)
  /\ \A i \in 1..n : events[i] = typed[Len(typed) - n + i]
  /\ \/ Len(events) = n
     \/ Len(events) = n + 1 /\ events[n + 1] = CTRL_C /\ flags.gui

LinesTyped ==
  /\ typed \in Seq(Lines[flags.kind])
  /\ events \in Seq(Event)

LEMMA LinesAreNoKeys ==
  ASSUME flags.kind \in {"node", "wallet"}
  PROVE  CTRL_C \notin Lines[flags.kind]
BY TerminalAssumption DEF TerminalAssumption

HaveBeenRead(n) ==
  /\ n \in Nat
  /\ Len(typed) - n \in Nat
  /\ Consumed \in Seq(Lines[flags.kind])
  /\ Len(Consumed) = Len(typed) - n
  /\ DOMAIN Consumed = 1..(Len(typed) - n)
  /\ \A k \in 1..(Len(typed) - n) : Consumed[k] = typed[k]

LEMMA WaitingUnread ==
  ASSUME TermTyped, LinesTyped, NEW n, Waiting(n)
  PROVE  HaveBeenRead(n)
<1> DEFINE L == Lines[flags.kind]
<1>1. CTRL_C \notin L /\ typed \in Seq(L)
  BY LinesAreNoKeys DEF TermTyped, LinesTyped
<1>2. Len(events) \in Nat /\ DOMAIN events = 1..Len(events)
  BY DEF LinesTyped
<1> HIDE DEF L
<1>3. Len(typed) \in Nat /\ n \in Nat /\ n <= Len(typed)
  BY <1>1 DEF Waiting
<1>4. \A i \in 1..n : events[i] \in L
  <2> SUFFICES ASSUME NEW i \in 1..n PROVE events[i] \in L
    OBVIOUS
  <2>1. Len(typed) - n + i \in 1..Len(typed)
    BY <1>3
  <2> QED
    BY <1>1, <2>1 DEF Waiting
<1>5. {i \in DOMAIN events : events[i] # CTRL_C} = 1..n
  <2>1. ASSUME NEW i \in 1..n PROVE i \in DOMAIN events /\ events[i] # CTRL_C
    <3>1. n <= Len(events)
      BY <1>3 DEF Waiting
    <3> QED
      BY <1>1, <1>2, <1>3, <1>4, <3>1
  <2>2. ASSUME NEW i \in DOMAIN events, events[i] # CTRL_C PROVE i \in 1..n
    <3>1. i # n + 1 \/ Len(events) = n
      BY <2>2 DEF Waiting
    <3>2. Len(events) = n \/ Len(events) = n + 1
      BY DEF Waiting
    <3>3. PICK len \in Nat : len = Len(events) /\ i \in 1..len
      BY <1>2
    <3>4. (len = n) \/ (len = n + 1 /\ i # n + 1)
      BY <3>1, <3>2, <3>3
    <3>5. ASSUME len = n PROVE i \in 1..n
      BY <3>3, <3>5
    <3>6. ASSUME len = n + 1, i # n + 1 PROVE i \in 1..n
      BY <1>3, <3>3, <3>6
    <3> QED
      BY <3>4, <3>5, <3>6
  <2> QED
    BY <2>1, <2>2
<1>6. Cardinality(1..n) = n
  <2>1. PICK a \in Int : a = 1
    OBVIOUS
  <2>2. Cardinality(a..n) = IF a > n THEN 0 ELSE n - a + 1
    BY <1>3, FS_Interval
  <2> QED
    BY <1>3, <2>1, <2>2
<1>7. Unread = n
  BY <1>5, <1>6 DEF Unread
<1>8. PICK m \in Nat : m = Len(typed) - n
  BY <1>3
<1>9. Consumed = SubSeq(typed, 1, m) /\ m <= Len(typed)
  BY <1>3, <1>7, <1>8 DEF Consumed
<1>10. /\ SubSeq(typed, 1, m) \in Seq(L)
       /\ Len(SubSeq(typed, 1, m)) = m
       /\ \A k \in 1..m : SubSeq(typed, 1, m)[k] = typed[k]
  BY <1>1, <1>9
<1>11. DOMAIN Consumed = 1..m
  BY <1>9, <1>10
<1> QED
  BY <1>3, <1>8, <1>9, <1>10, <1>11 DEF L, HaveBeenRead

LEMMA WaitingUnreadNext ==
  ASSUME NEW n
  PROVE  (TermTyped /\ LinesTyped /\ Waiting(n))' => HaveBeenRead(n)'
<1>1. TermTyped /\ LinesTyped /\ Waiting(n) => HaveBeenRead(n)
  BY WaitingUnread
<1> QED
  BY <1>1, PTL

\* What the steps of a program do to its terminal.
LEMMA TerminalSteps ==
  ASSUME TermInv, KeyInv, [Next]_vars
  PROVE  \/ Edit \/ Layout \/ ParseCommand
         \/ LoopTakes
         \/ \E line \in Lines[flags.kind] : UserTypes(line)
         \/ UserQuits
         \/ TermReset
         \/ ListenOnInput /\ front.pc = "off"
         \/ UNCHANGED <<flags, typed, events, front, echo, shown, taken>>
<1>0. ME \in Procs
  BY ProcessAssumption DEF ProcessAssumption
<1>1. CASE Main
  <2>1. Launch(ME) => proc[ME].pc = "down"
    BY <1>0, KeyPlaces
  <2>2. Launch(ME) => front.pc = "off"
    BY <2>1 DEF TermInv, Linked, Started
  <2> QED
    BY <1>1, <2>2 DEF Main, LoopStarts, Dies, termVars
<1>2. CASE Input
  BY <1>2 DEF Input, Dies
<1>3. CASE HandleCommand
  BY <1>3 DEF HandleCommand, LoopReturns
<1>4. CASE Probing
  BY <1>4 DEF Probing, termVars
<1>5. CASE Killed
  BY <1>5 DEF Killed, Dies
<1>6. CASE User
  BY <1>6 DEF User
<1>7. CASE Elsewhere
  BY <1>7 DEF Elsewhere, termVars
<1>8. CASE UNCHANGED vars
  BY <1>8 DEF vars, termVars
<1> QED
  BY <1>1, <1>2, <1>3, <1>4, <1>5, <1>6, <1>7, <1>8 DEF Next

\* Typing leaves what was read alone.
LEMMA TypingWaits ==
  ASSUME TermTyped, LinesTyped, NEW n, Waiting(n),
         (\E line \in Lines[flags.kind] : UserTypes(line)) \/ UserQuits
  PROVE  /\ LinesTyped' /\ UNCHANGED flags
         /\ \E m : /\ Waiting(m)'
                   /\ Len(typed') - m = Len(typed) - n
                   /\ \A k \in 1..(Len(typed) - n) : typed'[k] = typed[k]
<1> DEFINE L == Lines[flags.kind]
<1>1. UNCHANGED <<flags, L, Event>>
  BY DEF UserTypes, UserQuits, Event
<1>2. /\ typed \in Seq(L) /\ events \in Seq(Event)
      /\ n \in 0..Len(typed)
      /\ L \subseteq Event /\ CTRL_C \in Event
  BY DEF LinesTyped, Waiting, Event
<1>3. Len(events) # n => Contains(events, CTRL_C)
  BY <1>2 DEF Waiting, Contains
<1>4. CASE \E line \in L : UserTypes(line)
  <2>1. PICK line \in L : UserTypes(line)
    BY <1>4
  <2>2. typed' = Append(typed, line) /\ events' = Append(events, line) /\ Len(events) = n
    BY <1>3, <2>1 DEF UserTypes
  <2>3. typed' \in Seq(L) /\ events' \in Seq(Event)
    BY <1>2, <2>1, <2>2
  <2>4. /\ Len(typed') = Len(typed) + 1 /\ Len(events') = n + 1
        /\ \A k \in 1..Len(typed) : typed'[k] = typed[k]
        /\ \A k \in 1..n : events'[k] = events[k]
        /\ typed'[Len(typed) + 1] = line /\ events'[n + 1] = line
    BY <1>2, <2>1, <2>2
  <2>5. ASSUME NEW i \in 1..(n + 1) PROVE events'[i] = typed'[Len(typed') - (n + 1) + i]
    <3>1. Len(typed') - (n + 1) + i = Len(typed) - n + i
      BY <1>2, <2>4
    <3>2. CASE i = n + 1
      <4>1. Len(typed) - n + i = Len(typed) + 1
        BY <1>2, <3>2
      <4> QED
        BY <2>4, <3>1, <3>2, <4>1
    <3>3. CASE i \in 1..n
      <4>1. events[i] = typed[Len(typed) - n + i]
        BY <3>3 DEF Waiting
      <4>2. Len(typed) - n + i \in 1..Len(typed)
        BY <1>2, <3>3
      <4> QED
        BY <2>4, <3>1, <3>3, <4>1, <4>2
    <3> QED
      BY <1>2, <3>2, <3>3
  <2>6. Waiting(n + 1)'
    BY <1>2, <2>4, <2>5 DEF Waiting
  <2>7. /\ Len(typed') - (n + 1) = Len(typed) - n
        /\ \A k \in 1..(Len(typed) - n) : typed'[k] = typed[k]
    BY <1>2, <2>4
  <2> QED
    BY <1>1, <2>3, <2>6, <2>7 DEF LinesTyped
<1>5. CASE UserQuits
  <2>1. /\ typed' = typed /\ events' = Append(events, CTRL_C) /\ Len(events) = n /\ flags'.gui
    BY <1>3, <1>5 DEF UserQuits
  <2>2. /\ Len(events') = n + 1 /\ events' \in Seq(Event)
        /\ \A k \in 1..n : events'[k] = events[k]
        /\ events'[n + 1] = CTRL_C
    BY <1>2, <2>1
  <2>3. Waiting(n)'
    BY <1>2, <2>1, <2>2 DEF Waiting
  <2> QED
    BY <1>1, <1>2, <2>1, <2>2, <2>3 DEF LinesTyped
<1> QED
  BY <1>4, <1>5

\* m lines are read.
LEMMA ReadingWaits ==
  ASSUME TermTyped, LinesTyped, NEW n, Waiting(n), NEW m \in 1..n,
         UNCHANGED <<flags, typed>>, events' \in Seq(Event), Len(events') = Len(events) - m,
         \A i \in 1..(Len(events) - m) : events'[i] = events[m + i]
  PROVE  /\ LinesTyped'
         /\ Waiting(n - m)'
         /\ Len(typed') - (n - m) = Len(typed) - n + m
         /\ typed[Len(typed) - n + 1] = events[1]
         /\ typed[Len(typed) - n + 1] \in Lines[flags.kind]
<1> DEFINE L == Lines[flags.kind]
<1>1. UNCHANGED <<L, Event>>
  BY DEF Event
<1>2. typed \in Seq(L) /\ Len(events) \in Nat /\ Len(typed) \in Nat /\ n \in 0..Len(typed)
  BY DEF LinesTyped, Waiting
<1> HIDE DEF L
<1>3. \A i \in 1..(n - m) : events'[i] = typed'[Len(typed') - (n - m) + i]
  <2> SUFFICES ASSUME NEW i \in 1..(n - m) PROVE events'[i] = typed[Len(typed) - (n - m) + i]
    OBVIOUS
  <2>1. m + i \in 1..n /\ i \in 1..(Len(events) - m)
    BY <1>2 DEF Waiting
  <2>2. Len(typed) - n + (m + i) = Len(typed) - (n - m) + i
    BY <1>2
  <2> QED
    BY <2>1, <2>2 DEF Waiting
<1>4. \/ Len(events') = n - m
      \/ Len(events') = (n - m) + 1 /\ events'[(n - m) + 1] = CTRL_C /\ flags'.gui
  <2>1. CASE Len(events) = n
    BY <2>1
  <2>2. CASE Len(events) = n + 1 /\ events[n + 1] = CTRL_C /\ flags.gui
    <3>1. (n - m) + 1 \in 1..(Len(events) - m) /\ m + ((n - m) + 1) = n + 1
      BY <1>2, <2>2
    <3> QED
      BY <1>2, <2>2, <3>1
  <2> QED
    BY <2>1, <2>2 DEF Waiting
<1>5. Waiting(n - m)'
  BY <1>2, <1>3, <1>4 DEF Waiting
<1>6. 1 \in 1..n /\ Len(typed) - n + 1 \in 1..Len(typed)
  BY <1>2
<1>7. typed[Len(typed) - n + 1] = events[1] /\ typed[Len(typed) - n + 1] \in L
  BY <1>2, <1>6 DEF Waiting
<1>8. LinesTyped'
  BY <1>1 DEF LinesTyped, L
<1> QED
  BY <1>2, <1>5, <1>7, <1>8 DEF L

\* Places of valid lines stay such.
LEMMA ValidStay ==
  ASSUME TermTyped, LinesTyped, NEW n, Waiting(n),
         TermTyped', LinesTyped', NEW m, Waiting(m)', UNCHANGED flags,
         NEW c, c = Len(typed) - n, NEW d, d = Len(typed') - m, c <= d,
         \A k \in 1..c : typed'[k] = typed[k]
  PROVE  /\ c \in Nat /\ d \in Nat
         /\ DOMAIN Consumed = 1..c /\ DOMAIN Consumed' = 1..d
         /\ \A k \in 1..c : Consumed'[k] = Consumed[k]
         /\ \A k \in 1..d : Consumed'[k] = typed'[k]
         /\ ValidAt \subseteq 1..c
         /\ \A k \in ValidAt : k \in ValidAt' /\ Consumed'[k] = Consumed[k]
         /\ \A k \in ValidAt' : k \in ValidAt \/ k > c
         /\ \A k \in 1..d : k \in ValidAt' <=> Valid(typed'[k])
<1>1. /\ c \in Nat /\ DOMAIN Consumed = 1..c
      /\ \A k \in 1..c : Consumed[k] = typed[k]
  BY WaitingUnread DEF HaveBeenRead
<1>2. /\ d \in Nat /\ DOMAIN Consumed' = 1..d
      /\ \A k \in 1..d : Consumed'[k] = typed'[k]
  <2>1. /\ Len(typed') - m \in Nat
        /\ DOMAIN Consumed' = 1..(Len(typed') - m)
        /\ \A k \in 1..(Len(typed') - m) : Consumed'[k] = typed'[k]
    <3>1. HaveBeenRead(m)'
      BY WaitingUnreadNext
    <3> QED
      BY <3>1 DEF HaveBeenRead
  <2> QED
    BY <2>1
<1>3. \A k \in 1..c : k \in 1..d /\ Consumed'[k] = Consumed[k]
  BY <1>1, <1>2
<1>4. \A l : Valid(l)' <=> Valid(l)
  BY DEF Valid
<1>5. ValidAt = {k \in 1..c : Valid(Consumed[k])}
  BY <1>1 DEF ValidAt
<1>6. \A k : k \in ValidAt' <=> k \in 1..d /\ Valid(Consumed'[k])
  BY <1>2, <1>4 DEF ValidAt
<1> QED
  BY <1>1, <1>2, <1>3, <1>5, <1>6

(***************************************************************************)
(* Commands.                                                               *)
(***************************************************************************)
Words == Event \cup {NoLine}

OrderInv ==
  /\ LinesTyped
  /\ \E n : Waiting(n)
  /\ taken \in Seq(Words)
  /\ CommandsInOrder

\* What is passed on without a line in front of the channel, and with one.
LEMMA PassedMeans ==
  ASSUME taken \in Seq(Words), front.line \in Words
  PROVE  /\ Passed \in Seq(Words)
         /\ front.pc # "send" => Passed = taken
         /\ front.pc = "send" => Passed = Append(taken, front.line)
<1>1. CASE front.pc = "send"
  <2>1. Passed = taken \o <<front.line>>
    BY <1>1 DEF Passed
  <2> QED
    BY <1>1, <2>1
<1>2. CASE front.pc # "send"
  <2>1. Passed = taken \o <<>>
    BY <1>2 DEF Passed
  <2> QED
    BY <1>2, <2>1
<1> QED
  BY <1>1, <1>2

\* Nothing is read, and nothing new passed on.
LEMMA OrderKept ==
  ASSUME TermTyped, LinesTyped, NEW n, Waiting(n), CommandsInOrder,
         TermTyped', LinesTyped', NEW m, Waiting(m)', UNCHANGED flags,
         Len(typed') - m = Len(typed) - n,
         \A k \in 1..(Len(typed) - n) : typed'[k] = typed[k],
         Passed' = Passed
  PROVE  CommandsInOrder'
<1>1. PICK c : c = Len(typed) - n
  OBVIOUS
<1>2. PICK d : d = Len(typed') - m
  OBVIOUS
<1>3. c \in Nat /\ c = d
  BY <1>1, <1>2, WaitingUnread DEF HaveBeenRead
<1>4. c <= d /\ \A k \in 1..c : typed'[k] = typed[k]
  BY <1>1, <1>2, <1>3
<1>5. /\ ValidAt \subseteq 1..c
      /\ \A k \in ValidAt : k \in ValidAt' /\ Consumed'[k] = Consumed[k]
      /\ \A k \in ValidAt' : k \in ValidAt \/ k > c
      /\ DOMAIN Consumed' = 1..d
  BY <1>1, <1>2, <1>4, ValidStay
<1>6. ValidAt' = ValidAt
  BY <1>3, <1>5 DEF ValidAt
<1>7. PICK u : u = Consumed'
  OBVIOUS
<1>8. Picks(Passed, u, ValidAt)
  <2>1. Picks(Passed, Consumed, ValidAt)
    BY DEF CommandsInOrder
  <2>2. \A k \in ValidAt : k \in ValidAt /\ u[k] = Consumed[k]
    BY <1>5, <1>7
  <2> QED
    BY <2>1, <2>2, PicksFromMore
<1> QED
  BY <1>6, <1>7, <1>8 DEF CommandsInOrder

\* m lines are read, the first of them is passed on if it is valid; others are
\* only read along in the wallet's plain terminal.
LEMMA OrderRead ==
  ASSUME TermTyped, LinesTyped, NEW n, Waiting(n), CommandsInOrder, taken \in Seq(Words),
         NEW m \in 1..n, UNCHANGED <<flags, typed, taken>>, TermTyped',
         events' \in Seq(Event), Len(events') = Len(events) - m,
         \A i \in 1..(Len(events) - m) : events'[i] = events[m + i],
         front.pc # "send",
         Valid(events[1]) => front'.pc = "send" /\ front'.line = events[1],
         ~Valid(events[1]) => front'.pc # "send",
         flags.gui \/ flags.kind = "node" => m = 1
  PROVE  LinesTyped' /\ Waiting(n - m)' /\ CommandsInOrder'
<1>1. /\ LinesTyped' /\ Waiting(n - m)'
      /\ Len(typed') - (n - m) = Len(typed) - n + m
      /\ typed[Len(typed) - n + 1] = events[1]
  BY ReadingWaits
<1>2. PICK c : c = Len(typed) - n
  OBVIOUS
<1>3. PICK d : d = Len(typed') - (n - m)
  OBVIOUS
<1>4. c \in Nat /\ n \in Nat /\ m \in Nat /\ m >= 1 /\ d = c + m
  BY <1>1, <1>2, <1>3, WaitingUnread DEF HaveBeenRead
<1>5. c <= d /\ \A k \in 1..c : typed'[k] = typed[k]
  BY <1>4
<1>6. /\ ValidAt \subseteq 1..c
      /\ \A k \in ValidAt : k \in ValidAt' /\ Consumed'[k] = Consumed[k]
      /\ \A k \in ValidAt' : k \in ValidAt \/ k > c
      /\ \A k \in 1..d : Consumed'[k] = typed'[k]
      /\ \A k \in 1..d : k \in ValidAt' <=> Valid(typed'[k])
      /\ DOMAIN Consumed' = 1..d
  <2>1. PICK e : e = n - m
    OBVIOUS
  <2>2. Waiting(e)' /\ d = Len(typed') - e
    BY <1>1, <1>3, <2>1
  <2> QED
    BY <1>1, <1>2, <1>5, <2>2, ValidStay
<1>7. /\ c + 1 \in 1..d /\ c + 1 \notin ValidAt
      /\ Consumed'[c + 1] = events[1]
      /\ c + 1 \in ValidAt' <=> Valid(events[1])
  <2>1. c + 1 \in 1..d /\ c + 1 \notin 1..c
    BY <1>4
  <2>2. typed'[c + 1] = events[1]
    BY <1>1, <1>2
  <2> QED
    BY <1>6, <2>1, <2>2
<1>8. /\ Passed = taken /\ Passed \in Seq(Words)
      /\ events[1] \in Words
  <2>1. front.line \in Words
    BY FrontFields DEF Words
  <2>2. events[1] \in Event
    BY <1>4 DEF LinesTyped, Waiting
  <2> QED
    BY <2>1, <2>2, PassedMeans DEF Words
<1>9. Valid(events[1]) => Passed' = Append(Passed, events[1])
  <2>1. front'.pc = "send" /\ front'.line = events[1] => Passed' = taken' \o <<events[1]>>
    BY DEF Passed
  <2>2. taken' = Passed
    BY <1>8
  <2> QED
    BY <1>8, <2>1, <2>2
<1>10. ~Valid(events[1]) => Passed' = Passed
  <2>1. front'.pc # "send" => Passed' = taken' \o <<>>
    BY DEF Passed
  <2> QED
    BY <1>8, <2>1
<1>11. /\ Picks(Passed, Consumed, ValidAt)
       /\ flags.gui \/ flags.kind = "node" => Len(Passed) = Cardinality(ValidAt)
  BY DEF CommandsInOrder
<1>12. PICK u : u = Consumed'
  OBVIOUS
<1>13. PICK Bt : Bt = ValidAt'
  OBVIOUS
<1>14. Picks(Passed', u, Bt)
  <2>1. \A k \in ValidAt : k \in Bt /\ u[k] = Consumed[k]
    BY <1>6, <1>12, <1>13
  <2>2. CASE Valid(events[1])
    <3>1. c + 1 \in Bt /\ c + 1 \in Nat /\ u[c + 1] = events[1]
      BY <1>4, <1>7, <1>12, <1>13, <2>2
    <3>2. ValidAt \in SUBSET Nat /\ \A k \in ValidAt : k < c + 1
      BY <1>4, <1>6
    <3>3. Picks(Append(Passed, events[1]), u, Bt)
      BY <1>8, <1>11, <2>1, <3>1, <3>2, PicksNext
    <3> QED
      BY <1>9, <2>2, <3>3
  <2>3. CASE ~Valid(events[1])
    <3>1. Picks(Passed, u, Bt)
      BY <1>11, <2>1, PicksFromMore
    <3> QED
      BY <1>10, <2>3, <3>1
  <2> QED
    BY <2>2, <2>3
<1>15. ASSUME flags.gui \/ flags.kind = "node" PROVE Len(Passed') = Cardinality(Bt)
  <2>1. d = c + 1 /\ Len(Passed) = Cardinality(ValidAt)
    BY <1>4, <1>11, <1>15
  <2>2. Bt \subseteq 1..d
    BY <1>6, <1>13 DEF ValidAt
  <2>5. \A k \in Bt : k \in ValidAt \/ k = c + 1
    <3>1. \A k \in 1..d : k > c => k = c + 1
      BY <1>4, <2>1
    <3>2. \A k \in Bt : k \in ValidAt \/ k > c
      BY <1>6, <1>13
    <3> QED
      BY <2>2, <3>1, <3>2
  <2>3. CASE Valid(events[1])
    <3>1. Bt = ValidAt \cup {c + 1}
      <4>1. \A k \in Bt : k \in ValidAt \/ k = c + 1
        BY <2>5
      <4>2. c + 1 \in Bt /\ ValidAt \subseteq Bt
        BY <1>6, <1>7, <1>13, <2>3
      <4> QED
        BY <4>1, <4>2
    <3>2. IsFiniteSet(ValidAt)
      <4>1. PICK a \in Int : a = 1
        OBVIOUS
      <4>2. IsFiniteSet(a..c)
        BY <1>4, FS_Interval
      <4> QED
        BY <1>6, <4>1, <4>2, FS_Subset
    <3>3. Cardinality(Bt) = Cardinality(ValidAt) + 1
      BY <1>7, <3>1, <3>2, FS_AddElement
    <3> QED
      BY <1>8, <1>9, <2>1, <2>3, <3>3
  <2>4. CASE ~Valid(events[1])
    <3>1. Bt = ValidAt
      <4>1. \A k \in Bt : k \in ValidAt
        BY <1>7, <1>13, <2>4, <2>5
      <4>2. ValidAt \subseteq Bt
        BY <1>6, <1>13
      <4> QED
        BY <4>1, <4>2
    <3> QED
      BY <1>10, <2>1, <2>4, <3>1
  <2> QED
    BY <2>3, <2>4
<1> QED
  BY <1>1, <1>12, <1>13, <1>14, <1>15 DEF CommandsInOrder

\* A terminal that has just been made.
Fresh == typed = <<>> /\ events = <<>> /\ taken = <<>> /\ front.pc = "off"

NothingRead == Consumed = <<>>

LEMMA FreshTerminal ==
  ASSUME TermTyped, Fresh
  PROVE  OrderInv /\ NothingRead
<1> USE DEF Fresh
<1>1. LinesTyped /\ taken \in Seq(Words)
  BY DEF LinesTyped
<1>2. Waiting(0)
  BY DEF Waiting
<1>3. Consumed \in Seq(Lines[flags.kind]) /\ Len(Consumed) = 0
  <2>1. Len(typed) - 0 = 0
    OBVIOUS
  <2> QED
    BY <1>1, <1>2, <2>1, WaitingUnread DEF HaveBeenRead
<1>4. Consumed = <<>> /\ DOMAIN Consumed = {}
  BY <1>3
<1>5. ValidAt = {} /\ Passed = <<>>
  BY <1>4 DEF ValidAt, Passed
<1>6. CommandsInOrder
  BY <1>4, <1>5, PicksNone, FS_EmptySet DEF CommandsInOrder
<1> QED
  BY <1>1, <1>2, <1>4, <1>6 DEF OrderInv, NothingRead

LEMMA FreshTerminalNext == (TermTyped /\ Fresh)' => OrderInv' /\ NothingRead'
<1>1. TermTyped /\ Fresh => OrderInv /\ NothingRead
  BY FreshTerminal
<1> QED
  BY <1>1, PTL

LEMMA OrderStart == Init => OrderInv
<1> SUFFICES ASSUME Init PROVE OrderInv
  OBVIOUS
<1>1. TermTyped
  BY TermStart DEF TermInv
<1> QED
  BY <1>1, FreshTerminal DEF Init, TermInit, Fresh

LEMMA OrderStep ==
  ASSUME TermInv, KeyInv, TermInv', OrderInv, [Next]_vars
  PROVE  OrderInv'
<1>0. TermTyped /\ TermTyped'
  BY DEF TermInv
<1>1. PICK n : Waiting(n)
  BY DEF OrderInv
<1>2. /\ LinesTyped /\ taken \in Seq(Words) /\ CommandsInOrder
      /\ front.line \in Words
      /\ n \in Nat
  BY <1>0, <1>1, FrontFields, WaitingUnread DEF OrderInv, Words, HaveBeenRead
<1>3. UNCHANGED flags => UNCHANGED <<Words, Event>>
  BY DEF Words, Event
\* Steps that read nothing and pass nothing on.
<1>4. ASSUME UNCHANGED <<flags, typed, events, taken>>,
             front'.pc = "send" <=> front.pc = "send",
             front.pc = "send" => front'.line = front.line
      PROVE  OrderInv'
  <2>1. Passed' = Passed
    BY <1>4 DEF Passed
  <2>2. LinesTyped' /\ Waiting(n)' /\ taken' \in Seq(Words)'
    BY <1>1, <1>2, <1>3, <1>4 DEF LinesTyped, Waiting
  <2>3. CommandsInOrder'
    BY <1>0, <1>1, <1>2, <1>4, <2>1, <2>2, OrderKept
  <2> QED
    BY <2>2, <2>3 DEF OrderInv
<1>5. CASE Edit
  <2>1. /\ flags.gui /\ front.pc # "send"
        /\ events # <<>> /\ Head(events) # CTRL_C /\ events' = Tail(events)
        /\ front' = IF Valid(Head(events)) THEN [pc |-> "send", line |-> Head(events)]
                    ELSE [front EXCEPT !.pc = "drain"]
        /\ UNCHANGED <<flags, typed, taken>>
    BY <1>5 DEF Edit
  <2>2. /\ Head(events) = events[1] /\ events' \in Seq(Event)
        /\ Len(events) \in Nat /\ Len(events) > 0
        /\ Len(events') = Len(events) - 1
        /\ \A i \in 1..(Len(events) - 1) : events'[i] = events[1 + i]
    BY <1>2, <2>1 DEF LinesTyped
  <2>3. n >= 1
    <3>1. events[1] # CTRL_C
      BY <2>1, <2>2
    <3>2. Len(events) = n \/ (Len(events) = n + 1 /\ events[n + 1] = CTRL_C)
      BY <1>1 DEF Waiting
    <3>3. n # 0
      BY <2>2, <3>1, <3>2
    <3> QED
      BY <1>2, <3>3
  <2>4. 1 \in 1..n
    BY <1>2, <2>3
  <2>5. /\ Valid(events[1]) => front'.pc = "send" /\ front'.line = events[1]
        /\ ~Valid(events[1]) => front'.pc # "send"
    BY <1>0, <2>1, <2>2, FrontFields
  <2>6. LinesTyped' /\ Waiting(n - 1)' /\ CommandsInOrder'
    <3>1. PICK m \in 1..n : m = 1
      BY <2>4
    <3>2. /\ Len(events') = Len(events) - m
          /\ \A i \in 1..(Len(events) - m) : events'[i] = events[m + i]
      BY <2>2, <3>1
    <3>3. LinesTyped' /\ Waiting(n - m)' /\ CommandsInOrder'
      BY <1>0, <1>1, <1>2, <2>1, <2>2, <2>5, <3>1, <3>2, OrderRead
    <3> QED
      BY <3>1, <3>3
  <2> QED
    BY <1>2, <1>3, <2>1, <2>6 DEF OrderInv
<1>6. CASE ParseCommand
  <2>1. /\ ~flags.gui /\ front.pc = "wait" /\ events # <<>>
        /\ ParseCommandReading(IF flags.kind = "wallet" THEN ReadAhead ELSE {1})
        /\ UNCHANGED <<flags, typed, taken>>
    BY <1>6 DEF ParseCommand
  <2>2. Len(events) = n /\ n >= 1 /\ Head(events) = events[1]
    BY <1>1, <1>2, <2>1 DEF Waiting, LinesTyped
  <2>3. PICK m \in 1..n :
          /\ events' = SubSeq(events, m + 1, Len(events))
          /\ front' = IF Valid(Head(events)) THEN [pc |-> "send", line |-> Head(events)] ELSE front
          /\ flags.kind = "node" => m = 1
    BY <1>2, <2>1, <2>2 DEF ParseCommandReading, ReadAhead
  <2>4. /\ events' \in Seq(Event)
        /\ Len(events') = Len(events) - m
        /\ \A i \in 1..(Len(events) - m) : events'[i] = events[m + i]
    <3>1. events \in Seq(Event) /\ m \in Nat /\ m <= Len(events) /\ m >= 1
      BY <1>2, <2>2 DEF LinesTyped
    <3> QED
      BY <2>3, <3>1
  <2>5. /\ Valid(events[1]) => front'.pc = "send" /\ front'.line = events[1]
        /\ ~Valid(events[1]) => front'.pc # "send"
    BY <2>1, <2>2, <2>3
  <2>6. LinesTyped' /\ Waiting(n - m)' /\ CommandsInOrder'
    BY <1>0, <1>1, <1>2, <2>1, <2>3, <2>4, <2>5, OrderRead
  <2> QED
    BY <1>2, <1>3, <2>1, <2>6 DEF OrderInv
<1>7. CASE LoopTakes
  <2>1. /\ front.pc = "send" /\ front'.pc # "send"
        /\ taken' = Append(taken, front.line)
        /\ UNCHANGED <<flags, typed, events>>
    BY <1>7 DEF LoopTakes
  <2>2. taken' \in Seq(Words) /\ Passed = taken'
    BY <1>2, <2>1, PassedMeans
  <2>3. Passed' = Passed
    BY <2>1, <2>2 DEF Passed
  <2>4. LinesTyped' /\ Waiting(n)'
    BY <1>1, <1>2, <1>3, <2>1 DEF LinesTyped, Waiting
  <2>5. CommandsInOrder'
    BY <1>0, <1>1, <1>2, <2>1, <2>3, <2>4, OrderKept
  <2> QED
    BY <1>3, <2>1, <2>2, <2>4, <2>5 DEF OrderInv
<1>8. CASE (\E line \in Lines[flags.kind] : UserTypes(line)) \/ UserQuits
  <2>1. /\ LinesTyped' /\ UNCHANGED flags
        /\ \E m : /\ Waiting(m)'
                  /\ Len(typed') - m = Len(typed) - n
                  /\ \A k \in 1..(Len(typed) - n) : typed'[k] = typed[k]
    BY <1>0, <1>1, <1>2, <1>8, TypingWaits
  <2>2. PICK m : /\ Waiting(m)'
                 /\ Len(typed') - m = Len(typed) - n
                 /\ \A k \in 1..(Len(typed) - n) : typed'[k] = typed[k]
    BY <2>1
  <2>3. UNCHANGED <<taken, Passed>>
    BY <1>8 DEF UserTypes, UserQuits, Passed
  <2>4. CommandsInOrder'
    BY <1>0, <1>1, <1>2, <2>1, <2>2, <2>3, OrderKept
  <2> QED
    BY <1>2, <1>3, <2>1, <2>2, <2>3, <2>4 DEF OrderInv
<1>9. CASE TermReset
  <2>1. Fresh'
    BY <1>9 DEF TermReset, Fresh
  <2> QED
    BY <1>0, <2>1, FreshTerminalNext
<1>10. CASE ListenOnInput /\ front.pc = "off"
  <2>1. /\ UNCHANGED <<flags, typed, events, taken>>
        /\ front.pc # "send" /\ front'.pc # "send"
    BY <1>0, <1>10, FrontFields DEF ListenOnInput
  <2> QED
    BY <1>4, <2>1
<1>11. CASE Layout
  <2>1. /\ UNCHANGED <<flags, typed, events, taken>>
        /\ front.pc # "send" /\ front'.pc # "send"
    BY <1>0, <1>11, FrontFields DEF Layout
  <2> QED
    BY <1>4, <2>1
<1>12. CASE UNCHANGED <<flags, typed, events, front, echo, shown, taken>>
  BY <1>4, <1>12
<1> QED
  BY <1>5, <1>6, <1>7, <1>8, <1>9, <1>10, <1>11, <1>12, TerminalSteps

(***************************************************************************)
(* HandleCommand gets the valid lines, each once and in the order typed,   *)
(* whatever was typed while another command ran, or pasted, or typed       *)
(* before the key was read: all of them from the GUI and from the node's   *)
(* ParseCommand.  For any number of lines.                                 *)
(***************************************************************************)
THEOREM CommandsStayInOrder == Spec => []CommandsInOrder
<1> DEFINE I == KeyInv /\ ProbeInv /\ TermInv /\ OrderInv
<1>1. Init => I
  BY KeyStart, ProbeStart, TermStart, OrderStart DEF Init
<1>2. I /\ [Next]_vars => I'
  BY KeyInductive, ProbeInductive, TermInductive, OrderStep
<1>3. I => CommandsInOrder
  BY DEF OrderInv
<1> HIDE DEF I
<1> QED
  BY <1>1, <1>2, <1>3, PTL DEF Spec

-----------------------------------------------------------------------------
(***************************************************************************)
(* The view of past commands.  A line that is ready is the last one read,  *)
(* and the ones shown come before it.                                      *)
(***************************************************************************)
EchoTyped ==
  /\ shown \in Seq(Words)
  /\ echo \in [line : Words, ready : BOOLEAN]

EchoReady ==
  echo.ready => /\ Consumed # <<>> /\ echo.line = Last(Consumed)
                /\ Picks(shown, Consumed, 1..(Len(Consumed) - 1))

EchoShown ==
  ~echo.ready => /\ Picks(shown, Consumed, DOMAIN Consumed)
                 /\ Consumed # <<>> => shown # <<>> /\ Last(shown) = Last(Consumed)

EchoInv ==
  /\ EchoTyped
  /\ flags.gui => /\ front.pc \in {"off", "wait"} => ~echo.ready
                  /\ EchoReady
                  /\ EchoShown

LEMMA SameList ==
  ASSUME NEW S, NEW s \in Seq(S), NEW t \in Seq(S), Len(s) = Len(t),
         \A k \in 1..Len(s) : s[k] = t[k]
  PROVE  s = t
OBVIOUS

\* What is read stays read.
LEMMA TypingConsumes ==
  ASSUME TermTyped, LinesTyped, NEW n, Waiting(n),
         (\E line \in Lines[flags.kind] : UserTypes(line)) \/ UserQuits
  PROVE  Consumed' = Consumed
<1>1. /\ LinesTyped' /\ UNCHANGED flags
      /\ \E m : /\ Waiting(m)'
                /\ Len(typed') - m = Len(typed) - n
                /\ \A k \in 1..(Len(typed) - n) : typed'[k] = typed[k]
  BY TypingWaits
<1>2. PICK m : /\ Waiting(m)'
               /\ Len(typed') - m = Len(typed) - n
               /\ \A k \in 1..(Len(typed) - n) : typed'[k] = typed[k]
  BY <1>1
<1>3. PICK c : c = Len(typed) - n
  OBVIOUS
<1>4. PICK L : L = Lines[flags.kind]
  OBVIOUS
<1>5. /\ Consumed \in Seq(L) /\ Len(Consumed) = c
      /\ \A k \in 1..c : Consumed[k] = typed[k]
  BY <1>3, <1>4, WaitingUnread DEF HaveBeenRead
<1>6. TermTyped'
  BY TypingKeepsTypes
<1>7. /\ Consumed' \in Seq(L) /\ Len(Consumed') = c
      /\ \A k \in 1..c : Consumed'[k] = typed'[k]
  <2>1. /\ Consumed' \in Seq(Lines[flags.kind]')
        /\ Len(Consumed') = Len(typed') - m
        /\ \A k \in 1..(Len(typed') - m) : Consumed'[k] = typed'[k]
    <3>1. HaveBeenRead(m)'
      BY <1>1, <1>2, <1>6, WaitingUnreadNext
    <3> QED
      BY <3>1 DEF HaveBeenRead
  <2> QED
    BY <1>1, <1>2, <1>3, <1>4, <2>1
<1>8. PICK s : s = Consumed
  OBVIOUS
<1>9. PICK t : t = Consumed'
  OBVIOUS
<1>10. \A k \in 1..c : t[k] = s[k]
  BY <1>2, <1>3, <1>5, <1>7, <1>8, <1>9
<1>11. s \in Seq(L) /\ t \in Seq(L) /\ Len(s) = c /\ Len(t) = c
  BY <1>5, <1>7, <1>8, <1>9
<1>12. s = t
  BY <1>10, <1>11, SameList
<1> QED
  BY <1>8, <1>9, <1>12

\* What is picked from the lines read before the last is picked from all.
LEMMA ShownFromAll ==
  ASSUME EchoInv, flags.gui, NEW S, Consumed \in Seq(S)
  PROVE  Picks(shown, Consumed, DOMAIN Consumed)
<1>1. PICK c \in Nat : c = Len(Consumed)
  OBVIOUS
<1>2. DOMAIN Consumed = 1..c
  BY <1>1
<1>3. CASE echo.ready
  <2>1. Picks(shown, Consumed, 1..(c - 1))
    BY <1>1, <1>3 DEF EchoInv, EchoReady
  <2>2. \A k \in 1..(c - 1) : k \in 1..c
    BY <1>1
  <2>3. Picks(shown, Consumed, 1..c)
    BY <2>1, <2>2, PicksFromMore
  <2> QED
    BY <1>2, <2>3
<1>4. CASE ~echo.ready
  BY <1>4 DEF EchoInv, EchoShown
<1> QED
  BY <1>3, <1>4

\* Nothing is read and nothing shown.
LEMMA EchoKept ==
  ASSUME EchoInv, UNCHANGED <<flags, shown, echo, Consumed>>,
         flags.gui /\ front'.pc \in {"off", "wait"} => ~echo.ready
  PROVE  EchoInv'
BY DEF EchoInv, EchoTyped, EchoReady, EchoShown, Words, Event

LEMMA EchoStart == Init => EchoInv
<1> SUFFICES ASSUME Init PROVE EchoInv
  OBVIOUS
<1>1. TermTyped
  BY TermStart DEF TermInv
<1>2. Consumed = <<>>
  BY <1>1, FreshTerminal DEF Init, TermInit, Fresh, NothingRead
<1>3. /\ shown = <<>> /\ echo = [line |-> NoLine, ready |-> FALSE]
  BY DEF Init, TermInit
<1>4. EchoTyped
  BY <1>3 DEF EchoTyped, Words
<1>5. Picks(shown, Consumed, DOMAIN Consumed)
  BY <1>3, PicksNone
<1> QED
  BY <1>2, <1>3, <1>4, <1>5 DEF EchoInv, EchoReady, EchoShown

LEMMA EchoStep ==
  ASSUME TermInv, KeyInv, TermInv', OrderInv, OrderInv', EchoInv, [Next]_vars
  PROVE  EchoInv'
<1>0. TermTyped /\ TermTyped'
  BY DEF TermInv
<1>1. PICK n : Waiting(n)
  BY DEF OrderInv
<1>2. PICK c : c = Len(typed) - n
  OBVIOUS
<1>3. /\ LinesTyped /\ n \in Nat /\ c \in Nat
      /\ Consumed \in Seq(Lines[flags.kind])
      /\ Len(Consumed) = c /\ DOMAIN Consumed = 1..c
      /\ \A k \in 1..c : Consumed[k] = typed[k]
  BY <1>0, <1>1, <1>2, WaitingUnread DEF OrderInv, HaveBeenRead
<1>4. UNCHANGED <<typed, events>> => Consumed' = Consumed
  BY DEF Consumed, Unread
<1>5. CASE Edit
  <2>1. /\ flags.gui /\ front'.pc \notin {"off", "wait"}
        /\ events # <<>> /\ Head(events) # CTRL_C /\ events' = Tail(events)
        /\ echo' = [line |-> Head(events), ready |-> TRUE]
        /\ UNCHANGED <<flags, typed, shown>>
    BY <1>0, <1>5, FrontFields DEF Edit
  <2>2. /\ Head(events) = events[1] /\ events' \in Seq(Event) /\ events[1] \in Event
        /\ Len(events) \in Nat /\ Len(events) > 0
        /\ Len(events') = Len(events) - 1
        /\ \A i \in 1..(Len(events) - 1) : events'[i] = events[1 + i]
    BY <1>3, <2>1 DEF LinesTyped
  <2>3. n >= 1
    <3>1. events[1] # CTRL_C
      BY <2>1, <2>2
    <3>2. Len(events) = n \/ (Len(events) = n + 1 /\ events[n + 1] = CTRL_C)
      BY <1>1 DEF Waiting
    <3>3. n # 0
      BY <2>2, <3>1, <3>2
    <3> QED
      BY <1>3, <3>3
  <2>4. PICK m \in 1..n : m = 1
    BY <1>3, <2>3
  <2>5. /\ LinesTyped' /\ Waiting(n - m)'
        /\ Len(typed') - (n - m) = Len(typed) - n + m
        /\ typed[Len(typed) - n + 1] = events[1]
    <3>1. /\ Len(events') = Len(events) - m
          /\ \A i \in 1..(Len(events) - m) : events'[i] = events[m + i]
      BY <2>2, <2>4
    <3> QED
      BY <1>0, <1>1, <1>3, <2>1, <2>2, <3>1, ReadingWaits
  <2>6. PICK e : e = n - m
    OBVIOUS
  <2>7. /\ Waiting(e)' /\ Len(typed') - e = c + 1 /\ typed[c + 1] = events[1]
    BY <1>2, <2>4, <2>5, <2>6
  <2>8. /\ Len(Consumed') = c + 1 /\ DOMAIN Consumed' = 1..(c + 1)
        /\ \A k \in 1..(c + 1) : Consumed'[k] = typed[k]
    <3>1. /\ Len(Consumed') = Len(typed') - e
          /\ DOMAIN Consumed' = 1..(Len(typed') - e)
          /\ \A k \in 1..(Len(typed') - e) : Consumed'[k] = typed'[k]
      <4>1. HaveBeenRead(e)'
        BY <1>0, <2>5, <2>7, WaitingUnreadNext
      <4> QED
        BY <4>1 DEF HaveBeenRead
    <3> QED
      BY <2>1, <2>7, <3>1
  <2>9. /\ Consumed' # <<>> /\ Last(Consumed') = events[1]
        /\ \A k \in 1..c : Consumed'[k] = Consumed[k]
    BY <1>3, <2>7, <2>8 DEF Last
  <2>10. Picks(shown, Consumed', 1..c)
    <3>1. Picks(shown, Consumed, 1..c)
      BY <1>3, <2>1, ShownFromAll
    <3>2. PICK u : u = Consumed'
      OBVIOUS
    <3>3. \A k \in 1..c : k \in 1..c /\ u[k] = Consumed[k]
      BY <2>9, <3>2
    <3>4. Picks(shown, u, 1..c)
      BY <3>1, <3>3, PicksFromMore
    <3> QED
      BY <3>2, <3>4
  <2>11. EchoReady'
    <3>1. Len(Consumed') - 1 = c
      BY <1>3, <2>8
    <3> QED
      BY <2>1, <2>2, <2>9, <2>10, <3>1 DEF EchoReady
  <2>12. EchoTyped'
    BY <2>1, <2>2 DEF EchoInv, EchoTyped, Words, Event
  <2> QED
    BY <2>1, <2>11, <2>12 DEF EchoInv, EchoShown
<1>6. CASE Layout
  <2>1. /\ front.pc # "off" /\ front'.pc = "wait"
        /\ shown' = IF echo.ready THEN Append(shown, echo.line) ELSE shown
        /\ echo' = [line |-> NoLine, ready |-> FALSE]
        /\ UNCHANGED <<flags, typed, events>>
    BY <1>0, <1>6, FrontFields DEF Layout
  <2>2. Consumed' = Consumed /\ UNCHANGED Words
    BY <1>4, <2>1 DEF Words, Event
  <2>3. /\ shown \in Seq(Words) /\ echo.line \in Words
    BY DEF EchoInv, EchoTyped
  <2>4. EchoTyped'
    BY <2>1, <2>2, <2>3 DEF EchoTyped, Words
  <2>5. ASSUME flags.gui PROVE EchoShown'
    <3>1. CASE echo.ready
      <4>1. /\ Consumed # <<>> /\ echo.line = Last(Consumed)
            /\ Picks(shown, Consumed, 1..(c - 1))
        BY <1>3, <2>5, <3>1 DEF EchoInv, EchoReady
      <4>2. c \in 1..c /\ Consumed[c] = echo.line
        BY <1>3, <4>1 DEF Last
      <4>3. /\ 1..(c - 1) \in SUBSET Nat
            /\ \A k \in 1..(c - 1) : k < c /\ k \in 1..c /\ Consumed[k] = Consumed[k]
        BY <1>3
      <4>4. Picks(Append(shown, echo.line), Consumed, 1..c)
        BY <1>3, <2>3, <4>1, <4>2, <4>3, PicksNext
      <4>5. shown' = Append(shown, echo.line)
        BY <2>1, <3>1
      <4>6. shown' # <<>> /\ Last(shown') = Last(Consumed)
        BY <2>3, <4>1, <4>5 DEF Last
      <4> QED
        BY <1>3, <2>2, <4>4, <4>5, <4>6 DEF EchoShown
    <3>2. CASE ~echo.ready
      BY <2>1, <2>2, <2>5, <3>2 DEF EchoInv, EchoShown
    <3> QED
      BY <3>1, <3>2
  <2>6. ~echo'.ready
    BY <2>1
  <2> QED
    BY <2>1, <2>4, <2>5, <2>6 DEF EchoInv, EchoReady
<1>7. CASE ParseCommand
  <2>1. ~flags.gui /\ UNCHANGED <<flags, shown, echo>>
    BY <1>7 DEF ParseCommand
  <2> QED
    BY <2>1 DEF EchoInv, EchoTyped, Words, Event
<1>8. CASE LoopTakes
  <2>1. /\ UNCHANGED <<flags, typed, events, shown, echo>>
        /\ flags.gui => front'.pc = "drain"
    BY <1>8 DEF LoopTakes
  <2> QED
    BY <1>4, <2>1, EchoKept
<1>9. CASE (\E line \in Lines[flags.kind] : UserTypes(line)) \/ UserQuits
  <2>1. UNCHANGED <<flags, front, shown, echo>>
    BY <1>9 DEF UserTypes, UserQuits
  <2>2. Consumed' = Consumed
    BY <1>0, <1>1, <1>3, <1>9, TypingConsumes
  <2>3. flags.gui /\ front'.pc \in {"off", "wait"} => ~echo.ready
    BY <2>1 DEF EchoInv
  <2> QED
    BY <2>1, <2>2, <2>3, EchoKept
<1>10. CASE TermReset
  <2>1. /\ Fresh'
        /\ shown' = <<>> /\ echo' = [line |-> NoLine, ready |-> FALSE]
    BY <1>10 DEF TermReset, Fresh
  <2>2. Consumed' = <<>>
    BY <1>0, <2>1, FreshTerminalNext DEF NothingRead
  <2>3. EchoTyped'
    BY <2>1 DEF EchoTyped, Words
  <2>4. Picks(shown', Consumed', DOMAIN Consumed')
    BY <2>1, PicksNone
  <2> QED
    BY <2>1, <2>2, <2>3, <2>4 DEF EchoInv, EchoReady, EchoShown
<1>11. CASE ListenOnInput /\ front.pc = "off"
  <2>1. UNCHANGED <<flags, typed, events, shown, echo>>
    BY <1>11 DEF ListenOnInput
  <2>2. flags.gui => ~echo.ready
    BY <1>11 DEF EchoInv
  <2> QED
    BY <1>4, <2>1, <2>2, EchoKept
<1>12. CASE UNCHANGED <<flags, typed, events, front, echo, shown, taken>>
  <2>1. flags.gui /\ front'.pc \in {"off", "wait"} => ~echo.ready
    BY <1>12 DEF EchoInv
  <2> QED
    BY <1>4, <1>12, <2>1, EchoKept
<1> QED
  BY <1>5, <1>6, <1>7, <1>8, <1>9, <1>10, <1>11, <1>12, TerminalSteps

(***************************************************************************)
(* The view of past commands has lines that were read, in order and each   *)
(* once, and when the GUI rests the last line read is the last one shown   *)
(* (Edit, PastCmd.Layout), however many lines came at a time.              *)
(***************************************************************************)
THEOREM EchoAlwaysFollows == Spec => []EchoFollows
<1> DEFINE I == KeyInv /\ ProbeInv /\ TermInv /\ OrderInv /\ EchoInv
<1>1. Init => I
  BY KeyStart, ProbeStart, TermStart, OrderStart, EchoStart DEF Init
<1>2. I /\ [Next]_vars => I'
  BY KeyInductive, ProbeInductive, TermInductive, OrderStep, EchoStep
<1>3. I => EchoFollows
  <2> SUFFICES ASSUME TermTyped, OrderInv, EchoInv, flags.gui
               PROVE  /\ Picks(shown, Consumed, DOMAIN Consumed)
                      /\ front.pc = "wait" /\ Consumed # <<>> => /\ shown # <<>>
                                                                 /\ Last(shown) = Last(Consumed)
    BY DEF EchoFollows, TermInv
  <2>1. PICK n : Waiting(n)
    BY DEF OrderInv
  <2>2. Consumed \in Seq(Lines[flags.kind])
    BY <2>1, WaitingUnread DEF OrderInv, HaveBeenRead
  <2> QED
    BY <2>2, ShownFromAll DEF EchoInv, EchoShown
<1> HIDE DEF I
<1> QED
  BY <1>1, <1>2, <1>3, PTL DEF Spec

-----------------------------------------------------------------------------
(***************************************************************************)
(* Numbers in and around a block's bytes.  Powers of two first: the        *)
(* recursive function that counts them exists, since it exists up to every *)
(* number.  Counting up stands in for induction.                           *)
(***************************************************************************)

\* A set of naturals that is not empty has a least member.
LEMMA LeastNumber ==
  ASSUME NEW T \in SUBSET Nat, T # {}
  PROVE  \E n \in T : \A m \in T : n <= m
<1>1. PICK n \in T : \A m \in T : ~(<<m, n>> \in OpToRel(<, Nat))
  BY NatLessThanWellFounded, WFMin
<1>2. \A m \in T : ~(m < n)
  BY <1>1 DEF OpToRel
<1> QED
  BY <1>2

\* What holds of 0, and of k + 1 whenever it holds of k, holds up to N.
LEMMA CountUp ==
  ASSUME NEW N \in Nat, NEW T, 0 \in T, \A k \in 0..N - 1 : k \in T => k + 1 \in T
  PROVE  \A k \in 0..N : k \in T
<1> DEFINE Miss == {k \in 0..N : k \notin T}
<1> SUFFICES ASSUME Miss # {} PROVE FALSE
  OBVIOUS
<1>1. PICK n \in Miss : \A m \in Miss : n <= m
  <2>1. Miss \in SUBSET Nat
    OBVIOUS
  <2> HIDE DEF Miss
  <2> QED
    BY <2>1, LeastNumber
<1>2. n \in 0..N /\ n # 0 /\ n \notin T
  OBVIOUS
<1>3. n - 1 \in T
  <2>1. n - 1 \in 0..N /\ ~(n <= n - 1)
    BY <1>2
  <2> QED
    BY <1>1, <2>1
<1>4. n - 1 \in 0..N - 1 /\ (n - 1) + 1 = n
  BY <1>2
<1> QED
  BY <1>2, <1>3, <1>4

\* The powers of two up to the n-th.
Doubling(f, n) == f = [m \in 0..n |-> IF m = 0 THEN 1 ELSE 2 * f[m - 1]]

\* They exist for every n,
LEMMA DoublingExists ==
  ASSUME NEW n \in Nat
  PROVE  \E f : Doubling(f, n)
<1> DEFINE T == {k \in Nat : \E f : Doubling(f, k)}
<1>1. 0 \in T
  <2> DEFINE f == [m \in 0..0 |-> 1]
  <2>1. f = [m \in 0..0 |-> IF m = 0 THEN 1 ELSE 2 * f[m - 1]]
    OBVIOUS
  <2> HIDE DEF f
  <2>2. Doubling(f, 0)
    BY <2>1 DEF Doubling
  <2> QED
    BY <2>2
<1>2. ASSUME NEW k \in 0..n - 1, k \in T PROVE k + 1 \in T
  <2>1. PICK f : Doubling(f, k)
    BY <1>2
  <2>2. f = [m \in 0..k |-> IF m = 0 THEN 1 ELSE 2 * f[m - 1]]
    BY <2>1 DEF Doubling
  <2> DEFINE g == [m \in 0..k + 1 |-> IF m = 0 THEN 1 ELSE 2 * f[m - 1]]
  <2>3. \A m \in 0..k : g[m] = f[m]
    BY <2>2
  <2>4. \A m \in 0..k + 1 : m # 0 => g[m - 1] = f[m - 1]
    BY <2>3
  <2>5. g = [m \in 0..k + 1 |-> IF m = 0 THEN 1 ELSE 2 * g[m - 1]]
    BY <2>4
  <2> HIDE DEF g
  <2>6. Doubling(g, k + 1)
    BY <2>5 DEF Doubling
  <2> QED
    BY <2>6
<1> HIDE DEF T
<1>3. n \in T
  <2>1. \A k \in 0..n : k \in T
    BY <1>1, <1>2, CountUp
  <2> QED
    BY <2>1
<1> QED
  BY <1>3 DEF T

\* and agree where two of them go.
LEMMA DoublingUnique ==
  ASSUME NEW n \in Nat, NEW m \in Nat, NEW f, Doubling(f, n), NEW g, Doubling(g, m), n <= m
  PROVE  \A k \in 0..n : f[k] = g[k]
<1> DEFINE T == {k \in 0..n : f[k] = g[k]}
<1>1. /\ \A k \in 0..n : f[k] = IF k = 0 THEN 1 ELSE 2 * f[k - 1]
      /\ \A k \in 0..m : g[k] = IF k = 0 THEN 1 ELSE 2 * g[k - 1]
  BY DEF Doubling
<1>2. 0 \in T
  BY <1>1
<1>3. ASSUME NEW k \in 0..n - 1, k \in T PROVE k + 1 \in T
  <2>1. k + 1 \in 0..n /\ k + 1 \in 0..m /\ k + 1 # 0 /\ (k + 1) - 1 = k
    OBVIOUS
  <2> QED
    BY <1>1, <1>3, <2>1
<1> HIDE DEF T
<1>4. \A k \in 0..n : k \in T
  BY <1>2, <1>3, CountUp
<1> QED
  BY <1>4 DEF T

\* Pow2 is what its recursive definition says.
LEMMA Pow2Unfolds == Pow2 = [n \in Nat |-> IF n = 0 THEN 1 ELSE 2 * Pow2[n - 1]]
<1> DEFINE Upto(n) == CHOOSE f : Doubling(f, n)
           F == [n \in Nat |-> Upto(n)[n]]
<1>1. \A n \in Nat : Doubling(Upto(n), n)
  BY DoublingExists
<1> HIDE DEF Upto
<1>2. ASSUME NEW n \in Nat PROVE F[n] = IF n = 0 THEN 1 ELSE 2 * F[n - 1]
  <2>1. Upto(n)[n] = IF n = 0 THEN 1 ELSE 2 * Upto(n)[n - 1]
    BY <1>1 DEF Doubling
  <2>2. ASSUME n # 0 PROVE Upto(n - 1)[n - 1] = Upto(n)[n - 1]
    <3>1. n - 1 \in Nat /\ n - 1 <= n /\ n - 1 \in 0..n - 1
      BY <2>2
    <3> QED
      BY <1>1, <3>1, DoublingUnique
  <2>3. n # 0 => n - 1 \in Nat
    OBVIOUS
  <2> QED
    BY <2>1, <2>2, <2>3
<1>3. F = [n \in Nat |-> IF n = 0 THEN 1 ELSE 2 * F[n - 1]]
  BY <1>2
<1> HIDE DEF F
<1>4. \E f : f = [n \in Nat |-> IF n = 0 THEN 1 ELSE 2 * f[n - 1]]
  BY <1>3
<1> QED
  BY <1>4 DEF Pow2

\* Powers of two double, and are positive.
LEMMA Pow2Facts ==
  /\ Pow2[0] = 1
  /\ \A n \in Nat : Pow2[n + 1] = 2 * Pow2[n]
  /\ \A n \in Nat : Pow2[n] \in Nat \ {0}
<1>0. \A n \in Nat : Pow2[n] = IF n = 0 THEN 1 ELSE 2 * Pow2[n - 1]
  BY Pow2Unfolds
<1>1. Pow2[0] = 1
  BY <1>0
<1>2. ASSUME NEW n \in Nat PROVE Pow2[n + 1] = 2 * Pow2[n]
  <2>1. n + 1 \in Nat /\ n + 1 # 0 /\ (n + 1) - 1 = n
    OBVIOUS
  <2> QED
    BY <1>0, <2>1
<1>3. ASSUME NEW n \in Nat PROVE Pow2[n] \in Nat \ {0}
  <2> DEFINE T == {k \in Nat : Pow2[k] \in Nat \ {0}}
  <2>1. 0 \in T
    BY <1>1
  <2>2. ASSUME NEW k \in 0..n - 1, k \in T PROVE k + 1 \in T
    BY <1>2, <2>2
  <2> HIDE DEF T
  <2>3. \A k \in 0..n : k \in T
    BY <2>1, <2>2, CountUp
  <2>4. n \in T
    BY <2>3
  <2> QED
    BY <2>4 DEF T
<1> QED
  BY <1>1, <1>2, <1>3

\* Exponents add.
LEMMA Pow2Adds ==
  ASSUME NEW m \in Nat, NEW n \in Nat
  PROVE  Pow2[m + n] = Pow2[m] * Pow2[n]
<1> DEFINE T == {k \in Nat : Pow2[m + k] = Pow2[m] * Pow2[k]}
<1>1. 0 \in T
  <2>1. Pow2[m] \in Nat /\ Pow2[0] = 1 /\ m + 0 = m
    BY Pow2Facts
  <2> QED
    BY <2>1
<1>2. ASSUME NEW k \in 0..n - 1, k \in T PROVE k + 1 \in T
  <2>1. /\ k \in Nat /\ m + k \in Nat /\ m + (k + 1) = (m + k) + 1
        /\ Pow2[m + k] = Pow2[m] * Pow2[k]
    BY <1>2
  <2>2. Pow2[m + (k + 1)] = 2 * (Pow2[m] * Pow2[k]) /\ Pow2[k + 1] = 2 * Pow2[k]
    BY <2>1, Pow2Facts
  <2>3. Pow2[m] \in Nat /\ Pow2[k] \in Nat
    BY <2>1, Pow2Facts
  <2>4. \A p, q \in Nat : 2 * (p * q) = p * (2 * q)
    OBVIOUS
  <2>5. 2 * (Pow2[m] * Pow2[k]) = Pow2[m] * (2 * Pow2[k])
    BY <2>3, <2>4
  <2> QED
    BY <2>1, <2>2, <2>5
<1> HIDE DEF T
<1>3. n \in T
  <2>1. \A k \in 0..n : k \in T
    BY <1>1, <1>2, CountUp
  <2> QED
    BY <2>1
<1> QED
  BY <1>3 DEF T

-----------------------------------------------------------------------------
(***************************************************************************)
(* Int64ToBytes, for groups of any size and arrays of any length.          *)
(***************************************************************************)

\* The groups of a number are its digits.
LEMMA NextDigit ==
  ASSUME NEW a \in Nat, NEW p \in Nat \ {0}, NEW b \in Nat \ {0}
  PROVE  a % (p * b) = (p * ((a \div p) % b)) + (a % p)
<1> DEFINE x == a \div p
           r == a % p
           y == x \div b
           z == x % b
<1>1. x \in Nat /\ r \in 0..p - 1 /\ a = (p * x) + r
  OBVIOUS
<1>2. y \in Nat /\ z \in 0..b - 1 /\ x = (b * y) + z
  BY <1>1
<1> HIDE DEF x, r, y, z
<1>3. a = ((p * b) * y) + ((p * z) + r)
  <2>1. p * ((b * y) + z) = ((p * b) * y) + (p * z)
    BY <1>1, <1>2
  <2> QED
    BY <1>1, <1>2, <2>1
<1>4. (p * z) + r \in 0..(p * b) - 1
  <2>1. p * z \in Nat /\ p * b \in Nat
    BY <1>2
  <2>2. p * z <= p * (b - 1)
    BY <1>2
  <2>3. p * (b - 1) = (p * b) - p
    OBVIOUS
  <2> QED
    BY <1>1, <2>1, <2>2, <2>3
<1>5. p * b \in Nat \ {0}
  OBVIOUS
<1>6. \A q \in Nat \ {0}, w \in Nat : \A s \in 0..q - 1 : ((q * w) + s) % q = s
  OBVIOUS
<1>7. (((p * b) * y) + ((p * z) + r)) % (p * b) = (p * z) + r
  BY <1>2, <1>4, <1>5, <1>6
<1> QED
  BY <1>3, <1>7 DEF x, r, z

\* Types of the groups; one group more multiplies by its size.
LEMMA GroupFacts ==
  ASSUME NEW bits \in Nat, NEW u \in Nat, NEW k \in Nat
  PROVE  /\ bits * k \in Nat
         /\ Pow2[bits] \in Nat \ {0} /\ Pow2[bits * k] \in Nat \ {0}
         /\ Pow2[bits * (k + 1)] = Pow2[bits * k] * Pow2[bits]
         /\ Group(u, k, bits) \in 0..Pow2[bits] - 1
<1>1. bits * k \in Nat /\ bits * (k + 1) = (bits * k) + bits
  OBVIOUS
<1>2. Pow2[bits] \in Nat \ {0} /\ Pow2[bits * k] \in Nat \ {0}
  BY <1>1, Pow2Facts
<1>3. Pow2[(bits * k) + bits] = Pow2[bits * k] * Pow2[bits]
  BY <1>1, Pow2Adds
<1>4. Group(u, k, bits) \in 0..Pow2[bits] - 1
  BY <1>2 DEF Group
<1> QED
  BY <1>1, <1>2, <1>3, <1>4

SameGroups(u, v, bits, n) == \A k \in 0..n - 1 : Group(u, k, bits) = Group(v, k, bits)

SameRest(u, v, bits, n) == u % Pow2[bits * n] = v % Pow2[bits * n]

\* Numbers with the same first n groups agree in their first n digits.
LEMMA GroupsTell ==
  ASSUME NEW bits \in Nat, NEW u \in Nat, NEW v \in Nat, NEW n \in Nat,
         SameGroups(u, v, bits, n)
  PROVE  SameRest(u, v, bits, n)
<1> DEFINE T == {k \in Nat : u % Pow2[bits * k] = v % Pow2[bits * k]}
<1>1. 0 \in T
  <2>1. bits * 0 = 0 /\ Pow2[0] = 1
    BY Pow2Facts
  <2>2. u % 1 = 0 /\ v % 1 = 0
    OBVIOUS
  <2> QED
    BY <2>1, <2>2
<1>2. ASSUME NEW k \in 0..n - 1, k \in T PROVE k + 1 \in T
  <2> DEFINE p == Pow2[bits * k]
             b == Pow2[bits]
  <2>1. k \in Nat /\ k + 1 \in Nat /\ u % p = v % p /\ Group(u, k, bits) = Group(v, k, bits)
    BY <1>2 DEF SameGroups
  <2>2. p \in Nat \ {0} /\ b \in Nat \ {0} /\ Pow2[bits * (k + 1)] = p * b
    BY <2>1, GroupFacts
  <2>3. (u \div p) % b = (v \div p) % b
    BY <2>1 DEF Group
  <2> HIDE DEF p, b
  <2>4. /\ u % (p * b) = (p * ((u \div p) % b)) + (u % p)
        /\ v % (p * b) = (p * ((v \div p) % b)) + (v % p)
    BY <2>2, NextDigit
  <2>5. u % (p * b) = v % (p * b)
    BY <2>1, <2>3, <2>4
  <2> QED
    BY <2>1, <2>2, <2>5
<1> HIDE DEF T
<1>3. n \in T
  <2>1. \A k \in 0..n : k \in T
    BY <1>1, <1>2, CountUp
  <2> QED
    BY <2>1
<1> QED
  BY <1>3 DEF T, SameRest

\* GroupsNeeded finds a number of groups that holds u.
LEMMA GroupsFit ==
  ASSUME NEW bits \in Nat, NEW len \in Nat \ {0}, NEW u \in Nat, u < Pow2[bits * len]
  PROVE  /\ GroupsNeeded(u, bits, len) \in 1..len
         /\ u < Pow2[bits * GroupsNeeded(u, bits, len)]
<1> DEFINE T == {k \in 1..len : u < Pow2[bits * k]}
           Fits(n) == u < Pow2[bits * n] /\ (n = 1 \/ u >= Pow2[bits * (n - 1)])
<1>1. PICK n \in T : \A m \in T : n <= m
  <2>1. T \in SUBSET Nat /\ len \in T
    OBVIOUS
  <2> HIDE DEF T
  <2> QED
    BY <2>1, LeastNumber
<1>2. n \in 1..len /\ u < Pow2[bits * n]
  OBVIOUS
<1>3. n = 1 \/ u >= Pow2[bits * (n - 1)]
  <2> SUFFICES ASSUME n # 1 PROVE u >= Pow2[bits * (n - 1)]
    OBVIOUS
  <2>1. n - 1 \in 1..len /\ n - 1 \in Nat /\ ~(n <= n - 1)
    BY <1>2
  <2>2. ~(u < Pow2[bits * (n - 1)])
    BY <1>1, <2>1
  <2>3. Pow2[bits * (n - 1)] \in Nat
    BY <2>1, GroupFacts
  <2> QED
    BY <2>2, <2>3
<1>4. Fits(n)
  BY <1>2, <1>3
<1>5. GroupsNeeded(u, bits, len) = CHOOSE m \in 1..len : Fits(m)
  BY DEF GroupsNeeded
<1> HIDE DEF Fits
<1>6. GroupsNeeded(u, bits, len) \in 1..len /\ Fits(GroupsNeeded(u, bits, len))
  BY <1>2, <1>4, <1>5
<1> QED
  BY <1>6 DEF Fits

\* The bytes of a number that fits.
Code(u, bits, len) ==
  [k \in 1..len |->
     IF k > GroupsNeeded(u, bits, len) THEN 0
     ELSE Group(u, k - 1, bits) + IF k < GroupsNeeded(u, bits, len) THEN Pow2[bits] ELSE 0]

\* The first byte without a mark is the last one.
LEMMA MarksTell ==
  ASSUME NEW bits \in Nat, NEW len \in Nat \ {0},
         NEW u \in Nat, u < Pow2[bits * len], NEW v \in Nat, v < Pow2[bits * len],
         Code(u, bits, len) = Code(v, bits, len)
  PROVE  GroupsNeeded(v, bits, len) <= GroupsNeeded(u, bits, len)
<1> DEFINE n == GroupsNeeded(u, bits, len)
           m == GroupsNeeded(v, bits, len)
<1>1. n \in 1..len /\ m \in 1..len
  BY GroupsFit
<1>2. Code(u, bits, len)[n] = Group(u, n - 1, bits) + 0
  BY <1>1 DEF Code
<1>3. ASSUME n < m PROVE Code(v, bits, len)[n] = Group(v, n - 1, bits) + Pow2[bits]
  BY <1>1, <1>3 DEF Code
<1> HIDE DEF n, m
<1>4. /\ Group(u, n - 1, bits) \in 0..Pow2[bits] - 1
      /\ Group(v, n - 1, bits) \in 0..Pow2[bits] - 1
      /\ Pow2[bits] \in Nat
  <2>1. n - 1 \in Nat
    BY <1>1
  <2> QED
    BY <2>1, GroupFacts
<1>5. ~(n < m)
  BY <1>2, <1>3, <1>4
<1> QED
  BY <1>1, <1>5 DEF n, m

\* So the bytes tell the number.
LEMMA CodesTell ==
  ASSUME NEW bits \in Nat, NEW len \in Nat \ {0},
         NEW u \in Nat, u < Pow2[bits * len], NEW v \in Nat, v < Pow2[bits * len],
         Code(u, bits, len) = Code(v, bits, len)
  PROVE  u = v
<1> DEFINE n == GroupsNeeded(u, bits, len)
<1>1. /\ n \in 1..len /\ GroupsNeeded(v, bits, len) \in 1..len
      /\ u < Pow2[bits * n] /\ v < Pow2[bits * GroupsNeeded(v, bits, len)]
  BY GroupsFit
<1>2. GroupsNeeded(v, bits, len) = n
  <2>1. GroupsNeeded(v, bits, len) <= n /\ n <= GroupsNeeded(v, bits, len)
    BY MarksTell
  <2> QED
    BY <1>1, <2>1
<1>3. ASSUME NEW k \in 0..n - 1 PROVE Group(u, k, bits) = Group(v, k, bits)
  <2>1. k + 1 \in 1..len /\ ~(k + 1 > n) /\ (k + 1) - 1 = k /\ k \in Nat
    BY <1>1
  <2> DEFINE mark == IF k + 1 < n THEN Pow2[bits] ELSE 0
  <2>2. /\ Code(u, bits, len)[k + 1] = Group(u, k, bits) + mark
        /\ Code(v, bits, len)[k + 1] = Group(v, k, bits) + mark
    BY <1>2, <2>1 DEF Code
  <2>3. /\ Group(u, k, bits) \in 0..Pow2[bits] - 1
        /\ Group(v, k, bits) \in 0..Pow2[bits] - 1
        /\ Pow2[bits] \in Nat
    BY <2>1, GroupFacts
  <2>4. mark \in Nat
    BY <2>3
  <2> HIDE DEF mark
  <2> QED
    BY <2>2, <2>3, <2>4
<1> HIDE DEF n
<1>4. u % Pow2[bits * n] = v % Pow2[bits * n]
  <2>1. n \in Nat
    BY <1>1
  <2>2. SameGroups(u, v, bits, n)
    BY <1>3 DEF SameGroups
  <2>3. SameRest(u, v, bits, n)
    BY <2>1, <2>2, GroupsTell
  <2> QED
    BY <2>3 DEF SameRest
<1>5. Pow2[bits * n] \in Nat
  <2>1. n \in Nat
    BY <1>1
  <2> QED
    BY <2>1, GroupFacts
<1>6. \A a, p \in Nat : a < p => a % p = a
  OBVIOUS
<1> QED
  BY <1>1, <1>2, <1>4, <1>5, <1>6

\* Half of what the groups count.
LEMMA HalfFacts ==
  ASSUME NEW bits \in Nat \ {0}, NEW len \in Nat \ {0}
  PROVE  /\ Pow2[bits * len - 1] \in Nat \ {0}
         /\ Pow2[bits * len] = 2 * Pow2[bits * len - 1]
<1>1. bits * len \in Nat \ {0}
  OBVIOUS
<1>2. PICK e \in Nat : e = bits * len - 1
  BY <1>1
<1>3. bits * len = e + 1
  BY <1>1, <1>2
<1>4. Pow2[e] \in Nat \ {0} /\ Pow2[e + 1] = 2 * Pow2[e]
  BY Pow2Facts
<1> QED
  BY <1>2, <1>3, <1>4

\* PutVarint panics exactly on the numbers from half of what the groups count.
LEMMA CodeOrPanic ==
  ASSUME NEW bits \in Nat \ {0}, NEW len \in Nat \ {0}, NEW i \in Int,
         NEW half, half = Pow2[bits * len - 1]
  PROVE  /\ ZigZag(i) \in Nat
         /\ ZigZag(i) < 2 * half <=> i \in -half..half - 1
         /\ ZigZag(i) < 2 * half => Int64ToBytes(i, bits, len) = Code(ZigZag(i), bits, len)
         /\ Int64ToBytes(i, bits, len) = PANIC <=> i \notin -half..half - 1
<1>1. half \in Nat \ {0} /\ Pow2[bits * len] = 2 * half
  BY HalfFacts
<1>2. ZigZag(i) \in Nat /\ (ZigZag(i) < 2 * half <=> i \in -half..half - 1)
  BY <1>1 DEF ZigZag
<1>3. ZigZag(i) < 2 * half => Int64ToBytes(i, bits, len) = Code(ZigZag(i), bits, len)
  BY <1>1, <1>2 DEF Int64ToBytes, Code
<1>4. Code(ZigZag(i), bits, len) # PANIC
  <2>1. 1 \in DOMAIN Code(ZigZag(i), bits, len)
    BY DEF Code
  <2>2. 1 \notin DOMAIN PANIC
    BY DEF PANIC
  <2> QED
    BY <2>1, <2>2
<1>5. ~(ZigZag(i) < 2 * half) => Int64ToBytes(i, bits, len) = PANIC
  BY <1>1, <1>2 DEF Int64ToBytes
<1> QED
  BY <1>1, <1>2, <1>3, <1>4, <1>5

(***************************************************************************)
(* Numbers below the limit get bytes that no other number gets, for groups *)
(* and arrays of any size, and Int64ToBytes (bytes_utils.go) panics on the *)
(* numbers outside and on no other.  The code's groups have 7 bits and its *)
(* arrays 8 bytes: its limit is 2^55.                                      *)
(***************************************************************************)
THEOREM CodesStayApart ==
  ASSUME NEW bits \in Nat \ {0}, NEW len \in Nat \ {0},
         NEW half, half = Pow2[bits * len - 1]
  PROVE  /\ \A i \in Int : Int64ToBytes(i, bits, len) = PANIC <=> i \notin -half..half - 1
         /\ \A i, j \in -half..half - 1 :
              i # j => Int64ToBytes(i, bits, len) # Int64ToBytes(j, bits, len)
<1>1. half \in Nat /\ Pow2[bits * len] = 2 * half
  BY HalfFacts
<1>2. ASSUME NEW i \in -half..half - 1, NEW j \in -half..half - 1,
             Int64ToBytes(i, bits, len) = Int64ToBytes(j, bits, len)
      PROVE  i = j
  <2>1. i \in Int /\ j \in Int
    BY <1>1
  <2>2. /\ ZigZag(i) \in Nat /\ ZigZag(i) < Pow2[bits * len]
        /\ ZigZag(j) \in Nat /\ ZigZag(j) < Pow2[bits * len]
        /\ Code(ZigZag(i), bits, len) = Code(ZigZag(j), bits, len)
    BY <1>1, <1>2, <2>1, CodeOrPanic
  <2>3. ZigZag(i) = ZigZag(j)
    BY <2>2, CodesTell
  <2> QED
    BY <2>1, <2>3 DEF ZigZag
<1>3. \A i \in Int : Int64ToBytes(i, bits, len) = PANIC <=> i \notin -half..half - 1
  BY CodeOrPanic
<1> QED
  BY <1>2, <1>3

\* So CodesDiffer holds.
LEMMA CodesDo == CodesDiffer
<1> DEFINE Half(bits, len) == Pow2[bits * len - 1]
           Codes(bits, len) ==
             [i \in -Half(bits, len) - 1..Half(bits, len) |-> Int64ToBytes(i, bits, len)]
           Differ(half, code) ==
             /\ \A i, j \in -half..half - 1 : i # j => code[i] # code[j]
             /\ \A i \in DOMAIN code : (code[i] = PANIC) = (i \in {-half - 1, half})
<1> SUFFICES ASSUME NEW bits \in 1..3, NEW len \in 1..3
             PROVE  Differ(Half(bits, len), Codes(bits, len))
  BY DEF CodesDiffer
<1> SUFFICES ASSUME NEW half, half = Half(bits, len), NEW code, code = Codes(bits, len)
             PROVE  Differ(half, code)
  OBVIOUS
<1>1. bits \in Nat \ {0} /\ len \in Nat \ {0}
  OBVIOUS
<1>2. half \in Nat
  BY <1>1, HalfFacts
<1>3. /\ \A i \in Int : Int64ToBytes(i, bits, len) = PANIC <=> i \notin -half..half - 1
      /\ \A i, j \in -half..half - 1 :
           i # j => Int64ToBytes(i, bits, len) # Int64ToBytes(j, bits, len)
  BY <1>1, CodesStayApart
<1>4. \A i \in -half - 1..half : code[i] = Int64ToBytes(i, bits, len)
  OBVIOUS
<1>5. \A i \in -half..half - 1 : i \in -half - 1..half
  BY <1>2
<1>6. \A i \in -half - 1..half : i \in Int /\ (i \notin -half..half - 1 <=> i \in {-half - 1, half})
  BY <1>2
<1> QED
  BY <1>3, <1>4, <1>5, <1>6

-----------------------------------------------------------------------------
(***************************************************************************)
(* ByteHasLeadingZeros, for digests and difficulties of any size.          *)
(***************************************************************************)

\* The upper r bits of a byte are zero exactly when nothing is left of it after
\* a shift by 8 - r.
LEMMA UpperBits ==
  ASSUME NEW b \in 0..255, NEW r \in 0..8
  PROVE  (\A j \in 0..r - 1 : (b \div Pow2[7 - j]) % 2 = 0) <=> b \div Pow2[8 - r] = 0
<1> DEFINE T == {k \in 0..8 :
                   (\A j \in 0..k - 1 : (b \div Pow2[7 - j]) % 2 = 0) <=> b \div Pow2[8 - k] = 0}
<1>1. 0 \in T
  <2>1. Pow2[8] = 256
    <3>1. /\ Pow2[0] = 1
          /\ Pow2[0 + 1] = 2 * Pow2[0] /\ Pow2[1 + 1] = 2 * Pow2[1]
          /\ Pow2[2 + 1] = 2 * Pow2[2] /\ Pow2[3 + 1] = 2 * Pow2[3]
          /\ Pow2[4 + 1] = 2 * Pow2[4] /\ Pow2[5 + 1] = 2 * Pow2[5]
          /\ Pow2[6 + 1] = 2 * Pow2[6] /\ Pow2[7 + 1] = 2 * Pow2[7]
      BY Pow2Facts
    <3> QED
      BY <3>1
  <2>2. b \div 256 = 0
    OBVIOUS
  <2>3. 8 - 0 = 8
    OBVIOUS
  <2> QED
    BY <2>1, <2>2, <2>3
<1>2. ASSUME NEW k \in 0..8 - 1, k \in T PROVE k + 1 \in T
  <2> DEFINE Zero(j) == (b \div Pow2[7 - j]) % 2 = 0
             x == b \div Pow2[7 - k]
  <2>1. PICK n \in Nat : n = 7 - k
    OBVIOUS
  <2>2. 8 - k = n + 1 /\ 8 - (k + 1) = n /\ k + 1 \in 0..8
    BY <2>1
  <2>3. Pow2[n] \in Nat \ {0} /\ Pow2[8 - k] = 2 * Pow2[n]
    BY <2>2, Pow2Facts
  <2>4. x \in Nat /\ b \div Pow2[8 - k] = x \div 2
    <3> DEFINE p == Pow2[n]
    <3>1. p \in Nat \ {0}
      BY <2>3
    <3> HIDE DEF p
    <3>2. b \div p \in Nat /\ b \div (2 * p) = (b \div p) \div 2
      BY <3>1
    <3> QED
      BY <2>1, <2>3, <3>2 DEF p
  <2>5. (\A j \in 0..k - 1 : Zero(j)) <=> x \div 2 = 0
    BY <1>2, <2>4
  <2>6. Zero(k) <=> x % 2 = 0
    OBVIOUS
  <2>7. b \div Pow2[8 - (k + 1)] = x
    BY <2>1, <2>2
  <2> HIDE DEF Zero, x
  <2>8. (\A j \in 0..(k + 1) - 1 : Zero(j)) <=> (\A j \in 0..k - 1 : Zero(j)) /\ Zero(k)
    <3>1. \A j : j \in 0..(k + 1) - 1 <=> j \in 0..k - 1 \/ j = k
      OBVIOUS
    <3> QED
      BY <3>1, Zenon
  <2>9. x \div 2 = 0 /\ x % 2 = 0 <=> x = 0
    BY <2>4
  <2>10. (\A j \in 0..(k + 1) - 1 : Zero(j)) <=> b \div Pow2[8 - (k + 1)] = 0
    BY <2>5, <2>6, <2>7, <2>8, <2>9
  <2> QED
    BY <2>2, <2>10 DEF Zero
<1> HIDE DEF T
<1>3. \A k \in 0..8 : k \in T
  BY <1>1, <1>2, CountUp
<1> QED
  BY <1>3 DEF T

\* The first d bits are those of the whole bytes and the upper ones of the next.
LEMMA BitsOfBytes ==
  ASSUME NEW bytes, NEW d \in Nat
  PROVE  (\A k \in 0..d - 1 : Bit(bytes, k) = 0)
           <=> /\ \A i \in 1..d \div 8, j \in 0..7 : (bytes[i] \div Pow2[7 - j]) % 2 = 0
               /\ \A j \in 0..(d % 8) - 1 : (bytes[(d \div 8) + 1] \div Pow2[7 - j]) % 2 = 0
<1> DEFINE Zero(i, j) == (bytes[i] \div Pow2[7 - j]) % 2 = 0
           w == d \div 8
           r == d % 8
<1>1. w \in Nat /\ r \in 0..7 /\ d = 8 * w + r
  OBVIOUS
<1>2. \A k \in 0..d - 1 : Bit(bytes, k) = 0 <=> Zero((k \div 8) + 1, k % 8)
  BY DEF Bit
<1> HIDE DEF Zero, w, r
<1>3. ASSUME \A k \in 0..d - 1 : Zero((k \div 8) + 1, k % 8)
      PROVE  /\ \A i \in 1..w, j \in 0..7 : Zero(i, j)
             /\ \A j \in 0..r - 1 : Zero(w + 1, j)
  <2>1. ASSUME NEW i \in 1..w, NEW j \in 0..7 PROVE Zero(i, j)
    <3>1. PICK k \in 0..d - 1 : k = 8 * (i - 1) + j
      BY <1>1
    <3>2. (k \div 8) + 1 = i /\ k % 8 = j
      BY <3>1, <1>1
    <3> QED
      BY <1>3, <3>2
  <2>2. ASSUME NEW j \in 0..r - 1 PROVE Zero(w + 1, j)
    <3>1. PICK k \in 0..d - 1 : k = 8 * w + j
      BY <1>1
    <3>2. k \div 8 = w /\ k % 8 = j
      BY <3>1, <1>1
    <3> QED
      BY <1>3, <3>2
  <2> QED
    BY <2>1, <2>2
<1>4. ASSUME \A i \in 1..w, j \in 0..7 : Zero(i, j),
             \A j \in 0..r - 1 : Zero(w + 1, j),
             NEW k \in 0..d - 1
      PROVE  Zero((k \div 8) + 1, k % 8)
  <2>1. PICK q \in Nat, s \in 0..7 : q = k \div 8 /\ s = k % 8 /\ k = 8 * q + s
    <3>1. k \div 8 \in Nat /\ k % 8 \in 0..7 /\ k = 8 * (k \div 8) + (k % 8)
      OBVIOUS
    <3> QED
      BY <3>1
  <2>2. q < w \/ (q = w /\ s < r)
    BY <1>1, <2>1
  <2>3. CASE q < w
    <3>1. q + 1 \in 1..w
      BY <1>1, <2>1, <2>3
    <3> QED
      BY <1>4, <2>1, <3>1
  <2>4. CASE q = w /\ s < r
    <3>1. s \in 0..r - 1
      BY <1>1, <2>1, <2>4
    <3> QED
      BY <1>4, <2>1, <2>4, <3>1
  <2> QED
    BY <2>2, <2>3, <2>4
<1>5. (\A k \in 0..d - 1 : Zero((k \div 8) + 1, k % 8))
        <=> (\A i \in 1..w, j \in 0..7 : Zero(i, j)) /\ (\A j \in 0..r - 1 : Zero(w + 1, j))
  BY <1>3, <1>4
<1>6. (\A k \in 0..d - 1 : Bit(bytes, k) = 0) <=> (\A k \in 0..d - 1 : Zero((k \div 8) + 1, k % 8))
  BY <1>2
<1> QED
  BY <1>5, <1>6 DEF Zero, w, r

(***************************************************************************)
(* ByteHasLeadingZeros (blockchain_utils.go) answers right about every     *)
(* digest and every difficulty: it counts the zero bits that lead, and     *)
(* panics exactly on the digest of zeros alone when all its bits are asked *)
(* for.                                                                    *)
(***************************************************************************)
THEOREM LeadingZerosRight ==
  ASSUME NEW bytes \in Seq(0..255), NEW d \in Nat
  PROVE  ByteHasLeadingZeros(bytes, d) = RightAnswer(bytes, d)
<1> DEFINE w == d \div 8
           r == d % 8
           len == Len(bytes)
           Upper == bytes[w + 1] \div Pow2[8 - r] = 0
           Whole == \A i \in 1..w : bytes[i] = 0
<1>1. w \in Nat /\ r \in 0..7 /\ d = 8 * w + r /\ len \in Nat
  OBVIOUS
<1>2. d > 8 * len \/ (d = 8 * len /\ w = len /\ r = 0) \/ (d < 8 * len /\ w + 1 \in 1..len)
  <2> HIDE DEF w, r, len
  <2> QED
    BY <1>1
<1>3. ASSUME NEW b \in 0..255
      PROVE  (\A j \in 0..7 : (b \div Pow2[7 - j]) % 2 = 0) <=> b = 0
  <2>1. \A n \in 0..8 :
          (\A j \in 0..n - 1 : (b \div Pow2[7 - j]) % 2 = 0) <=> b \div Pow2[8 - n] = 0
    BY UpperBits, Zenon
  <2>2. 8 \in 0..8 /\ 8 - 1 = 7 /\ 8 - 8 = 0 /\ Pow2[0] = 1
    BY Pow2Facts
  <2>3. b \div 1 = b
    OBVIOUS
  <2>4. (\A j \in 0..7 : (b \div Pow2[7 - j]) % 2 = 0) <=> b \div Pow2[0] = 0
    BY <2>1, <2>2
  <2> QED
    BY <2>2, <2>3, <2>4
<1>4. d <= 8 * len => (ZerosLead(bytes, d) <=> Whole /\ (w < len => Upper))
  <2> SUFFICES ASSUME d <= 8 * len
               PROVE  ZerosLead(bytes, d) <=> Whole /\ (w < len => Upper)
    OBVIOUS
  <2>1. ZerosLead(bytes, d)
          <=> /\ \A i \in 1..w, j \in 0..7 : (bytes[i] \div Pow2[7 - j]) % 2 = 0
              /\ \A j \in 0..r - 1 : (bytes[w + 1] \div Pow2[7 - j]) % 2 = 0
    BY BitsOfBytes DEF ZerosLead
  <2>2. \A i \in 1..w : bytes[i] \in 0..255
    <3>1. 1..w \subseteq 1..len
      BY <1>1, <1>2
    <3>2. \A i \in 1..Len(bytes) : bytes[i] \in 0..255
      BY ElementOfSeq
    <3> QED
      BY <3>1, <3>2
  <2>3. (\A i \in 1..w, j \in 0..7 : (bytes[i] \div Pow2[7 - j]) % 2 = 0) <=> Whole
    BY <1>3, <2>2
  <2>4. (\A j \in 0..r - 1 : (bytes[w + 1] \div Pow2[7 - j]) % 2 = 0) <=> (w < len => Upper)
    <3>1. CASE w < len
      <4>1. bytes[w + 1] \in 0..255
        <5>1. w + 1 \in 1..Len(bytes)
          BY <1>1, <3>1
        <5> QED
          BY <5>1, ElementOfSeq
      <4>2. r \in 0..8
        BY <1>1
      <4> HIDE DEF w, r
      <4>3. (\A j \in 0..r - 1 : (bytes[w + 1] \div Pow2[7 - j]) % 2 = 0) <=> Upper
        BY <4>1, <4>2, UpperBits
      <4> QED
        BY <3>1, <4>3
    <3>2. CASE ~(w < len)
      <4>1. r = 0
        BY <1>1, <1>2, <3>2
      <4>2. 0..r - 1 = {}
        BY <4>1
      <4> QED
        BY <3>2, <4>2
    <3> QED
      BY <3>1, <3>2
  <2> QED
    BY <2>1, <2>3, <2>4
<1>5. ByteHasLeadingZeros(bytes, d)
        = IF d > 8 * len \/ ~Whole THEN "no"
          ELSE IF w = len THEN "panic" ELSE IF Upper THEN "yes" ELSE "no"
  BY DEF ByteHasLeadingZeros, TooShort
<1>6. RightAnswer(bytes, d)
        = IF ~ZerosLead(bytes, d) THEN "no" ELSE IF d = 8 * len THEN "panic" ELSE "yes"
  BY DEF RightAnswer
<1>7. ZerosLead(bytes, d) => d <= 8 * len
  BY DEF ZerosLead
<1> HIDE DEF w, r, len, Upper, Whole
<1>8. w < len \/ w = len \/ d > 8 * len
  BY <1>1, <1>2
<1> QED
  BY <1>1, <1>2, <1>4, <1>5, <1>6, <1>7, <1>8

\* So ZerosCounted holds.
LEMMA ZerosAre == ZerosCounted
<1> SUFFICES ASSUME NEW bytes \in [1..2 -> {0, 1, 2, 15, 16, 64, 127, 128, 255}], NEW d \in 0..17
             PROVE  ByteHasLeadingZeros(bytes, d) = RightAnswer(bytes, d)
  BY DEF ZerosCounted
<1>1. bytes \in Seq(0..255)
  <2>1. /\ bytes = [i \in 1..2 |-> bytes[i]]
        /\ \A i \in 1..2 : bytes[i] \in 0..255
    OBVIOUS
  <2>2. [i \in 1..2 |-> bytes[i]] \in Seq(0..255)
    BY <2>1
  <2> QED
    BY <2>1, <2>2
<1>2. d \in Nat
  OBVIOUS
<1> QED
  BY <1>1, <1>2, LeadingZerosRight

(***************************************************************************)
(* Numbers that Int64ToBytes puts into a hash stay apart.                  *)
(***************************************************************************)
THEOREM NumbersAlwaysApart == Spec => []NumbersStayApart
<1>1. NumbersStayApart
  BY CodesDo DEF NumbersStayApart
<1> QED
  BY <1>1, PTL

(***************************************************************************)
(* ByteHasLeadingZeros finds the digests with enough zero bits and no      *)
(* other.                                                                  *)
(***************************************************************************)
THEOREM LeadingZerosAlwaysCounted == Spec => []LeadingZerosCounted
<1>1. LeadingZerosCounted
  BY ZerosAre DEF LeadingZerosCounted
<1> QED
  BY <1>1, PTL
=============================================================================

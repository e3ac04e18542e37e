--------------------------- MODULE PeerTableProofs --------------------------
(***************************************************************************)
(* Theorems about PeerTable, for any number of handlers (even infinitely   *)
(* many), addresses and attempts to add a peer.                            *)
(***************************************************************************)
EXTENDS PeerTableProperties, FiniteSetTheorems, TLAPS

AdderState ==
  [pc : {"idle", "scan", "append", "call", "answered", "failed"},
   addr : Addr \cup {NOBODY}, conn : 0..MaxAdds]

ConnState ==
  [addr : Addr, state : {"down", "ready", "closed"},
   reaper : {"none", "watch", "remove", "done"}, try : 0..Retry]

\* A set of naturals that is not empty has a least member.
LEMMA LeastOf ==
  ASSUME NEW T \in SUBSET Nat, T # {}
  PROVE  \E n \in T : \A m \in T : n <= m
<1>1. PICK n \in T : \A m \in T : ~(<<m, n>> \in OpToRel(<, Nat))
  BY NatLessThanWellFounded, WFMin
<1>2. \A m \in T : ~(m < n)
  BY <1>1 DEF OpToRel
<1> QED
  BY <1>2

\* Those that have asked and not dialled.
Scanning == {p \in Adders : adders[p].pc = "scan"}

(***************************************************************************)
(* The inductive invariant about those who add peers.  Each connection     *)
(* comes from an attempt, so there are no more than attempts; and an adder *)
(* that waits for the lock to append has a connection of its own, for its  *)
(* address, that nobody watches yet.                                       *)
(***************************************************************************)
AddersTyped ==
  /\ asked \in 0..MaxAdds
  /\ adders \in [Adders -> AdderState]
  /\ \A p \in Adders : adders[p].pc # "idle" => adders[p].addr \in Addr
  /\ conns \in Seq(ConnState)

DialsBounded ==
  /\ IsFiniteSet(Scanning)
  /\ Len(conns) + Cardinality(Scanning) <= asked

Dialled(p) ==
  /\ adders[p].conn \in DOMAIN conns
  /\ conns[adders[p].conn].addr = adders[p].addr
  /\ conns[adders[p].conn].reaper = "none"

AppendsOwn ==
  \A p \in Adders : adders[p].pc = "append" =>
    /\ Dialled(p)
    /\ \A q \in Adders \ {p} : adders[q].pc = "append" => adders[q].conn # adders[p].conn

AddersInv == AddersTyped /\ DialsBounded /\ AppendsOwn

LEMMA AddsTyped == MaxAdds \in Nat
BY PeersAssumption DEF PeersAssumption

\* An adder that moves on, with no connection dialled or changed.
LEMMA AdderMoves ==
  ASSUME AddersInv, NEW p \in Adders, NEW from, NEW to,
         AdderGoes(p, from, to), UNCHANGED <<asked, conns>>, from # "idle",
         to \in {"idle", "call", "answered", "failed"}
  PROVE  AddersInv'
<1>1. /\ adders[p] \in AdderState
      /\ adders[p].pc # "idle"
  BY DEF AddersInv, AddersTyped, AdderGoes
<1>2. /\ adders' \in [Adders -> AdderState]
      /\ adders'[p] = [adders[p] EXCEPT !.pc = to]
      /\ adders'[p].addr = adders[p].addr
      /\ adders'[p].pc = to
      /\ \A q \in Adders \ {p} : adders'[q] = adders[q]
  BY <1>1 DEF AdderGoes, AddersInv, AddersTyped, AdderState
<1>3. AddersTyped'
  <2>1. \A q \in Adders : adders'[q].pc # "idle" => adders'[q].addr \in Addr
    BY <1>1, <1>2 DEF AddersInv, AddersTyped
  <2> QED
    BY <1>2, <2>1 DEF AddersInv, AddersTyped
<1>4. DialsBounded'
  <2>1. Scanning' \in SUBSET Scanning
    BY <1>2 DEF Scanning
  <2>2. IsFiniteSet(Scanning') /\ Cardinality(Scanning') <= Cardinality(Scanning)
    BY <2>1, FS_Subset DEF AddersInv, DialsBounded
  <2>3. /\ Cardinality(Scanning) \in Nat /\ Cardinality(Scanning') \in Nat
        /\ Len(conns) \in Nat /\ asked \in Nat
    BY <2>2, AddsTyped, FS_CardinalityType DEF AddersInv, DialsBounded, AddersTyped
  <2> QED
    BY <2>2, <2>3 DEF AddersInv, DialsBounded
<1>5. AppendsOwn'
  <2>1. \A q \in Adders : adders'[q].pc = "append" => q # p /\ adders'[q] = adders[q]
    BY <1>2
  <2>2. \A q \in Adders : adders'[q].pc = "append" => Dialled(q)'
    BY <2>1 DEF AddersInv, AppendsOwn, Dialled
  <2> QED
    BY <2>1, <2>2 DEF AddersInv, AppendsOwn
<1> QED
  BY <1>3, <1>4, <1>5 DEF AddersInv

\* A connection that changes without a new owner or watcher of a connection
\* that had none.
LEMMA ConnMoves ==
  ASSUME AddersInv, UNCHANGED <<asked, adders>>,
         NEW c \in DOMAIN conns, NEW n \in ConnState, conns' = [conns EXCEPT ![c] = n],
         n.addr = conns[c].addr, conns[c].reaper = "none" => n.reaper = "none"
  PROVE  AddersInv'
<1>1. /\ conns' \in Seq(ConnState)
      /\ Len(conns') = Len(conns)
      /\ DOMAIN conns' = DOMAIN conns
      /\ \A d \in DOMAIN conns : /\ conns'[d].addr = conns[d].addr
                                 /\ conns[d].reaper = "none" => conns'[d].reaper = "none"
  BY DEF AddersInv, AddersTyped
<1>2. Scanning' = Scanning
  BY DEF Scanning
<1>3. \A p \in Adders : Dialled(p) => Dialled(p)'
  BY <1>1 DEF Dialled
<1> QED
  BY <1>1, <1>2, <1>3 DEF AddersInv, AddersTyped, DialsBounded, AppendsOwn

LEMMA AskKeepsAdders ==
  ASSUME AddersInv, NEW p \in Adders, NEW a \in Addr, AdderAsks(p, a)
  PROVE  AddersInv'
<1> DEFINE n == [pc |-> "scan", addr |-> a, conn |-> 0]
<1>1. /\ asked' = asked + 1 /\ asked' \in 0..MaxAdds /\ asked \in Nat
      /\ n \in AdderState
      /\ adders[p].pc = "idle"
      /\ adders' = [adders EXCEPT ![p] = n]
      /\ conns' = conns
  BY AddsTyped DEF AdderAsks, AddersInv, AddersTyped, AdderState
<1>2. /\ adders' \in [Adders -> AdderState]
      /\ adders'[p] = n
      /\ \A q \in Adders \ {p} : adders'[q] = adders[q]
  BY <1>1 DEF AddersInv, AddersTyped
<1>3. AddersTyped'
  <2>1. \A q \in Adders : adders'[q].pc # "idle" => adders'[q].addr \in Addr
    BY <1>2 DEF AddersInv, AddersTyped
  <2> QED
    BY <1>1, <1>2, <2>1 DEF AddersInv, AddersTyped
<1>4. DialsBounded'
  <2>1. Scanning' = Scanning \cup {p} /\ p \notin Scanning
    BY <1>1, <1>2 DEF Scanning
  <2>2. IsFiniteSet(Scanning') /\ Cardinality(Scanning') = Cardinality(Scanning) + 1
    BY <2>1, FS_AddElement DEF AddersInv, DialsBounded
  <2>3. Cardinality(Scanning) \in Nat /\ Len(conns) \in Nat
    BY FS_CardinalityType DEF AddersInv, DialsBounded, AddersTyped
  <2> QED
    BY <1>1, <2>2, <2>3 DEF AddersInv, DialsBounded
<1>5. AppendsOwn'
  BY <1>1, <1>2 DEF AddersInv, AppendsOwn, Dialled
<1> QED
  BY <1>3, <1>4, <1>5 DEF AddersInv

LEMMA DialKeepsAdders ==
  ASSUME AddersInv, NEW p \in Adders, AdderDials(p)
  PROVE  AddersInv'
<1> DEFINE a == adders[p].addr
           n == [adders[p] EXCEPT !.pc = "append", !.conn = Len(conns) + 1]
<1>1. /\ p \in Scanning /\ a \in Addr
      /\ adders[p] \in AdderState
      /\ conns \in Seq(ConnState) /\ Len(conns) \in Nat
  BY DEF AdderDials, Scanning, AddersInv, AddersTyped
<1>2. NewConn(a) \in ConnState
  BY <1>1 DEF NewConn, ConnState, Retry
<1>3. /\ IsFiniteSet(Scanning \ {p})
      /\ Cardinality(Scanning \ {p}) = Cardinality(Scanning) - 1
      /\ Cardinality(Scanning) \in Nat
      /\ Cardinality(Scanning \ {p}) \in Nat
  BY <1>1, FS_RemoveElement, FS_CardinalityType DEF AddersInv, DialsBounded
<1>4. Len(conns) + 1 \in 0..MaxAdds
  BY <1>1, <1>3, AddsTyped DEF AddersInv, DialsBounded, AddersTyped
<1>5. /\ adders' = [adders EXCEPT ![p] = n]
      /\ n \in AdderState
      /\ n.pc = "append" /\ n.conn = Len(conns) + 1 /\ n.addr = a
  BY <1>1, <1>4 DEF AdderDials, AdderState
<1>6. /\ conns' = Append(conns, NewConn(a))
      /\ asked' = asked
  BY DEF AdderDials
<1>7. /\ adders' \in [Adders -> AdderState]
      /\ adders'[p] = n
      /\ \A q \in Adders \ {p} : adders'[q] = adders[q]
  BY <1>5 DEF AddersInv, AddersTyped
<1>8. /\ conns' \in Seq(ConnState)
      /\ Len(conns') = Len(conns) + 1
      /\ DOMAIN conns' = DOMAIN conns \cup {Len(conns) + 1}
      /\ conns'[Len(conns) + 1] = NewConn(a)
      /\ \A c \in DOMAIN conns : conns'[c] = conns[c] /\ c # Len(conns) + 1
  BY <1>1, <1>2, <1>6
<1> HIDE DEF n, a
<1>9. AddersTyped'
  <2>1. \A q \in Adders : adders'[q].pc # "idle" => adders'[q].addr \in Addr
    BY <1>1, <1>5, <1>7 DEF AddersInv, AddersTyped
  <2> QED
    BY <1>6, <1>7, <1>8, <2>1 DEF AddersInv, AddersTyped
<1>10. DialsBounded'
  <2>1. Scanning' = Scanning \ {p}
    BY <1>5, <1>7 DEF Scanning
  <2> QED
    BY <1>1, <1>3, <1>6, <1>8, <2>1 DEF AddersInv, DialsBounded
<1>11. AppendsOwn'
  <2>1. Dialled(p)'
    BY <1>5, <1>7, <1>8 DEF Dialled, NewConn
  <2>2. ASSUME NEW q \in Adders \ {p}, adders'[q].pc = "append"
        PROVE  Dialled(q)' /\ adders'[q].conn # n.conn
    BY <1>5, <1>7, <1>8, <2>2 DEF AddersInv, AppendsOwn, Dialled
  <2>3. ASSUME NEW q \in Adders \ {p}, NEW r \in Adders \ {p, q},
               adders'[q].pc = "append", adders'[r].pc = "append"
        PROVE  adders'[q].conn # adders'[r].conn
    BY <1>7, <2>3 DEF AddersInv, AppendsOwn
  <2> QED
    BY <1>7, <2>1, <2>2, <2>3 DEF AppendsOwn
<1> QED
  BY <1>9, <1>10, <1>11 DEF AddersInv

\* What an append does: the adder moves, and its connection gets a reaper.
LEMMA AppendMeans ==
  ASSUME AddersInv, NEW p \in Adders, AdderAppends(p), NEW c, c = adders[p].conn
  PROVE  /\ c \in DOMAIN conns
         /\ conns[c].addr = adders[p].addr
         /\ conns[c].reaper = "none"
         /\ conns[c] \in ConnState
         /\ [conns[c] EXCEPT !.reaper = "watch"] \in ConnState
         /\ conns' = [conns EXCEPT ![c] = [conns[c] EXCEPT !.reaper = "watch"]]
         /\ adders[p].addr \in Addr
         /\ peers' = Append(peers, [addr |-> adders[p].addr, conn |-> c])
<1>1. adders[p].pc = "append"
  BY DEF AdderAppends, AdderGoes
<1>2. Dialled(p) /\ adders[p].addr \in Addr
  BY <1>1 DEF AddersInv, AppendsOwn, AddersTyped
<1>3. c \in DOMAIN conns /\ conns[c] \in ConnState
  BY <1>2 DEF Dialled, AddersInv, AddersTyped
<1>4. [conns[c] EXCEPT !.reaper = "watch"] \in ConnState
  BY <1>3 DEF ConnState
<1> QED
  BY <1>2, <1>3, <1>4 DEF Dialled, AdderAppends

LEMMA AppendKeepsAdders ==
  ASSUME AddersInv, NEW p \in Adders, AdderAppends(p)
  PROVE  AddersInv'
<1> DEFINE c == adders[p].conn
           n == [conns[c] EXCEPT !.reaper = "watch"]
           to == IF p = LOOP THEN "call" ELSE "idle"
<1>1. /\ c \in DOMAIN conns /\ conns[c] \in ConnState
      /\ n \in ConnState
      /\ conns' = [conns EXCEPT ![c] = n]
  BY AppendMeans
<1>2. n.addr = conns[c].addr
  BY <1>1 DEF ConnState
<1>3. /\ adders[p].pc = "append"
      /\ adders' = [adders EXCEPT ![p].pc = to]
      /\ asked' = asked
  BY DEF AdderAppends, AdderGoes
<1>4. /\ adders' \in [Adders -> AdderState]
      /\ adders'[p].addr = adders[p].addr
      /\ adders'[p].pc = to
      /\ \A q \in Adders \ {p} : adders'[q] = adders[q]
  BY <1>3 DEF AddersInv, AddersTyped, AdderState
<1>5. \A q \in Adders \ {p} : adders[q].pc = "append" => adders[q].conn # c
  BY <1>3 DEF AddersInv, AppendsOwn
<1>6. adders[p].addr \in Addr
  BY <1>3 DEF AddersInv, AddersTyped
<1> HIDE DEF n, c
<1>7. /\ conns' \in Seq(ConnState)
      /\ Len(conns') = Len(conns)
      /\ DOMAIN conns' = DOMAIN conns
      /\ \A d \in DOMAIN conns : d # c => conns'[d] = conns[d]
  BY <1>1 DEF AddersInv, AddersTyped
<1>8. AddersTyped'
  <2>1. \A q \in Adders : adders'[q].pc # "idle" => adders'[q].addr \in Addr
    BY <1>4, <1>6 DEF AddersInv, AddersTyped
  <2> QED
    BY <1>3, <1>4, <1>7, <2>1 DEF AddersInv, AddersTyped
<1>9. DialsBounded'
  <2>1. Scanning' = Scanning
    BY <1>3, <1>4 DEF Scanning
  <2> QED
    BY <1>3, <1>7, <2>1 DEF AddersInv, DialsBounded
<1>10. AppendsOwn'
  <2>1. adders'[p].pc # "append"
    BY <1>4
  <2>2. ASSUME NEW q \in Adders \ {p}, adders'[q].pc = "append" PROVE Dialled(q)'
    BY <1>4, <1>5, <1>7, <2>2 DEF AddersInv, AppendsOwn, Dialled
  <2>3. ASSUME NEW q \in Adders \ {p}, NEW r \in Adders \ {p, q},
               adders'[q].pc = "append", adders'[r].pc = "append"
        PROVE  adders'[r].conn # adders'[q].conn
    BY <1>4, <2>3 DEF AddersInv, AppendsOwn
  <2> QED
    BY <2>1, <2>2, <2>3 DEF AppendsOwn
<1> QED
  BY <1>8, <1>9, <1>10 DEF AddersInv

-----------------------------------------------------------------------------
(***************************************************************************)
(* The inductive invariant about the list: an entry comes with the reaper  *)
(* of its connection, and a reaper takes an entry of its address with it   *)
(* when it ends, if there is one.                                          *)
(***************************************************************************)
Entry == [addr : Addr, conn : Nat]

PeersTyped ==
  /\ peers \in Seq(Entry)
  /\ \A i \in DOMAIN peers :
       peers[i].conn \in DOMAIN conns /\ conns[peers[i].conn].addr = peers[i].addr

PeersInv == PeersTyped /\ ReapersSuffice

\* The places of an address in a list.
At(list, a) == {i \in DOMAIN list : list[i].addr = a}

LEMMA CountedAt ==
  ASSUME NEW S, NEW list \in Seq(S), NEW a
  PROVE  IsFiniteSet(At(list, a)) /\ Cardinality(At(list, a)) \in Nat
<1>1. DOMAIN list = 1..Len(list) /\ Len(list) \in Nat
  OBVIOUS
<1>2. IsFiniteSet(DOMAIN list)
  BY <1>1, FS_Interval
<1>3. At(list, a) \in SUBSET DOMAIN list
  BY DEF At
<1> QED
  BY <1>2, <1>3, FS_Subset, FS_CardinalityType

\* A list without one of its elements: f says where the others were.
LEMMA OneLess ==
  ASSUME NEW S, NEW s \in Seq(S), NEW t \in Seq(S), NEW i \in DOMAIN s,
         NEW f \in [DOMAIN t -> DOMAIN s \ {i}],
         \A j, k \in DOMAIN t : f[j] = f[k] => j = k,
         \A j \in DOMAIN t : t[j] = s[f[j]],
         NEW a
  PROVE  /\ Cardinality(At(t, a)) <= Cardinality(At(s, a))
         /\ s[i].addr = a => Cardinality(At(t, a)) <= Cardinality(At(s, a)) - 1
<1> DEFINE g == [j \in At(t, a) |-> f[j]]
           Rest == At(s, a) \ {i}
<1>1. g \in Injection(At(t, a), Rest)
  BY DEF At, Injection, IsInjective
<1>2. /\ IsFiniteSet(At(s, a)) /\ Cardinality(At(s, a)) \in Nat
      /\ IsFiniteSet(At(t, a)) /\ Cardinality(At(t, a)) \in Nat
  BY CountedAt
<1>3. /\ IsFiniteSet(Rest)
      /\ Cardinality(Rest) = IF i \in At(s, a) THEN Cardinality(At(s, a)) - 1
                             ELSE Cardinality(At(s, a))
  BY <1>2, FS_RemoveElement
<1>4. Cardinality(At(t, a)) <= Cardinality(Rest)
  <2> HIDE DEF g, Rest
  <2> QED
    BY <1>1, <1>3, FS_Injection
<1>5. s[i].addr = a => i \in At(s, a)
  BY DEF At
<1> HIDE DEF Rest, g
<1> QED
  BY <1>2, <1>3, <1>4, <1>5

LEMMA SecondPart ==
  ASSUME NEW S, NEW u \in Seq(S), NEW v \in Seq(S), NEW j \in 1..(Len(u) + Len(v)), ~(j <= Len(u))
  PROVE  (u \o v)[j] = v[j - Len(u)]
OBVIOUS

\* Both ways of taking an entry out: by its place, and the last one.
LEMMA TakenOut ==
  ASSUME NEW S, NEW s \in Seq(S), NEW i \in DOMAIN s, NEW t,
         t = RemoveAt(s, i) \/ (i = Len(s) /\ t = Front(s))
  PROVE  /\ t \in Seq(S)
         /\ \A j \in DOMAIN t : \E k \in DOMAIN s : t[j] = s[k]
         /\ \A a : /\ Cardinality(At(t, a)) <= Cardinality(At(s, a))
                   /\ s[i].addr = a => Cardinality(At(t, a)) <= Cardinality(At(s, a)) - 1
<1> DEFINE f == [j \in DOMAIN t |-> IF j < i THEN j ELSE j + 1]
<1>1. /\ t \in Seq(S)
      /\ Len(t) = Len(s) - 1
      /\ \A j \in 1..Len(t) : t[j] = s[IF j < i THEN j ELSE j + 1]
  <2>0. i \in 1..Len(s) /\ Len(s) \in Nat
    OBVIOUS
  <2>1. CASE t = RemoveAt(s, i)
    <3> DEFINE u == SubSeq(s, 1, i - 1)
               v == SubSeq(s, i + 1, Len(s))
    <3>1. u \in Seq(S) /\ Len(u) = i - 1 /\ \A j \in 1..(i - 1) : u[j] = s[j]
      BY <2>0
    <3>2. v \in Seq(S) /\ Len(v) = Len(s) - i /\ \A j \in 1..(Len(s) - i) : v[j] = s[j + i]
      BY <2>0
    <3>3. t = u \o v
      BY <2>1 DEF RemoveAt
    <3> HIDE DEF u, v
    <3>4. t \in Seq(S) /\ Len(t) = Len(s) - 1
      BY <2>0, <3>1, <3>2, <3>3
    <3>5. ASSUME NEW j \in 1..Len(t) PROVE t[j] = s[IF j < i THEN j ELSE j + 1]
      <4>1. CASE j < i
        BY <2>0, <3>1, <3>2, <3>3, <3>4, <4>1
      <4>2. CASE ~(j < i)
        <5>1. j - (i - 1) \in 1..(Len(s) - i) /\ j \in 1..(Len(u) + Len(v)) /\ ~(j <= Len(u))
          BY <2>0, <3>1, <3>2, <3>4, <4>2
        <5>2. t[j] = v[j - Len(u)]
          BY <3>1, <3>2, <3>3, <5>1, SecondPart
        <5>3. (j - (i - 1)) + i = j + 1
          BY <2>0
        <5> QED
          BY <3>1, <3>2, <4>2, <5>1, <5>2, <5>3
      <4> QED
        BY <4>1, <4>2
    <3> QED
      BY <3>4, <3>5
  <2>2. CASE i = Len(s) /\ t = Front(s)
    BY <2>0, <2>2 DEF Front
  <2> QED
    BY <2>1, <2>2
<1>2. DOMAIN t = 1..Len(t) /\ DOMAIN s = 1..Len(s) /\ Len(s) \in Nat /\ i \in 1..Len(s)
  BY <1>1
<1>3. f \in [DOMAIN t -> DOMAIN s \ {i}]
  BY <1>1, <1>2
<1>4. \A j, k \in DOMAIN t : f[j] = f[k] => j = k
  BY <1>1, <1>2
<1>5. \A j \in DOMAIN t : t[j] = s[f[j]]
  BY <1>1, <1>2
<1> HIDE DEF f
<1>6. \A a : /\ Cardinality(At(t, a)) <= Cardinality(At(s, a))
             /\ s[i].addr = a => Cardinality(At(t, a)) <= Cardinality(At(s, a)) - 1
  BY <1>1, <1>3, <1>4, <1>5, OneLess
<1> QED
  BY <1>1, <1>3, <1>5, <1>6

LEMMA ReapersFinite ==
  ASSUME AddersTyped, NEW a
  PROVE  IsFiniteSet(Reapers(a)) /\ Cardinality(Reapers(a)) \in Nat
<1>1. DOMAIN conns = 1..Len(conns) /\ Len(conns) \in Nat
  BY DEF AddersTyped
<1>2. IsFiniteSet(DOMAIN conns)
  BY <1>1, FS_Interval
<1>3. Reapers(a) \in SUBSET DOMAIN conns
  BY DEF Reapers
<1> QED
  BY <1>2, <1>3, FS_Subset, FS_CardinalityType

LEMMA EntriesAreAt ==
  ASSUME NEW a
  PROVE  Entries(a) = At(peers, a) /\ Entries(a)' = At(peers', a)
BY DEF Entries, At

\* A connection that changes, and whose reaper neither starts nor ends.
LEMMA ConnKeepsPeers ==
  ASSUME AddersTyped, PeersInv, UNCHANGED peers,
         NEW c \in DOMAIN conns, NEW n \in ConnState, conns' = [conns EXCEPT ![c] = n],
         n.addr = conns[c].addr,
         n.reaper \in {"watch", "remove"} <=> conns[c].reaper \in {"watch", "remove"}
  PROVE  PeersInv'
<1>1. /\ DOMAIN conns' = DOMAIN conns
      /\ \A d \in DOMAIN conns :
           /\ conns'[d].addr = conns[d].addr
           /\ conns'[d].reaper \in {"watch", "remove"} <=> conns[d].reaper \in {"watch", "remove"}
  BY DEF AddersTyped
<1>2. \A a : Reapers(a)' = Reapers(a)
  BY <1>1 DEF Reapers
<1>3. \A a : Entries(a)' = Entries(a)
  BY DEF Entries
<1> QED
  BY <1>1, <1>2, <1>3 DEF PeersInv, PeersTyped, ReapersSuffice

LEMMA DialKeepsPeers ==
  ASSUME AddersInv, PeersInv, NEW p \in Adders, AdderDials(p)
  PROVE  PeersInv'
<1> DEFINE n == NewConn(adders[p].addr)
<1>1. conns' = Append(conns, n) /\ conns \in Seq(ConnState) /\ peers' = peers
  BY DEF AdderDials, AddersInv, AddersTyped
<1>2. n.reaper = "none"
  BY DEF NewConn
<1> HIDE DEF n
<1>3. /\ DOMAIN conns' = DOMAIN conns \cup {Len(conns) + 1}
      /\ conns'[Len(conns) + 1] = n
      /\ \A c \in DOMAIN conns : conns'[c] = conns[c]
  BY <1>1
<1>4. \A a : Reapers(a)' = Reapers(a)
  BY <1>2, <1>3 DEF Reapers
<1>5. \A a : Entries(a)' = Entries(a)
  BY <1>1 DEF Entries
<1> QED
  BY <1>1, <1>3, <1>4, <1>5 DEF PeersInv, PeersTyped, ReapersSuffice

LEMMA AppendKeepsPeers ==
  ASSUME AddersInv, PeersInv, NEW p \in Adders, AdderAppends(p)
  PROVE  PeersInv'
<1> DEFINE c == adders[p].conn
           n == [conns[c] EXCEPT !.reaper = "watch"]
           e == [addr |-> adders[p].addr, conn |-> c]
<1>1. /\ c \in DOMAIN conns /\ conns[c] \in ConnState
      /\ conns[c].addr = adders[p].addr
      /\ conns[c].reaper = "none"
      /\ conns' = [conns EXCEPT ![c] = n]
      /\ adders[p].addr \in Addr
      /\ peers' = Append(peers, e)
  BY AppendMeans
<1>2. /\ n.addr = conns[c].addr /\ n.reaper = "watch"
      /\ e.addr = adders[p].addr /\ e.conn = c
  BY <1>1 DEF ConnState
<1>3. e \in Entry
  BY <1>1 DEF Entry, AddersInv, AddersTyped
<1> HIDE DEF n, e
<1>4. /\ DOMAIN conns' = DOMAIN conns
      /\ conns'[c] = n
      /\ \A d \in DOMAIN conns : d # c => conns'[d] = conns[d]
  BY <1>1
<1>5. /\ peers' \in Seq(Entry)
      /\ DOMAIN peers' = DOMAIN peers \cup {Len(peers) + 1}
      /\ peers'[Len(peers) + 1] = e
      /\ \A i \in DOMAIN peers : peers'[i] = peers[i] /\ i # Len(peers) + 1
  BY <1>1, <1>3 DEF PeersInv, PeersTyped
<1>6. PeersTyped'
  BY <1>1, <1>2, <1>4, <1>5 DEF PeersInv, PeersTyped
<1>7. ASSUME NEW a \in Addr PROVE Cardinality(Entries(a)') <= Cardinality(Reapers(a)')
  <2>1. IsFiniteSet(Reapers(a)) /\ Cardinality(Reapers(a)) \in Nat
    BY ReapersFinite DEF AddersInv
  <2>2. IsFiniteSet(Entries(a)) /\ Cardinality(Entries(a)) \in Nat
    BY EntriesAreAt, CountedAt DEF PeersInv, PeersTyped
  <2>3. Cardinality(Entries(a)) <= Cardinality(Reapers(a))
    BY DEF PeersInv, ReapersSuffice
  <2>4. CASE a = adders[p].addr
    <3>1. Entries(a)' = Entries(a) \cup {Len(peers) + 1} /\ Len(peers) + 1 \notin Entries(a)
      BY <1>2, <1>5, <2>4 DEF Entries
    <3>2. Reapers(a)' = Reapers(a) \cup {c} /\ c \notin Reapers(a)
      BY <1>1, <1>2, <1>4, <2>4 DEF Reapers
    <3>3. Cardinality(Entries(a)') = Cardinality(Entries(a)) + 1
      BY <2>2, <3>1, FS_AddElement
    <3>4. Cardinality(Reapers(a)') = Cardinality(Reapers(a)) + 1
      BY <2>1, <3>2, FS_AddElement
    <3> QED
      BY <2>1, <2>2, <2>3, <3>3, <3>4
  <2>5. CASE a # adders[p].addr
    <3>1. Entries(a)' = Entries(a)
      BY <1>2, <1>5, <2>5 DEF Entries
    <3>2. Reapers(a)' = Reapers(a)
      BY <1>1, <1>2, <1>4, <2>5 DEF Reapers
    <3> QED
      BY <2>3, <3>1, <3>2
  <2> QED
    BY <2>4, <2>5
<1> QED
  BY <1>6, <1>7 DEF PeersInv, ReapersSuffice

\* What is left of the list when entry i has been taken out.
LEMMA ShorterList ==
  ASSUME PeersTyped, NEW i \in DOMAIN peers,
         peers' = RemoveAt(peers, i) \/ (i = Len(peers) /\ peers' = Front(peers)),
         DOMAIN conns' = DOMAIN conns,
         \A c \in DOMAIN conns : conns'[c].addr = conns[c].addr
  PROVE  /\ PeersTyped'
         /\ \A a : /\ Cardinality(At(peers', a)) <= Cardinality(At(peers, a))
                   /\ peers[i].addr = a =>
                        Cardinality(At(peers', a)) <= Cardinality(At(peers, a)) - 1
<1>1. /\ peers' \in Seq(Entry)
      /\ \A j \in DOMAIN peers' : \E k \in DOMAIN peers : peers'[j] = peers[k]
      /\ \A a : /\ Cardinality(At(peers', a)) <= Cardinality(At(peers, a))
                /\ peers[i].addr = a =>
                     Cardinality(At(peers', a)) <= Cardinality(At(peers, a)) - 1
  BY TakenOut DEF PeersTyped
<1> QED
  BY <1>1 DEF PeersTyped

LEMMA PruneKeepsPeers ==
  ASSUME AddersInv, PeersInv, LoopPrunes
  PROVE  PeersInv'
<1>1. /\ peers \in Seq(Entry) /\ peers # <<>>
      /\ peers' = Front(peers) /\ conns' = conns
  BY DEF LoopPrunes, PeersInv, PeersTyped
<1>2. Len(peers) \in DOMAIN peers
  BY <1>1
<1>3. /\ PeersTyped'
      /\ \A a : Cardinality(At(peers', a)) <= Cardinality(At(peers, a))
  <2>1. PICK i \in DOMAIN peers : i = Len(peers)
    BY <1>2
  <2>2. PeersTyped
    BY DEF PeersInv
  <2>3. /\ DOMAIN conns' = DOMAIN conns
        /\ \A c \in DOMAIN conns : conns'[c].addr = conns[c].addr
    BY <1>1
  <2>4. peers' = RemoveAt(peers, i) \/ (i = Len(peers) /\ peers' = Front(peers))
    BY <1>1, <2>1
  <2> QED
    BY <2>2, <2>3, <2>4, ShorterList
<1>4. ASSUME NEW a \in Addr PROVE Cardinality(At(peers', a)) <= Cardinality(Reapers(a)')
  <2>1. Reapers(a)' = Reapers(a)
    BY <1>1 DEF Reapers
  <2>2. Cardinality(Reapers(a)) \in Nat
    BY ReapersFinite DEF AddersInv
  <2>3. Cardinality(At(peers, a)) \in Nat /\ Cardinality(At(peers', a)) \in Nat
    BY <1>3, CountedAt DEF PeersInv, PeersTyped
  <2>4. Cardinality(At(peers, a)) <= Cardinality(Reapers(a))
    BY EntriesAreAt DEF PeersInv, ReapersSuffice
  <2> QED
    BY <1>3, <2>1, <2>2, <2>3, <2>4
<1> QED
  BY <1>3, <1>4, EntriesAreAt DEF PeersInv, ReapersSuffice

\* A reaper takes one entry of its address with it, or there is none.
LEMMA RemovalShortens ==
  ASSUME PeersTyped, NEW x, RemovePeer(x),
         DOMAIN conns' = DOMAIN conns,
         \A c \in DOMAIN conns : conns'[c].addr = conns[c].addr
  PROVE  /\ PeersTyped'
         /\ \A a : Cardinality(At(peers', a)) <= Cardinality(At(peers, a))
         /\ At(peers', x) = {} \/ Cardinality(At(peers', x)) <= Cardinality(At(peers, x)) - 1
<1> DEFINE at == {k \in DOMAIN peers : peers[k].addr = x}
<1>1. peers' = IF at = {} THEN peers
               ELSE RemoveAt(peers, CHOOSE k \in at : \A j \in at : k <= j)
  BY DEF RemovePeer
<1>2. CASE at = {}
  <2>1. peers' = peers
    BY <1>1, <1>2
  <2>2. PeersTyped'
    BY <2>1 DEF PeersTyped
  <2>3. \A a : Cardinality(At(peers, a)) \in Nat
    BY CountedAt DEF PeersTyped
  <2>4. At(peers', x) = {}
    BY <1>2, <2>1 DEF At
  <2> QED
    BY <2>1, <2>2, <2>3, <2>4
<1>3. CASE at # {}
  <2>1. \E k \in at : \A j \in at : k <= j
    <3>1. at \in SUBSET Nat
      BY DEF PeersTyped
    <3> HIDE DEF at
    <3> QED
      BY <1>3, <3>1, LeastOf
  <2>2. PICK i \in at : i = CHOOSE k \in at : \A j \in at : k <= j
    BY <2>1
  <2>3. i \in DOMAIN peers /\ peers[i].addr = x /\ peers' = RemoveAt(peers, i)
    BY <1>1, <1>3, <2>2
  <2>4. peers' = RemoveAt(peers, i) \/ (i = Len(peers) /\ peers' = Front(peers))
    BY <2>3
  <2> HIDE DEF at
  <2>5. /\ PeersTyped'
        /\ \A a : /\ Cardinality(At(peers', a)) <= Cardinality(At(peers, a))
                  /\ peers[i].addr = a =>
                       Cardinality(At(peers', a)) <= Cardinality(At(peers, a)) - 1
    BY <2>3, <2>4, ShorterList
  <2> QED
    BY <2>3, <2>5
<1> QED
  BY <1>2, <1>3

LEMMA RemovalKeepsPeers ==
  ASSUME AddersInv, PeersInv, NEW c, ReaperRemoves(c), NEW x, x = conns[c].addr
  PROVE  PeersInv'
<1> DEFINE n == [conns[c] EXCEPT !.reaper = "done"]
<1>1. /\ c \in DOMAIN conns /\ conns[c].reaper = "remove"
      /\ conns' = [conns EXCEPT ![c] = n]
      /\ RemovePeer(x)
  BY DEF ReaperRemoves
<1>2. conns[c] \in ConnState
  BY <1>1 DEF AddersInv, AddersTyped
<1>3. n.addr = x /\ n.reaper = "done" /\ x \in Addr
  BY <1>2 DEF ConnState
<1> HIDE DEF n
<1>4. /\ DOMAIN conns' = DOMAIN conns
      /\ conns'[c] = n
      /\ \A d \in DOMAIN conns : d # c => conns'[d] = conns[d]
      /\ \A d \in DOMAIN conns : conns'[d].addr = conns[d].addr
  BY <1>1, <1>3
<1>5. /\ PeersTyped'
      /\ \A a : Cardinality(At(peers', a)) <= Cardinality(At(peers, a))
      /\ At(peers', x) = {} \/ Cardinality(At(peers', x)) <= Cardinality(At(peers, x)) - 1
  BY <1>1, <1>4, RemovalShortens DEF PeersInv
<1>6. ASSUME NEW a \in Addr PROVE Cardinality(At(peers', a)) <= Cardinality(Reapers(a)')
  <2>1. IsFiniteSet(Reapers(a)) /\ Cardinality(Reapers(a)) \in Nat
    BY ReapersFinite DEF AddersInv
  <2>2. Cardinality(At(peers, a)) \in Nat
    BY CountedAt DEF PeersInv, PeersTyped
  <2>3. Cardinality(At(peers', a)) \in Nat
    BY <1>5, CountedAt DEF PeersTyped
  <2>4. Cardinality(At(peers, a)) <= Cardinality(Reapers(a))
    BY EntriesAreAt DEF PeersInv, ReapersSuffice
  <2>5. CASE a = x
    <3>1. Reapers(a)' = Reapers(a) \ {c} /\ c \in Reapers(a)
      BY <1>1, <1>3, <1>4, <2>5 DEF Reapers
    <3>2. IsFiniteSet(Reapers(a)') /\ Cardinality(Reapers(a)') = Cardinality(Reapers(a)) - 1
      BY <2>1, <3>1, FS_RemoveElement
    <3>3. Cardinality(Reapers(a)') \in Nat
      BY <3>2, FS_CardinalityType
    <3>4. CASE At(peers', a) = {}
      BY <3>3, <3>4, FS_EmptySet
    <3>5. CASE Cardinality(At(peers', a)) <= Cardinality(At(peers, a)) - 1
      BY <2>1, <2>2, <2>3, <2>4, <3>2, <3>5
    <3> QED
      BY <1>5, <2>5, <3>4, <3>5
  <2>6. CASE a # x
    <3>1. Reapers(a)' = Reapers(a)
      BY <1>3, <1>4, <2>6 DEF Reapers
    <3> QED
      BY <1>5, <2>1, <2>2, <2>3, <2>4, <3>1
  <2> QED
    BY <2>5, <2>6
<1> QED
  BY <1>5, <1>6, EntriesAreAt DEF PeersInv, ReapersSuffice

-----------------------------------------------------------------------------
TableInv ==
  /\ AddersInv
  /\ PeersInv
  /\ mutex \in {"free", "read", "jammed"}
  /\ crashed \in BOOLEAN

LEMMA TableInit == Init => TableInv
<1> SUFFICES ASSUME Init PROVE TableInv
  OBVIOUS
<1>1. /\ asked = 0 /\ conns = <<>> /\ peers = <<>>
      /\ adders = [p \in Adders |-> [pc |-> "idle", addr |-> NOBODY, conn |-> 0]]
      /\ MaxAdds \in Nat
  BY AddsTyped DEF Init
<1>2. AddersTyped
  BY <1>1 DEF AddersTyped, AdderState
<1>3. DialsBounded
  <2>1. Scanning = {}
    BY <1>1 DEF Scanning
  <2>2. IsFiniteSet(Scanning) /\ Cardinality(Scanning) = 0
    BY <2>1, FS_EmptySet
  <2> QED
    BY <1>1, <2>2 DEF DialsBounded
<1>4. AppendsOwn
  BY <1>1 DEF AppendsOwn
<1>5. PeersTyped
  BY <1>1 DEF PeersTyped
<1>6. ASSUME NEW a PROVE Cardinality(Entries(a)) <= Cardinality(Reapers(a))
  <2>1. Entries(a) = {} /\ Reapers(a) = {}
    BY <1>1 DEF Entries, Reapers
  <2> QED
    BY <2>1, FS_EmptySet
<1> QED
  BY <1>2, <1>3, <1>4, <1>5, <1>6 DEF Init, TableInv, AddersInv, PeersInv, ReapersSuffice

\* Steps that leave the connections and the list alone.
LEMMA ListUntouched ==
  ASSUME PeersInv, UNCHANGED <<conns, peers>>
  PROVE  PeersInv'
BY DEF PeersInv, PeersTyped, ReapersSuffice, Entries, Reapers

LEMMA AdderStepKeeps ==
  ASSUME TableInv, NEW p \in Adders, AdderStep(p)
  PROVE  TableInv'
<1> USE DEF TableInv
<1>1. CASE AdderFinds(p)
  BY <1>1, AdderMoves, ListUntouched DEF AdderFinds
<1>2. CASE AdderDials(p)
  <2>1. UNCHANGED <<mutex, crashed>>
    BY <1>2 DEF AdderDials
  <2> QED
    BY <1>2, <2>1, DialKeepsAdders, DialKeepsPeers
<1>3. CASE AdderAppends(p)
  <2>1. UNCHANGED <<mutex, crashed>>
    BY <1>3 DEF AdderAppends
  <2> QED
    BY <1>3, <2>1, AppendKeepsAdders, AppendKeepsPeers
<1> QED
  BY <1>1, <1>2, <1>3 DEF AdderStep

LEMMA LoopStepKeeps ==
  ASSUME TableInv, LoopStep
  PROVE  TableInv'
<1> USE DEF TableInv
<1>0. LOOP \in Adders
  BY DEF Adders
<1>1. CASE AdderStep(LOOP)
  BY <1>0, <1>1, AdderStepKeeps
<1>2. CASE LoopCalls("answered") \/ LoopCalls("failed") \/ LoopKeeps \/ LoopPanics
  BY <1>0, <1>2, AdderMoves, ListUntouched DEF LoopCalls, LoopKeeps, LoopPanics
<1>3. CASE LoopPrunes
  <2>1. AddersInv'
    BY <1>0, <1>3, AdderMoves DEF LoopPrunes
  <2>2. PeersInv'
    BY <1>3, PruneKeepsPeers
  <2> QED
    BY <1>3, <2>1, <2>2 DEF LoopPrunes
<1> QED
  BY <1>1, <1>2, <1>3 DEF LoopStep

\* A connection changes, or its reaper looks at it.
LEMMA ConnStepKeeps ==
  ASSUME TableInv, NEW c \in DOMAIN conns, NEW n \in ConnState,
         conns' = [conns EXCEPT ![c] = n], n.addr = conns[c].addr,
         n.reaper = conns[c].reaper \/ (conns[c].reaper = "watch" /\ n.reaper = "remove"),
         UNCHANGED <<asked, adders, peers, mutex, crashed>>
  PROVE  TableInv'
BY ConnMoves, ConnKeepsPeers DEF TableInv, AddersInv

LEMMA ReaperStepKeeps ==
  ASSUME TableInv, NEW c, ConnChanges(c) \/ ReaperLooks(c) \/ ReaperRemoves(c)
  PROVE  TableInv'
<1>0. /\ c \in DOMAIN conns /\ conns[c] \in ConnState
      /\ conns \in Seq(ConnState)
  BY DEF ConnChanges, ReaperLooks, ReaperRemoves, TableInv, AddersInv, AddersTyped
<1>1. CASE ConnChanges(c)
  <2>1. PICK s \in {"down", "ready"} : conns' = [conns EXCEPT ![c].state = s]
    BY <1>1 DEF ConnChanges
  <2> DEFINE n == [conns[c] EXCEPT !.state = s]
  <2>2. n \in ConnState /\ n.addr = conns[c].addr /\ n.reaper = conns[c].reaper
    BY <1>0 DEF ConnState
  <2>3. conns' = [conns EXCEPT ![c] = n]
    BY <2>1
  <2> HIDE DEF n
  <2> QED
    BY <1>0, <1>1, <2>2, <2>3, ConnStepKeeps DEF ConnChanges
<1>2. CASE ReaperLooks(c)
  <2>1. CASE \E t \in 0..Retry : conns' = [conns EXCEPT ![c].try = t]
    <3>1. PICK t \in 0..Retry : conns' = [conns EXCEPT ![c].try = t]
      BY <2>1
    <3> DEFINE n == [conns[c] EXCEPT !.try = t]
    <3>2. n \in ConnState /\ n.addr = conns[c].addr /\ n.reaper = conns[c].reaper
      BY <1>0 DEF ConnState
    <3>3. conns' = [conns EXCEPT ![c] = n]
      BY <3>1
    <3> HIDE DEF n
    <3> QED
      BY <1>0, <1>2, <3>2, <3>3, ConnStepKeeps DEF ReaperLooks
  <2>2. CASE conns' = [conns EXCEPT ![c].state = "closed", ![c].reaper = "remove"]
    <3> DEFINE n == [conns[c] EXCEPT !.state = "closed", !.reaper = "remove"]
    <3>1. conns[c].reaper = "watch"
      BY <1>2 DEF ReaperLooks
    <3>2. n \in ConnState /\ n.addr = conns[c].addr /\ n.reaper = "remove"
      BY <1>0 DEF ConnState
    <3>3. conns' = [conns EXCEPT ![c] = n]
      BY <1>0, <2>2
    <3> HIDE DEF n
    <3> QED
      BY <1>0, <1>2, <3>1, <3>2, <3>3, ConnStepKeeps DEF ReaperLooks
  <2>3. conns[c].try \in 0..Retry
    BY <1>0 DEF ConnState
  <2> QED
    BY <1>2, <2>1, <2>2, <2>3 DEF ReaperLooks, Retry
<1>3. CASE ReaperRemoves(c)
  <2> DEFINE n == [conns[c] EXCEPT !.reaper = "done"]
  <2>1. /\ conns' = [conns EXCEPT ![c] = n] /\ conns[c].reaper = "remove"
        /\ UNCHANGED <<asked, adders, mutex, crashed>>
    BY <1>3 DEF ReaperRemoves
  <2>2. n \in ConnState /\ n.addr = conns[c].addr
    BY <1>0 DEF ConnState
  <2> HIDE DEF n
  <2>3. AddersInv'
    BY <1>0, <2>1, <2>2, ConnMoves DEF TableInv
  <2>4. PeersInv'
    BY <1>3, RemovalKeepsPeers DEF TableInv
  <2> QED
    BY <2>1, <2>3, <2>4 DEF TableInv
<1> QED
  BY <1>1, <1>2, <1>3

LEMMA TableInductive == TableInv /\ [Next]_vars => TableInv'
<1> SUFFICES ASSUME TableInv, [Next]_vars PROVE TableInv'
  OBVIOUS
<1>1. ASSUME NEW p \in Adders, NEW a \in Addr, AdderAsks(p, a) PROVE TableInv'
  <2>1. UNCHANGED <<conns, peers, mutex, crashed>>
    BY <1>1 DEF AdderAsks
  <2> QED
    BY <1>1, <2>1, AskKeepsAdders, ListUntouched DEF TableInv
<1>2. CASE \E p \in Handlers : AdderStep(p)
  BY <1>2, AdderStepKeeps DEF Adders
<1>3. CASE LoopStep
  BY <1>3, LoopStepKeeps
<1>4. CASE \E c \in 1..MaxAdds : ConnChanges(c) \/ ReaperStep(c)
  BY <1>4, ReaperStepKeeps DEF ReaperStep
<1>5. CASE WriterJams \/ UNCHANGED vars
  <2>1. UNCHANGED <<asked, adders, conns, peers, crashed>> /\ mutex' \in {mutex, "jammed"}
    BY <1>5 DEF WriterJams, vars
  <2>2. AddersInv'
    BY <2>1
    DEF TableInv, AddersInv, AddersTyped, DialsBounded, AppendsOwn, Dialled, Scanning
  <2> QED
    BY <2>1, <2>2, ListUntouched DEF TableInv
<1> QED
  BY <1>1, <1>2, <1>3, <1>4, <1>5 DEF Next

(***************************************************************************)
(* Types of the peer table: in particular every entry of the list is for a *)
(* connection that was dialled for its address, though an entry and its    *)
(* connection are made in two steps with others in between.                *)
(***************************************************************************)
THEOREM TypesAreCorrect == Spec => []TypeOK
<1>1. TableInv => TypeOK
  BY DEF TableInv, AddersInv, AddersTyped, PeersInv, PeersTyped, TypeOK, AdderState, ConnState
<1> QED
  BY TableInit, TableInductive, <1>1, PTL DEF Spec

(***************************************************************************)
(* No address has more entries than goroutines that will remove one: an    *)
(* entry never outlives them all, whichever entry a prune cuts off.        *)
(***************************************************************************)
THEOREM ReapersSufficeAlways == Spec => []ReapersSuffice
<1>1. TableInv => ReapersSuffice
  BY DEF TableInv, PeersInv
<1> QED
  BY TableInit, TableInductive, <1>1, PTL DEF Spec
=============================================================================

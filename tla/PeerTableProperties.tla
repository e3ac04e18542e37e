------------------------- MODULE PeerTableProperties ------------------------
(***************************************************************************)
(* What the peer list promises, and a promise the code does not keep.      *)
(***************************************************************************)
EXTENDS PeerTable

(***************************************************************************)
(* Types; and each listed connection has been dialled for its address.     *)
(***************************************************************************)
TypeOK ==
  /\ asked \in 0..MaxAdds
  /\ adders \in [Adders -> [pc : {"idle", "scan", "append", "call", "answered", "failed"},
                            addr : Addr \cup {NOBODY}, conn : 0..MaxAdds]]
  /\ conns \in Seq([addr : Addr, state : {"down", "ready", "closed"},
                    reaper : {"none", "watch", "remove", "done"}, try : 0..Retry])
  /\ mutex \in {"free", "read", "jammed"}
  /\ crashed \in BOOLEAN
  /\ \A i \in DOMAIN peers :
       peers[i].conn \in DOMAIN conns /\ conns[peers[i].conn].addr = peers[i].addr

(***************************************************************************)
(* A reaper removes an entry by address, a prune cuts off the last entry,  *)
(* two handlers may list the same address: still no address has more       *)
(* entries than it has reapers, so that no entry can outlive them all.     *)
(***************************************************************************)
Entries(a) == {i \in DOMAIN peers : peers[i].addr = a}

Reapers(a) == {c \in DOMAIN conns :
                 conns[c].addr = a /\ conns[c].reaper \in {"watch", "remove"}}

ReapersSuffice == \A a \in Addr : Cardinality(Entries(a)) <= Cardinality(Reapers(a))

(***************************************************************************)
(* The address of a node that is down for good leaves the list for good -  *)
(* unless an add has found its address listed (and kept the read lock), or *)
(* a panic has ended the process.                                          *)
(***************************************************************************)
Down(a) == \A c \in DOMAIN conns : conns[c].addr = a => conns[c].state # "ready"

Leaked == mutex # "free"

DeadAddressLeaves ==
  \A a \in Addr :
    <>[]Down(a) /\ []~Leaked /\ []~crashed => <>[]~Listed(a)

-----------------------------------------------------------------------------
(***************************************************************************)
(* What the code does not keep.  full_node/cmd/main.go: "A command channel *)
(* that non-blockingly takes external or internal command": adding a peer  *)
(* comes to an end.                                                        *)
(***************************************************************************)
AddReturns == (adders[LOOP].pc # "idle") ~> (adders[LOOP].pc = "idle")
=============================================================================

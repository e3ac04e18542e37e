SPECIFICATION FairSpec
CONSTANTS
  me = me
  other = other
  k1 = k1
  k2 = k2
  a1 = a1
  a2 = a2
  a3 = a3
  g1 = g1
  Procs <- TwoPrograms
  ME = me
  Keys <- TwoKeys
  NOFILE = nofile
  EMPTY = empty
  NOKEY = nokey
  MaxStarts = 2
  Addresses <- Endpoints
  SELF_ADDR = a1
  Probers <- OneProbe
  PeerLists <- Networks
  MaxChanges = 1
  Lines <- Typed
  CTRL_C = ctrl_c
  MaxLines = 2
INVARIANTS TypeOK KeyIsKept CommandsInOrder EchoFollows ProbeComplete ArgumentsThere NumbersStayApart LeadingZerosCounted
PROPERTIES ProbesEnd CtrlCQuits
CHECK_DEADLOCK FALSE

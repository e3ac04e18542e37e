SPECIFICATION FairSpec
CONSTANTS
  h1 = h1
  a1 = a1
  a2 = a2
  LOOP = loop
  NOBODY = nobody
  Handlers <- OneHandler
  Addr <- TwoAddresses
  MaxAdds = 3
INVARIANTS TypeOK ReapersSuffice
PROPERTY DeadAddressLeaves
CHECK_DEADLOCK FALSE

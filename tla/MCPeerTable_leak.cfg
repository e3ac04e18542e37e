SPECIFICATION FairSpec
CONSTANTS
  h1 = h1
  a1 = a1
  a2 = a2
  LOOP = loop
  NOBODY = nobody
  Handlers <- OneHandler
  Addr <- TwoAddresses
  MaxAdds = 3
PROPERTY AddReturns
CHECK_DEADLOCK FALSE

SPECIFICATION Spec
CONSTANTS
  LastRow = 3
  View = 2
  MaxSeq = 3
  MaxDrops = 1
  Stamps = 2
INVARIANTS FetchingIsOutstanding 
 

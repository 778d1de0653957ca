SPECIFICATION FairSpec
CONSTANTS
  Item = {1, 2, 3, 4, 5}
  Own = {1, 3, 4, 5}
  PerPage = 2
  MaxChanges = 3
INVARIANT TypeOK
PROPERTIES UndercountBounded NeverOvercounts CounterTrueInTheEnd

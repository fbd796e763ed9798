CONSTANTS
  MaxWrites = 2
  MaxOutages = 1
SPECIFICATION FairSpec
INVARIANTS LoadRegular
PROPERTIES NeverRegresses Converges

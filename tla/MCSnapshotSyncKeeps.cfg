CONSTANTS
  MaxWrites = 0
  MaxOutages = 1
SPECIFICATION Spec
PROPERTY KeepsPrevious

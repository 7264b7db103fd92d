\* strings of up to 6 characters, integers of 8 bits
CONSTANTS
  WIDTH = 8
  IntBits = 8
SPECIFICATION Spec
CHECK_DEADLOCK FALSE
INVARIANTS
  StorageFaithful
  
  PrimitivesFaithful

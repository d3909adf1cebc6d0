\* Sizes around the word size, up to four words of storage, two buffers.
CONSTANTS
  SizeT = 1024
  Sizes = {0, 1, 4, 9}
  MaxWords = 4
  MaxBuffers = 2
SPECIFICATION PoolSpec
INVARIANTS AcquireDisjoint AcquireFitsIfRoomy
 
CHECK_DEADLOCK FALSE

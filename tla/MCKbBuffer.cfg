\* Three slots, so that the pointers wrap at different times, and two bytes.
CONSTANTS
  KB_IN_BYTES = 3
  Bytes = {0, 1}
SPECIFICATION Spec
INVARIANTS
  RingInv
PROPERTIES
  ImplementsFifo

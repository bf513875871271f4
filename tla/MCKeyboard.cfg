\* A key of the number pad and the lock and the shift it depends on, a modifier
\* with E0 and the two long sequences; two keys can be on their way, and Pause
\* after another byte overflows the buffer.
CONSTANTS
  KB_IN_BYTES = 6
  Keys = {"KP_8", "L_SHFT", "R_CTRL", "NUM", "PRTSCRN", "PAUSE"}
  MaxPending = 2
SPECIFICATION FairSpec
INVARIANTS
  KeyboardInv
  NothingLost
PROPERTIES
  TypedInOrder
  ReadReturns

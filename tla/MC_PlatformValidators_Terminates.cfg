\* Chain timestamps 1 and 2 against stakers starting at 0..2 and ending at
\* 1..3, so that a validator ends exactly at the timestamp; 2-bit weights.
CONSTANTS
  Stakers <- MCStakers
  Kind <- MCKind
  NodeOf <- MCNodeOf
  Start <- MCStart
  End <- MCEnd
  Weight <- MCWeight
  Times = {1, 2}
  WordBits = 2
SPECIFICATION Spec
CHECK_DEADLOCK FALSE
PROPERTY
  Terminates

SPECIFICATION FairSpec
CONSTANT
  Kicks = {k1}
CHECK_DEADLOCK FALSE
INVARIANTS TypeOK GoneIsGone DroppedForGood
PROPERTIES  StrandedForGood

CONSTANT MaxLen <- Lengths

SPECIFICATION ParseSpec
INVARIANT ParsedAsMeant
CHECK_DEADLOCK FALSE

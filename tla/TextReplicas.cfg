CONSTANT MaxLen = 8
SPECIFICATION TextSpec
INVARIANTS TokensAtBlanks WriteReplicated ReplaceReplicated
CHECK_DEADLOCK FALSE

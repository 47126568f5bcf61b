SPECIFICATION PowSpec
CONSTANT SomeBytes = {0, 1, 127, 255}
INVARIANT NodeTargetIsFormula
CHECK_DEADLOCK FALSE

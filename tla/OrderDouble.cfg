SPECIFICATION Spec
CONSTANT Calls = {c1}
INVARIANT AtMostOneLiveOrder
CHECK_DEADLOCK FALSE

SPECIFICATION Spec
CONSTANT Calls = {c1}
INVARIANTS OkIsBacked NoRetryOverKnownOrder
PROPERTIES ImplementsPromise EveryCallReturns
CHECK_DEADLOCK FALSE

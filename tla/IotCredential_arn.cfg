SPECIFICATION Spec
CONSTANT MaxRuns = 3
CHECK_DEADLOCK FALSE
INVARIANT SecretHoldsThingArn

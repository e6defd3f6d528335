SPECIFICATION Spec
CONSTANT MaxStarts = 2
PROPERTY ServiceFollowsCalls
CHECK_DEADLOCK FALSE

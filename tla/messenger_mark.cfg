CONSTANT MaxMessages = 2
SPECIFICATION Spec
PROPERTY ShownGetsMarked
CHECK_DEADLOCK FALSE

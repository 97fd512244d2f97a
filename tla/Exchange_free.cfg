SPECIFICATION Spec
CONSTANTS
    v = v
    w = w
    x = x
    y = y
    Sends <- MCSends
    Answers <- MCAnswers
    Capacity = 2
    Zero = Zero
    Garbage = Garbage
    NULL = NULL
INVARIANTS FreedOnce
CHECK_DEADLOCK FALSE

CONSTANTS
    Id = {i1, i2}
    None = None
    MaxHeld = 1
    QueueCap = 2
    MaxQueries = 4
    MaxInputs = 3
SPECIFICATION Spec
INVARIANT AnswerFirst
CHECK_DEADLOCK FALSE

SPECIFICATION LiveSpec
CONSTANTS
    Calls = {u1, u2}
    Streams = {s1}
    Buffer = 1
    PipeSize = 1
    MaxLines = 3
INVARIANTS OneUpgrade ClosedOnce NoGaps FilesClosed
PROPERTY StreamsEnd
CHECK_DEADLOCK FALSE

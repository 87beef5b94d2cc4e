SPECIFICATION Spec
CONSTANTS
    Ids = {critical, w1, w2, w3, w4}
    Critical = {critical}
    None = None
    MaxAttempts = 3
    Interval = 2
    Deadline = 1
    Retention = 7
    Capacity = 8
    Lines = 4
    MaxEnds = 0
INVARIANTS
    DeliveredWasShown

CONSTANTS
    Workers = {w1, w2, w3}
    Rate = 3
    MaxRead = 4
SPECIFICATION Spec
INVARIANTS TypeOK RateCapped
PROPERTIES Served CancelledLeaves

CONSTANTS
    Keys = {k1, k2}
    Workers = {w1}
    None = None
SPECIFICATION PrioritySpec
PROPERTIES
    FastLaneFirst

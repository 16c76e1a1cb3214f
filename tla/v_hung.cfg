SPECIFICATION ClientSpec
CONSTANTS
    attempts = 3
    HttpTimeout = 16
    MaxPrelude = 4
INVARIANTS
    HungIsRetried
CHECK_DEADLOCK FALSE

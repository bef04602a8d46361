CONSTANTS
    Devices = {a, b}
    Rates = {0, 2, 3}
    MinRate = 2
    MaxRate = 3
    Minute = 4
    Horizon = 8
SPECIFICATION Spec
INVARIANTS TypeOK QuotaBound NoEarlyRefusal

SPECIFICATION Spec
CONSTANTS
    MaxTrouble = 0
    MaxChanges = 0
INVARIANTS GoodbyeIsHeard
CHECK_DEADLOCK FALSE

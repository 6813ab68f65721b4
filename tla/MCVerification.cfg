SPECIFICATION FairSpec
CONSTANT Flows = {f1}
INVARIANTS TypeOK OnlyOnCommand
PROPERTY EndIsToldLast
CHECK_DEADLOCK FALSE

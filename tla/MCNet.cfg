SPECIFICATION Spec
INVARIANTS
    MessagesWhole
PROPERTIES
    CallsEnd
CHECK_DEADLOCK FALSE

SPECIFICATION Spec
CONSTANTS
    Store = {a, b}
    Retention = 4
    MaxEdits = 4
    None = None
PROPERTIES
    EditKeepsReplaced
CHECK_DEADLOCK FALSE

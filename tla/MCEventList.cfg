SPECIFICATION Spec
CONSTANTS
    Events = {e1, e2, e3, e4}
    NULL = NULL
INVARIANTS LinkedIsAllocated
PROPERTIES ImplementsQueue

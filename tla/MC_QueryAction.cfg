\* A caller may never invoke: readers then stay blocked, which is the
\* documented behaviour of getResult, so final states are not errors.
CONSTANTS
    g1 = g1
    g2 = g2
    g3 = g3
    g4 = g4
    Readers <- MCReaders
    InvokeInvalid = FALSE
SPECIFICATION Spec
INVARIANTS
    TypeOK
    ResultAfterJoin
PROPERTIES ImplementsResultFuture
    ReadersReturn
CHECK_DEADLOCK FALSE
